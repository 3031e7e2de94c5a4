--------------------------- MODULE RequestProofs ---------------------------
(***************************************************************************)
(* Theorems of RequestPlugin, for every set of requests and every table    *)
(* that holds still: where the hook looks and in which order, that what it *)
(* finds is the most specific match, and that it serves all of it.         *)
(***************************************************************************)
EXTENDS RequestPlugin, FiniteSetTheorems, TLAPS

-----------------------------------------------------------------------------
(* The order of the lookup: a turn for each host, in which the exact path  *)
(* comes first and the prefixes after it.                                  *)

Hosts(url) == <<url.host>> \o WildcardHosts(url.host) \o <<AnyHost>>

Turn(url) == 1 + 2 * Len(url.path)

(* The p-th hostPath of the turn for a host. *)
InTurn(url, h, p) ==
    IF p = 1 THEN HostPath(url.scheme, h, url.path, "Exact")
             ELSE HostPath(url.scheme, h, PathPrefixes(url.path)[p - 1], "Prefix")

(* Division, for as many turns as there are. *)
LEMMA Division ==
    ASSUME NEW k \in Nat \ {0}, NEW q \in 0..2, NEW r \in 0..(k - 1)
    PROVE  /\ (k * q + r) \div k = q
           /\ (k * q + r) % k = r
<1>1. CASE q = 0
  BY <1>1
<1>2. CASE q = 1
  BY <1>2
<1>3. CASE q = 2
  BY <1>3
<1> QED BY <1>1, <1>2, <1>3

(* The turn and the place in it of the entry at each place of the order.   *)
LEMMA Places ==
    ASSUME NEW k \in Nat \ {0}, NEW n \in {2, 3}, NEW b \in 1..n, NEW p \in 1..k
    PROVE  /\ k * n \in Nat
           /\ k * (b - 1) + p \in 1..(k * n)
           /\ 1 + (k * (b - 1) + p - 1) \div k = b
           /\ 1 + ((k * (b - 1) + p - 1) % k) = p
<1>1. b - 1 \in 0..2 /\ p - 1 \in 0..(k - 1)
  OBVIOUS
<1>2. (k * (b - 1) + (p - 1)) \div k = b - 1 /\ (k * (b - 1) + (p - 1)) % k = p - 1
  BY <1>1, Division
<1>3. k * n \in Nat /\ k * (b - 1) + p \in 1..(k * n) /\ k * (b - 1) + (p - 1) = k * (b - 1) + p - 1
  <2>1. CASE b = 1
    BY <2>1
  <2>2. CASE b = 2
    <3>1. k * (b - 1) = k /\ k * n \in {k + k, k + k + k}
      BY <2>2
    <3> QED BY <3>1
  <2>3. CASE b = 3
    <3>1. k * (b - 1) = k + k /\ k * n = k + k + k
      BY <2>3
    <3> QED BY <3>1
  <2> QED BY <2>1, <2>2, <2>3
<1>4. 1 + (b - 1) = b /\ 1 + (p - 1) = p
  OBVIOUS
<1> QED BY <1>2, <1>3, <1>4

(* A sequence of n turns of k entries. *)
Turns(seq, bodies, k, n) ==
    /\ Len(seq) = k * n
    /\ \A b \in 1..n, p \in 1..k :
            k * (b - 1) + p \in 1..Len(seq) /\ seq[k * (b - 1) + p] = bodies[b][p]

(* Unroll gives one. *)
LEMMA Unrolled ==
    ASSUME NEW bodies, NEW k \in Nat \ {0}, NEW n \in {2, 3}, Len(bodies) = n
    PROVE  Turns(Unroll(bodies, k), bodies, k, n)
<1> DEFINE at(j) == bodies[1 + (j - 1) \div k][1 + ((j - 1) % k)]
           total == k * n
<1>1. Unroll(bodies, k) = [j \in 1..total |-> at(j)]
  BY DEF Unroll
<1>2. total \in Nat
  <2>1. 1 \in 1..n /\ 1 \in 1..k
    OBVIOUS
  <2> QED BY <2>1, Places
<1>3. ASSUME NEW b \in 1..n, NEW p \in 1..k
      PROVE  k * (b - 1) + p \in 1..total /\ at(k * (b - 1) + p) = bodies[b][p]
  <2> DEFINE j == k * (b - 1) + p
  <2>1. j \in 1..total /\ 1 + (j - 1) \div k = b /\ 1 + ((j - 1) % k) = p
    BY Places
  <2> HIDE DEF j, total
  <2>2. j \in 1..total /\ at(j) = bodies[b][p]
    BY <2>1
  <2> QED BY <2>2 DEF j
<1> HIDE DEF at, total
<1>4. Len(Unroll(bodies, k)) = total
  BY <1>1, <1>2
<1>5. \A j \in 1..total : Unroll(bodies, k)[j] = at(j)
  BY <1>1
<1>6. ASSUME NEW b \in 1..n, NEW p \in 1..k
      PROVE  Unroll(bodies, k)[k * (b - 1) + p] = bodies[b][p]
  BY <1>3, <1>5
<1> QED BY <1>3, <1>4, <1>6 DEF total, Turns

(* The hosts. *)
LEMMA HostsAre ==
    ASSUME NEW url, NEW S, url.host \in Seq(S)
    PROVE  /\ Len(Hosts(url)) \in {2, 3} /\ DOMAIN Hosts(url) = 1..Len(Hosts(url))
           /\ Hosts(url)[1] = url.host
           /\ Len(url.host) > 1 => Len(Hosts(url)) = 3 /\ Hosts(url)[2] = <<"*">> \o Tail(url.host)
           /\ ~(Len(url.host) > 1) => Len(Hosts(url)) = 2
           /\ Hosts(url)[Len(Hosts(url))] = AnyHost
<1>1. CASE Len(url.host) > 1
  BY <1>1 DEF Hosts, WildcardHosts
<1>2. CASE ~(Len(url.host) > 1)
  BY <1>2 DEF Hosts, WildcardHosts
<1> QED BY <1>1, <1>2

(* Which hostPath stands where. *)
LEMMA LookupOrderIs ==
    ASSUME NEW url, NEW S, url.host \in Seq(S), url.path \in Seq(S)
    PROVE  /\ Turn(url) \in Nat \ {0}
           /\ Len(LookupOrder(url)) = Turn(url) * Len(Hosts(url))
           /\ \A b \in 1..Len(Hosts(url)), p \in 1..Turn(url) :
                /\ Turn(url) * (b - 1) + p \in 1..Len(LookupOrder(url))
                /\ LookupOrder(url)[Turn(url) * (b - 1) + p] = InTurn(url, Hosts(url)[b], p)
<1> DEFINE hosts == Hosts(url)
           k == Turn(url)
           n == Len(hosts)
           ForHost(h) == <<HostPath(url.scheme, h, url.path, "Exact")>>
                            \o [j \in DOMAIN PathPrefixes(url.path) |->
                                    HostPath(url.scheme, h, PathPrefixes(url.path)[j], "Prefix")]
           bodies == [i \in DOMAIN hosts |-> ForHost(hosts[i])]
<1>1. k \in Nat \ {0} /\ Len(url.path) \in Nat /\ k = 1 + 2 * Len(url.path)
  BY DEF Turn
<1>2. n \in {2, 3} /\ DOMAIN hosts = 1..n
  BY HostsAre
<1>3. Len(bodies) = n
  BY <1>2
<1>4. LookupOrder(url) = Unroll(bodies, k)
  BY DEF LookupOrder, Hosts, Turn
<1>5. ASSUME NEW h, NEW p \in 1..k
      PROVE  ForHost(h)[p] = InTurn(url, h, p)
  <2>1. DOMAIN PathPrefixes(url.path) = 1..(k - 1)
    BY <1>1 DEF PathPrefixes
  <2> DEFINE rest == [j \in 1..(k - 1) |-> HostPath(url.scheme, h, PathPrefixes(url.path)[j], "Prefix")]
             exact == HostPath(url.scheme, h, url.path, "Exact")
  <2>2. ForHost(h) = <<exact>> \o rest
    BY <2>1
  <2>3. rest \in Seq({rest[j] : j \in 1..(k - 1)}) /\ Len(rest) = k - 1
    BY <1>1
  <2>4. InTurn(url, h, p) = IF p = 1 THEN exact ELSE rest[p - 1]
    BY <1>1 DEF InTurn
  <2> HIDE DEF ForHost, rest, exact
  <2>5. (<<exact>> \o rest)[p] = IF p = 1 THEN exact ELSE rest[p - 1]
    BY <1>1, <2>3
  <2> QED BY <2>2, <2>4, <2>5
<1>6. ASSUME NEW b \in 1..n, NEW p \in 1..k
      PROVE  bodies[b][p] = InTurn(url, hosts[b], p)
  BY <1>2, <1>5
<1> HIDE DEF bodies, k, n, hosts
<1>7. k \in Nat \ {0} /\ n \in {2, 3}
  BY <1>1, <1>2
<1>8. Turns(LookupOrder(url), bodies, k, n)
  BY <1>3, <1>4, <1>7, Unrolled
<1> QED BY <1>6, <1>7, <1>8 DEF k, n, hosts, Turns

-----------------------------------------------------------------------------
(* Every hostPath that matches a request is asked for. *)

(* The prefixes that end before and after a "/". *)
LEMMA PrefixesAre ==
    ASSUME NEW S, NEW path \in Seq(S), NEW n \in 1..Len(path)
    PROVE  /\ 2 * (Len(path) - n) + 1 \in 1..(2 * Len(path))
           /\ 2 * (Len(path) - n) + 2 \in 1..(2 * Len(path))
           /\ PathPrefixes(path)[2 * (Len(path) - n) + 1] = SubSeq(path, 1, n)
           /\ PathPrefixes(path)[2 * (Len(path) - n) + 2] = SubSeq(path, 1, n - 1) \o Root
<1> DEFINE l == Len(path)
           i == 2 * (l - n) + 1
           j == 2 * (l - n) + 2
           Cut(m, r) == SubSeq(path, 1, m) \o (IF r = 0 THEN Root ELSE <<>>)
           at(x) == Cut(l - (x \div 2), x % 2)
<1>1. l \in Nat /\ n \in 1..l
  OBVIOUS
<1>2. i \in 1..(2 * l) /\ j \in 1..(2 * l)
  BY <1>1
<1>3. i \div 2 = l - n /\ i % 2 = 1 /\ j \div 2 = l - n + 1 /\ j % 2 = 0
  BY <1>1
<1>4. l - (i \div 2) = n /\ l - (j \div 2) = n - 1
  BY <1>1, <1>3
<1>5. PathPrefixes(path) = [x \in 1..(2 * l) |-> at(x)]
  BY DEF PathPrefixes
<1>6. at(i) = SubSeq(path, 1, n) \o <<>> /\ at(j) = SubSeq(path, 1, n - 1) \o Root
  <2>1. at(i) = Cut(n, 1) /\ at(j) = Cut(n - 1, 0)
    <3> HIDE DEF i, j, Cut
    <3> QED BY <1>3, <1>4
  <2>2. Cut(n, 1) = SubSeq(path, 1, n) \o <<>> /\ Cut(n - 1, 0) = SubSeq(path, 1, n - 1) \o Root
    OBVIOUS
  <2> HIDE DEF at, Cut
  <2> QED BY <2>1, <2>2
<1>7. SubSeq(path, 1, n) \in Seq(S)
  BY <1>1
<1>8. SubSeq(path, 1, n) \o <<>> = SubSeq(path, 1, n)
  BY <1>7
<1> HIDE DEF at, i, j
<1>9. PathPrefixes(path)[i] = at(i) /\ PathPrefixes(path)[j] = at(j)
  BY <1>2, <1>5
<1> QED BY <1>2, <1>6, <1>8, <1>9 DEF i, j

(* A host that matches has a turn. *)
LEMMA HostHasTurn ==
    ASSUME NEW url, NEW S, url.host \in Seq(S), NEW h, HostRank(h, url.host) > 0
    PROVE  \E b \in 1..Len(Hosts(url)) : Hosts(url)[b] = h
<1>1. \/ h = url.host
      \/ h = <<"*">> \o Tail(url.host) /\ Len(url.host) > 1
      \/ h = AnyHost
  BY DEF HostRank
<1>2. 1 \in 1..Len(Hosts(url)) /\ Len(Hosts(url)) \in 1..Len(Hosts(url))
  BY HostsAre
<1>3. CASE h = url.host
  BY <1>2, <1>3, HostsAre
<1>4. CASE h = <<"*">> \o Tail(url.host) /\ Len(url.host) > 1
  <2>1. Len(Hosts(url)) = 3 /\ Hosts(url)[2] = h
    BY <1>4, HostsAre
  <2> QED BY <2>1
<1>5. CASE h = AnyHost
  BY <1>2, <1>5, HostsAre
<1> QED BY <1>1, <1>3, <1>4, <1>5

(* What follows a "/" at the end of a path. *)
Nothing == ""

(* "/" is a path of that alone. *)
LEMMA RootIs == Root = <<Nothing>>
BY Zenon DEF Root, Nothing

(* One path after another. *)
LEMMA Joined ==
    ASSUME NEW S, NEW a \in Seq(S), NEW b \in Seq(S)
    PROVE  /\ a \o b \in Seq(S) /\ Len(a \o b) = Len(a) + Len(b)
           /\ \A x \in 1..Len(a) : (a \o b)[x] = a[x]
           /\ \A x \in (Len(a) + 1)..(Len(a) + Len(b)) : (a \o b)[x] = b[x - Len(a)]
OBVIOUS

(* A path that ends in "/" is what comes before it and "/". *)
LEMMA EndsInRoot ==
    ASSUME NEW T, NEW path \in Seq(T), path # <<>>, Last(path) = Nothing
    PROVE  path = Front(path) \o Root /\ Front(path) \in Seq(T) /\ Len(Front(path)) = Len(path) - 1
<1> DEFINE n == Len(path)
           front == SubSeq(path, 1, n - 1)
<1>1. n \in Nat \ {0} /\ front = Front(path) /\ path[n] = Nothing
  BY DEF Front, Last
<1>2. front \in Seq(T) /\ Len(front) = n - 1 /\ \A i \in 1..(n - 1) : front[i] = path[i]
  <2> DEFINE m == n - 1
  <2>1. m \in Nat /\ m <= Len(path)
    BY <1>1
  <2> HIDE DEF m
  <2>2. \A i \in 1..m : path[i] \in T
    BY <2>1
  <2>3. SubSeq(path, 1, m) = [i \in 1..m |-> path[i]]
    BY <2>1
  <2>4. SubSeq(path, 1, m) \in Seq(T) /\ Len(SubSeq(path, 1, m)) = m
    BY <2>1, <2>2, <2>3
  <2> QED BY <2>3, <2>4 DEF m
<1> HIDE DEF front
<1>3. Root \in Seq({Nothing}) /\ Len(Root) = 1 /\ Root[1] = Nothing
  BY RootIs
<1>4. front \in Seq(T \cup {Nothing}) /\ Root \in Seq(T \cup {Nothing})
  BY <1>2, <1>3
<1>5. /\ front \o Root \in Seq(T \cup {Nothing})
      /\ Len(front \o Root) = Len(front) + Len(Root)
      /\ \A i \in 1..Len(front) : (front \o Root)[i] = front[i]
      /\ \A i \in 1..Len(Root) : (front \o Root)[Len(front) + i] = Root[i]
  BY <1>4
<1>6. Len(front \o Root) = n /\ \A i \in 1..n : (front \o Root)[i] = path[i]
  <2>1. Len(front \o Root) = n
    BY <1>1, <1>2, <1>3, <1>5
  <2>2. (front \o Root)[n] = path[n]
    BY <1>1, <1>2, <1>3, <1>5
  <2>3. \A i \in 1..(n - 1) : (front \o Root)[i] = path[i]
    BY <1>1, <1>2, <1>5
  <2>4. \A i \in 1..n : i = n \/ i \in 1..(n - 1)
    BY <1>1
  <2> QED BY <2>1, <2>2, <2>3, <2>4
<1>7. path \in Seq(T \cup {Nothing})
  OBVIOUS
<1> QED BY <1>1, <1>2, <1>5, <1>6, <1>7

(* A path that matches has a place in the turn. *)
LEMMA PathHasPlace ==
    ASSUME NEW url, NEW S, url.path \in Seq(S), NEW T, NEW hp,
           hp.path \in Seq(T), hp.path # <<>>, hp.kind \in {"E+", "P+"},
           hp = [kind |-> hp.kind, scheme |-> url.scheme, host |-> hp.host, path |-> hp.path],
           PathMatches(hp, url.path)
    PROVE  \E p \in 1..Turn(url) : InTurn(url, hp.host, p) = hp
<1> DEFINE l == Len(url.path)
           n == Len(hp.path)
<1>1. l \in Nat /\ n \in Nat \ {0} /\ Turn(url) = 1 + 2 * l
  BY DEF Turn
<1>2. \/ hp.path = url.path
      \/ hp.kind = "P+" /\ n <= l /\ IsPrefix(hp.path, url.path)
      \/ hp.kind = "P+" /\ n <= l /\ Last(hp.path) = Nothing /\ IsPrefix(Front(hp.path), url.path)
  BY Zenon DEF PathMatches, Nothing
<1>3. CASE hp.kind = "E+"
  <2>1. hp.path = url.path
    BY <1>2, <1>3
  <2>2. InTurn(url, hp.host, 1) = hp
    BY <1>3, <2>1 DEF InTurn, HostPath
  <2> QED BY <1>1, <2>2
<1>4. CASE hp.kind = "P+"
  <2>1. ASSUME NEW j \in 1..(2 * l), PathPrefixes(url.path)[j] = hp.path
        PROVE  \E p \in 1..Turn(url) : InTurn(url, hp.host, p) = hp
    <3>1. j + 1 \in 1..Turn(url) /\ j + 1 # 1 /\ (j + 1) - 1 = j
      BY <1>1, <2>1
    <3>2. InTurn(url, hp.host, j + 1) = HostPath(url.scheme, hp.host, hp.path, "Prefix")
      BY <2>1, <3>1 DEF InTurn
    <3>3. HostPath(url.scheme, hp.host, hp.path, "Prefix") = hp
      BY <1>4 DEF HostPath
    <3> QED BY <3>1, <3>2, <3>3
  <2>2. CASE n <= l /\ IsPrefix(hp.path, url.path)
    <3>1. SubSeq(hp.path, 1, n) = hp.path
      BY <1>1
    <3>2. hp.path = SubSeq(url.path, 1, n)
      BY <2>2, <3>1 DEF IsPrefix
    <3>3. n \in 1..l
      BY <1>1, <2>2
    <3> QED BY <2>1, <3>2, <3>3, PrefixesAre
  <2>3. CASE n <= l /\ Last(hp.path) = Nothing /\ IsPrefix(Front(hp.path), url.path)
    <3> DEFINE front == Front(hp.path)
    <3>1. hp.path = front \o Root /\ front \in Seq(T) /\ Len(front) = n - 1
      BY <2>3, EndsInRoot
    <3>2. SubSeq(front, 1, n - 1) = SubSeq(url.path, 1, n - 1)
      BY <2>3, <3>1 DEF IsPrefix
    <3> HIDE DEF front
    <3>3. SubSeq(front, 1, n - 1) = front
      BY <1>1, <3>1
    <3>4. n \in 1..l
      BY <1>1, <2>3
    <3> DEFINE j == 2 * (l - n) + 2
    <3>5. j \in 1..(2 * l) /\ PathPrefixes(url.path)[j] = SubSeq(url.path, 1, n - 1) \o Root
      BY <3>4, PrefixesAre
    <3>6. PathPrefixes(url.path)[j] = hp.path
      BY <3>1, <3>2, <3>3, <3>5
    <3> HIDE DEF j
    <3> QED BY <2>1, <3>5, <3>6
  <2>4. CASE hp.path = url.path
    <3>1. IsPrefix(hp.path, url.path) /\ n <= l
      BY <1>1, <2>4 DEF IsPrefix
    <3> QED BY <2>2, <3>1
  <2> QED BY <1>2, <2>2, <2>3, <2>4
<1> QED BY <1>3, <1>4

(* A hostPath and the parts it is made of. *)
HasParts(hp, T) ==
    /\ hp.path \in Seq(T) /\ hp.path # <<>> /\ hp.kind \in {"E+", "P+"}
    /\ hp = [kind |-> hp.kind, scheme |-> hp.scheme, host |-> hp.host, path |-> hp.path]

(* So a hostPath that matches stands somewhere in the order. *)
LEMMA MatchIsAsked ==
    ASSUME NEW url, NEW S, url.host \in Seq(S), url.path \in Seq(S), NEW hps, NEW T, NEW hp,
           HasParts(hp, T), hp \in Matching(hps, url)
    PROVE  \E j \in 1..Len(LookupOrder(url)) : LookupOrder(url)[j] = hp
<1>1. hp.scheme = url.scheme /\ HostRank(hp.host, url.host) > 0 /\ PathMatches(hp, url.path)
  BY DEF Matching
<1>2. PICK b \in 1..Len(Hosts(url)) : Hosts(url)[b] = hp.host
  BY <1>1, HostHasTurn
<1>3. PICK p \in 1..Turn(url) : InTurn(url, hp.host, p) = hp
  <2>1. /\ hp.path \in Seq(T) /\ hp.path # <<>> /\ hp.kind \in {"E+", "P+"}
        /\ hp = [kind |-> hp.kind, scheme |-> url.scheme, host |-> hp.host, path |-> hp.path]
    BY <1>1 DEF HasParts
  <2> QED BY <1>1, <2>1, PathHasPlace
<1> DEFINE j == Turn(url) * (b - 1) + p
<1>4. j \in 1..Len(LookupOrder(url)) /\ LookupOrder(url)[j] = InTurn(url, Hosts(url)[b], p)
  BY LookupOrderIs
<1> QED BY <1>2, <1>3, <1>4

(* The same, to be used of an instance of this module. *)
AllAsked(hps) ==
    \A url, S, T, hp :
        (/\ url.host \in Seq(S) /\ url.path \in Seq(S)
         /\ HasParts(hp, T) /\ hp \in Matching(hps, url))
        => \E j \in 1..Len(LookupOrder(url)) : LookupOrder(url)[j] = hp

LEMMA MatchesAreAsked == \A hps : AllAsked(hps)
BY MatchIsAsked DEF AllAsked

-----------------------------------------------------------------------------
(* What is asked for first is more specific. *)

(* The ranks of hosts and paths, with a name for the empty string. *)
LEMMA Ranks ==
    /\ \A h, host : HostRank(h, host) =
            IF h = host THEN 3
            ELSE IF h = <<"*">> \o Tail(host) /\ Len(host) > 1 THEN 2
            ELSE IF h = AnyHost THEN 1 ELSE 0
    /\ \A path : PathRank(path) = 2 * Len(path) - (IF Last(path) = Nothing THEN 1 ELSE 0)
<1>1. ASSUME NEW h, NEW host
      PROVE  HostRank(h, host) = IF h = host THEN 3
                                 ELSE IF h = <<"*">> \o Tail(host) /\ Len(host) > 1 THEN 2
                                 ELSE IF h = AnyHost THEN 1 ELSE 0
  BY DEF HostRank
<1>2. ASSUME NEW path
      PROVE  PathRank(path) = 2 * Len(path) - (IF Last(path) = Nothing THEN 1 ELSE 0)
  BY DEF PathRank, Nothing
<1> QED BY <1>1, <1>2

(* The earlier of two turns is for the more specific host, unless a still  *)
(* earlier one is for the same host.                                       *)
LEMMA HostOrder ==
    ASSUME NEW url, NEW S, url.host \in Seq(S),
           NEW b \in 1..Len(Hosts(url)), NEW c \in 1..Len(Hosts(url)), b < c,
           \A d \in 1..(c - 1) : Hosts(url)[d] # Hosts(url)[c],
           \A d \in 1..(b - 1) : Hosts(url)[d] # Hosts(url)[b]
    PROVE  HostRank(Hosts(url)[b], url.host) > HostRank(Hosts(url)[c], url.host)
<1> DEFINE rank(h) == HostRank(h, url.host)
           other == <<"*">> \o Tail(url.host)
           hosts == Hosts(url)
<1>1. Len(url.host) > 1 => Len(hosts) = 3 /\ hosts[2] = other
  BY HostsAre
<1>2. Len(hosts) \in {2, 3} /\ hosts[1] = url.host /\ hosts[Len(hosts)] = AnyHost
  BY HostsAre
<1>3. ~(Len(url.host) > 1) => Len(hosts) = 2
  BY HostsAre
<1>4. rank(url.host) = 3
  BY Ranks
<1>5. Len(url.host) > 1 /\ other # url.host => rank(other) = 2
  BY Ranks
<1>6. AnyHost # url.host /\ (Len(url.host) > 1 => AnyHost # other) => rank(AnyHost) = 1
  BY Ranks
<1> HIDE DEF rank, other, hosts
<1>7. CASE Len(url.host) > 1
  <2>1. b \in 1..2 /\ c \in 2..3 /\ b < c /\ hosts[2] = other /\ hosts[3] = AnyHost /\ Len(hosts) = 3
    BY <1>1, <1>2, <1>7 DEF hosts
  <2>2. CASE b = 1 /\ c = 2
    <3>1. hosts[1] # hosts[2]
      BY <2>2 DEF hosts
    <3> QED BY <1>2, <1>4, <1>5, <1>7, <2>1, <2>2, <3>1 DEF rank, hosts
  <2>3. CASE c = 3
    <3>1. hosts[1] # hosts[3] /\ hosts[2] # hosts[3]
      BY <2>3 DEF hosts
    <3>2. rank(AnyHost) = 1
      BY <1>2, <1>6, <2>1, <3>1
    <3>3. CASE b = 1
      BY <1>2, <1>4, <2>1, <2>3, <3>2, <3>3 DEF rank, hosts
    <3>4. CASE b = 2
      <4>1. hosts[1] # hosts[2]
        BY <3>4 DEF hosts
      <4>2. rank(other) = 2
        BY <1>2, <1>5, <1>7, <2>1, <4>1
      <4> QED BY <2>1, <2>3, <3>2, <3>4, <4>2 DEF rank, hosts
    <3> QED BY <2>1, <3>3, <3>4
  <2> QED BY <2>1, <2>2, <2>3
<1>8. CASE ~(Len(url.host) > 1)
  <2>1. Len(hosts) = 2
    BY <1>3, <1>8
  <2>2. b = 1 /\ c = 2 /\ hosts[2] = AnyHost
    <3>1. b \in 1..Len(hosts) /\ c \in 1..Len(hosts)
      BY DEF hosts
    <3> QED BY <1>2, <2>1, <3>1
  <2>3. hosts[1] # hosts[2]
    BY <2>2 DEF hosts
  <2> QED BY <1>2, <1>4, <1>6, <1>8, <2>2, <2>3 DEF rank, hosts
<1> QED BY <1>7, <1>8

(* The j-th prefix is a path, and at least as long as what comes after. *)
LEMMA PrefixFacts ==
    ASSUME NEW S, NEW path \in Seq(S), NEW n \in 1..Len(path)
    PROVE  LET i == 2 * (Len(path) - n) + 1
               j == 2 * (Len(path) - n) + 2
               P == PathPrefixes(path)
           IN  /\ P[i] # <<>> /\ P[j] # <<>> /\ Len(P[i]) = n /\ Len(P[j]) = n
               /\ PathRank(P[j]) = 2 * n - 1
               /\ PathRank(P[i]) = 2 * n \/ (PathRank(P[i]) = 2 * n - 1 /\ P[i] = P[j])
               /\ IsPrefix(P[i], path)
               /\ Last(P[j]) = Nothing /\ IsPrefix(Front(P[j]), path)
<1> DEFINE i == 2 * (Len(path) - n) + 1
           j == 2 * (Len(path) - n) + 2
           P == PathPrefixes(path)
           whole == SubSeq(path, 1, n)
           front == SubSeq(path, 1, n - 1)
<1>1. P[i] = whole /\ P[j] = front \o Root
  BY PrefixesAre
<1>2. /\ whole \in Seq(S) /\ Len(whole) = n /\ whole # <<>>
      /\ \A x \in 1..n : whole[x] = path[x]
  OBVIOUS
<1>3. front \in Seq(S) /\ Len(front) = n - 1 /\ \A x \in 1..(n - 1) : front[x] = path[x]
  <2> DEFINE m == n - 1
  <2>1. m \in Nat /\ m <= Len(path)
    OBVIOUS
  <2> HIDE DEF m
  <2>2. \A x \in 1..m : path[x] \in S
    BY <2>1
  <2>3. SubSeq(path, 1, m) = [x \in 1..m |-> path[x]]
    BY <2>1
  <2>4. SubSeq(path, 1, m) \in Seq(S) /\ Len(SubSeq(path, 1, m)) = m
    BY <2>1, <2>2, <2>3
  <2> QED BY <2>3, <2>4 DEF m
<1>4. SubSeq(whole, 1, n) = whole /\ n <= Len(path)
  <2> HIDE DEF whole
  <2> QED BY <1>2
<1>5. IsPrefix(P[i], path)
  BY <1>1, <1>2, <1>4 DEF IsPrefix
<1> HIDE DEF whole
<1>6. front \in Seq(S \cup {Nothing}) /\ Root \in Seq(S \cup {Nothing})
      /\ Len(Root) = 1 /\ Root[1] = Nothing
  BY <1>3, RootIs
<1> DEFINE slashed == front \o Root
<1>7. /\ slashed \in Seq(S \cup {Nothing}) /\ Len(slashed) = n /\ slashed # <<>>
      /\ slashed[n] = Nothing
      /\ \A x \in 1..(n - 1) : slashed[x] = front[x]
  <2> HIDE DEF front
  <2>1. Len(slashed) = n
    <3>1. Len(slashed) = Len(front) + Len(Root)
      BY <1>6, Joined
    <3> HIDE DEF slashed
    <3> QED BY <1>3, <1>6, <3>1
  <2>2. slashed \in Seq(S \cup {Nothing})
    BY <1>6
  <2>3. slashed[n] = Nothing /\ \A x \in 1..Len(front) : slashed[x] = front[x]
    <3>1. \A x \in 1..Len(front) : slashed[x] = front[x]
      BY <1>6, Joined
    <3>2. n \in (Len(front) + 1)..(Len(front) + Len(Root)) /\ n - Len(front) = 1
      BY <1>3, <1>6
    <3>3. slashed[n] = Root[n - Len(front)]
      BY <1>6, <3>2, Joined
    <3> HIDE DEF slashed
    <3> QED BY <1>6, <3>1, <3>2, <3>3
  <2>4. slashed # <<>>
    BY <2>1
  <2> HIDE DEF slashed
  <2> QED BY <1>3, <2>1, <2>2, <2>3, <2>4
<1> HIDE DEF slashed
<1>8. Last(slashed) = Nothing /\ Front(slashed) = front
  <2>1. Front(slashed) \in Seq(S \cup {Nothing}) /\ Len(Front(slashed)) = n - 1
    BY <1>7, EndsInRoot DEF Last
  <2>2. \A x \in 1..(n - 1) : Front(slashed)[x] = slashed[x]
    BY <1>7 DEF Front
  <2> QED BY <1>3, <1>6, <1>7, <2>1, <2>2 DEF Last
<1>9. IsPrefix(front, path)
  <2>1. SubSeq(front, 1, n - 1) = front
    <3> HIDE DEF front
    <3> QED BY <1>3
  <2> QED BY <1>3, <2>1 DEF IsPrefix
<1>10. PathRank(slashed) = 2 * n - 1
  BY <1>7, <1>8, Ranks
<1>11. PathRank(whole) = 2 * n \/ (PathRank(whole) = 2 * n - 1 /\ whole = slashed)
  <2>1. CASE Last(whole) = Nothing
    <3>1. \A x \in 1..n : whole[x] = slashed[x]
      <4>1. whole[n] = Nothing
        BY <1>2, <2>1 DEF Last
      <4>2. \A x \in 1..(n - 1) : whole[x] = slashed[x]
        BY <1>2, <1>3, <1>7
      <4>3. \A x \in 1..n : x = n \/ x \in 1..(n - 1)
        OBVIOUS
      <4> QED BY <1>7, <4>1, <4>2, <4>3
    <3>2. whole \in Seq(S \cup {Nothing})
      BY <1>2
    <3>3. whole = slashed
      BY <1>2, <1>7, <3>1, <3>2
    <3> QED BY <1>10, <3>3
  <2>2. CASE Last(whole) # Nothing
    BY <1>2, <2>2, Ranks
  <2> QED BY <2>1, <2>2
<1>12. P[j] = slashed
  BY <1>1 DEF slashed
<1> HIDE DEF front, P, i, j
<1>13. /\ P[i] # <<>> /\ P[j] # <<>> /\ Len(P[i]) = n /\ Len(P[j]) = n
       /\ PathRank(P[j]) = 2 * n - 1
       /\ PathRank(P[i]) = 2 * n \/ (PathRank(P[i]) = 2 * n - 1 /\ P[i] = P[j])
       /\ IsPrefix(P[i], path)
       /\ Last(P[j]) = Nothing /\ IsPrefix(Front(P[j]), path)
  BY <1>1, <1>2, <1>5, <1>7, <1>8, <1>9, <1>10, <1>11, <1>12
<1> QED BY <1>13 DEF P, i, j

(* Of each prefix what TurnOrder and InTurnIs need, whichever of the two   *)
(* of an n it is.                                                          *)
LEMMA EachPrefix ==
    ASSUME NEW S, NEW path \in Seq(S), NEW n \in 1..Len(path), NEW j,
           j = 2 * (Len(path) - n) + 1 \/ j = 2 * (Len(path) - n) + 2
    PROVE  LET Q == PathPrefixes(path)[j]
           IN  /\ Q # <<>> /\ Len(Q) = n
               /\ PathRank(Q) \in {2 * n - 1, 2 * n}
               /\ IsPrefix(Q, path) \/ (Last(Q) = Nothing /\ IsPrefix(Front(Q), path))
<1> DEFINE a == 2 * (Len(path) - n) + 1
           b == 2 * (Len(path) - n) + 2
           P == PathPrefixes(path)
<1>1. /\ P[a] # <<>> /\ Len(P[a]) = n /\ PathRank(P[a]) \in {2 * n - 1, 2 * n}
      /\ IsPrefix(P[a], path)
      /\ P[b] # <<>> /\ Len(P[b]) = n /\ PathRank(P[b]) \in {2 * n - 1, 2 * n}
      /\ Last(P[b]) = Nothing /\ IsPrefix(Front(P[b]), path)
  <2>1. /\ P[a] # <<>> /\ P[b] # <<>> /\ Len(P[a]) = n /\ Len(P[b]) = n
        /\ PathRank(P[b]) = 2 * n - 1
        /\ PathRank(P[a]) = 2 * n \/ (PathRank(P[a]) = 2 * n - 1 /\ P[a] = P[b])
        /\ IsPrefix(P[a], path)
        /\ Last(P[b]) = Nothing /\ IsPrefix(Front(P[b]), path)
    BY PrefixFacts, Zenon
  <2> HIDE DEF P, a, b
  <2> QED BY <2>1
<1>2. j = a \/ j = b
  OBVIOUS
<1> HIDE DEF P, a, b
<1>3. CASE j = a
  BY <1>1, <1>3 DEF P
<1>4. CASE j = b
  BY <1>1, <1>4 DEF P
<1> QED BY <1>2, <1>3, <1>4

(* Each prefix is one of the two of an n. *)
LEMMA PrefixIndex ==
    ASSUME NEW l \in Nat, NEW j \in 1..(2 * l)
    PROVE  \E n \in 1..l : j = 2 * (l - n) + 1 \/ j = 2 * (l - n) + 2
<1> DEFINE n == l - ((j - 1) \div 2)
<1>1. n \in 1..l /\ (j = 2 * (l - n) + 1 \/ j = 2 * (l - n) + 2)
  OBVIOUS
<1> QED BY <1>1

(* The hostPaths of a turn. *)
LEMMA InTurnIs ==
    ASSUME NEW url, NEW S, url.path \in Seq(S), url.path # <<>>, NEW h, NEW p \in 1..Turn(url)
    PROVE  LET hp == InTurn(url, h, p)
           IN  /\ hp.host = h /\ hp.scheme = url.scheme
               /\ p = 1 => hp.kind = "E+" /\ hp.path = url.path
               /\ p # 1 => /\ p - 1 \in 1..(2 * Len(url.path))
                           /\ hp.kind = "P+" /\ hp.path = PathPrefixes(url.path)[p - 1]
                           /\ hp = [kind |-> "P+", scheme |-> url.scheme, host |-> h,
                                    path |-> PathPrefixes(url.path)[p - 1]]
               /\ PathMatches(hp, url.path)
<1> DEFINE hp == InTurn(url, h, p)
           path == url.path
           P == PathPrefixes(path)
<1>1. hp.host = h /\ hp.scheme = url.scheme
  BY DEF InTurn, HostPath
<1>2. CASE p = 1
  <2>1. hp.kind = "E+" /\ hp.path = path
    BY <1>2 DEF InTurn, HostPath
  <2>2. PathMatches(hp, path)
    BY <2>1 DEF PathMatches
  <2> HIDE DEF hp, path, P
  <2>3. hp.host = h /\ hp.scheme = url.scheme /\ hp.kind = "E+" /\ hp.path = path /\ PathMatches(hp, path)
    BY <1>1, <2>1, <2>2
  <2> QED BY <1>2, <2>3 DEF hp, path
<1>3. CASE p # 1
  <2>1. p - 1 \in 1..(2 * Len(path)) /\ Len(path) \in Nat
    BY <1>3 DEF Turn
  <2>2. PICK n \in 1..Len(path) : p - 1 = 2 * (Len(path) - n) + 1 \/ p - 1 = 2 * (Len(path) - n) + 2
    BY <2>1, PrefixIndex
  <2>3. P[p - 1] # <<>> /\ Len(P[p - 1]) = n
        /\ (IsPrefix(P[p - 1], path) \/ (Last(P[p - 1]) = Nothing /\ IsPrefix(Front(P[p - 1]), path)))
    BY <2>2, EachPrefix
  <2>4. hp = [kind |-> "P+", scheme |-> url.scheme, host |-> h, path |-> P[p - 1]]
    BY <1>3, <2>3 DEF InTurn, HostPath
  <2>5. hp.kind = "P+" /\ hp.path = P[p - 1]
    BY <2>4
  <2>6. Len(hp.path) <= Len(path)
    BY <2>1, <2>2, <2>3, <2>5
  <2> HIDE DEF hp, P
  <2>7. PathMatches(hp, path)
    <3>1. IsPrefix(hp.path, path) \/ (Last(hp.path) = Nothing /\ IsPrefix(Front(hp.path), path))
      BY <2>3, <2>5
    <3> QED BY <2>5, <2>6, <3>1, Zenon DEF PathMatches, Nothing
  <2> QED BY <1>1, <1>3, <2>1, <2>4, <2>5, <2>7 DEF hp, P
<1> QED BY <1>2, <1>3

(* Within a turn the earlier is more specific, or the same. *)
LEMMA TurnOrder ==
    ASSUME NEW url, NEW S, url.path \in Seq(S), url.path # <<>>, NEW h,
           NEW p \in 1..Turn(url), NEW q \in 1..Turn(url), p < q
    PROVE  LET a == InTurn(url, h, p)
               b == InTurn(url, h, q)
           IN  \/ a = b
               \/ a.kind = "E+" /\ b.kind = "P+"
               \/ a.kind = b.kind /\ PathRank(a.path) > PathRank(b.path)
<1> DEFINE l == Len(url.path)
           P == PathPrefixes(url.path)
           a == InTurn(url, h, p)
           b == InTurn(url, h, q)
<1>1. l \in Nat /\ Turn(url) = 1 + 2 * l /\ q # 1
  BY DEF Turn
<1>2. b.kind = "P+" /\ b.path = P[q - 1] /\ q - 1 \in 1..(2 * l)
  BY <1>1, InTurnIs
<1>3. CASE p = 1
  <2>1. a.kind = "E+"
    BY <1>3, InTurnIs
  <2> QED BY <1>2, <2>1
<1>4. CASE p # 1
  <2>1. /\ a.kind = "P+"
        /\ a.path = P[p - 1]
        /\ p - 1 \in 1..(2 * l)
    <3>1. p - 1 \in 1..(2 * l)
      BY <1>1, <1>4
    <3>2. a.kind = "P+" /\ a.path = P[p - 1]
      BY <1>4, InTurnIs
    <3> QED BY <3>1, <3>2
  <2>2. P[p - 1] = P[q - 1] => a = b
    BY <1>1, <1>4, InTurnIs
  <2>3. PICK n \in 1..l : p - 1 = 2 * (l - n) + 1 \/ p - 1 = 2 * (l - n) + 2
    BY <1>1, <2>1, PrefixIndex
  <2>4. PICK m \in 1..l : q - 1 = 2 * (l - m) + 1 \/ q - 1 = 2 * (l - m) + 2
    BY <1>1, <1>2, PrefixIndex
  <2> HIDE DEF a, b
  <2>5. PathRank(P[p - 1]) \in {2 * n - 1, 2 * n} /\ PathRank(P[q - 1]) \in {2 * m - 1, 2 * m}
    <3>1. PathRank(P[p - 1]) \in {2 * n - 1, 2 * n}
      BY <2>3, EachPrefix
    <3>2. PathRank(P[q - 1]) \in {2 * m - 1, 2 * m}
      BY <2>4, EachPrefix
    <3> QED BY <3>1, <3>2
  <2>6. m <= n
    BY <1>1, <2>3, <2>4
  <2>7. CASE m < n
    <3>1. PathRank(P[p - 1]) > PathRank(P[q - 1])
      BY <2>5, <2>7
    <3> QED BY <1>2, <2>1, <3>1 DEF a, b
  <2>8. CASE m = n
    <3>1. p - 1 = 2 * (l - n) + 1 /\ q - 1 = 2 * (l - n) + 2
      BY <1>1, <2>3, <2>4, <2>8
    <3>2. /\ PathRank(P[q - 1]) = 2 * n - 1
          /\ PathRank(P[p - 1]) = 2 * n \/ P[p - 1] = P[q - 1]
      <4>1. /\ PathRank(P[2 * (l - n) + 2]) = 2 * n - 1
            /\ \/ PathRank(P[2 * (l - n) + 1]) = 2 * n
               \/ P[2 * (l - n) + 1] = P[2 * (l - n) + 2]
        BY PrefixFacts, Zenon
      <4> QED BY <3>1, <4>1
    <3>3. PathRank(P[p - 1]) > PathRank(P[q - 1]) \/ P[p - 1] = P[q - 1]
      BY <3>2
    <3> QED BY <1>2, <2>1, <2>2, <3>3 DEF a, b
  <2> QED BY <2>6, <2>7, <2>8
<1> QED BY <1>3, <1>4

(* Places in the order compare as turns do, and in a turn as in it. *)
LEMMA PlaceOrder ==
    ASSUME NEW k \in Nat \ {0}, NEW b \in 1..3, NEW c \in 1..3, NEW p \in 1..k, NEW q \in 1..k
    PROVE  /\ k * (b - 1) + p \in Nat
           /\ b < c => k * (b - 1) + p < k * (c - 1) + q
           /\ b = c => (p < q <=> k * (b - 1) + p < k * (c - 1) + q)
<1>1. \A d \in 1..3 : /\ d = 1 => k * (d - 1) = 0
                      /\ d = 2 => k * (d - 1) = k
                      /\ d = 3 => k * (d - 1) = k + k
  OBVIOUS
<1> QED BY <1>1

(* Each place belongs to a turn. *)
LEMMA TurnOfPlace ==
    ASSUME NEW k \in Nat \ {0}, NEW n \in {2, 3}, NEW j \in 1..(k * n)
    PROVE  \E b \in 1..n, p \in 1..k : j = k * (b - 1) + p
<1>1. k * 0 = 0 /\ k * 1 = k /\ k * 2 = k + k /\ k * 3 = k + k + k
  OBVIOUS
<1>2. CASE j <= k
  <2>1. 1 \in 1..n /\ j \in 1..k /\ j = k * (1 - 1) + j
    BY <1>1, <1>2
  <2> QED BY <2>1
<1>3. CASE j > k /\ j <= k + k
  <2>1. 2 \in 1..n /\ j - k \in 1..k /\ j = k * (2 - 1) + (j - k)
    BY <1>1, <1>3
  <2> QED BY <2>1
<1>4. CASE j > k + k
  <2>1. 3 \in 1..n /\ j - (k + k) \in 1..k
    BY <1>1, <1>4
  <2>2. j = k * (3 - 1) + (j - (k + k))
    BY <1>1
  <2> QED BY <2>1, <2>2
<1> QED BY <1>2, <1>3, <1>4

(* The host of each turn is one of three. *)
LEMMA TurnHosts ==
    ASSUME NEW url, NEW S, url.host \in Seq(S), NEW b \in 1..Len(Hosts(url))
    PROVE  \/ Hosts(url)[b] = url.host
           \/ Hosts(url)[b] = <<"*">> \o Tail(url.host) /\ Len(url.host) > 1
           \/ Hosts(url)[b] = AnyHost
<1> DEFINE hosts == Hosts(url)
           other == <<"*">> \o Tail(url.host)
<1>1. /\ Len(hosts) \in {2, 3} /\ hosts[1] = url.host /\ hosts[Len(hosts)] = AnyHost
      /\ Len(url.host) > 1 => Len(hosts) = 3 /\ hosts[2] = other
      /\ ~(Len(url.host) > 1) => Len(hosts) = 2
  BY HostsAre, Zenon
<1>2. b \in 1..Len(hosts)
  OBVIOUS
<1> HIDE DEF hosts, other
<1>3. CASE b = 1 \/ b = Len(hosts)
  BY <1>1, <1>3 DEF hosts
<1>4. CASE b # 1 /\ b # Len(hosts)
  <2>1. Len(hosts) = 3 /\ b = 2 /\ Len(url.host) > 1
    BY <1>1, <1>2, <1>4
  <2> QED BY <1>1, <2>1 DEF hosts, other
<1> QED BY <1>3, <1>4

(* A host with a turn matches. *)
LEMMA HostsRank ==
    \A h, host : \/ h = host
                 \/ h = <<"*">> \o Tail(host) /\ Len(host) > 1
                 \/ h = AnyHost
                 => HostRank(h, host) > 0
<1> SUFFICES ASSUME NEW h, NEW host,
                    \/ h = host
                    \/ h = <<"*">> \o Tail(host) /\ Len(host) > 1
                    \/ h = AnyHost
             PROVE  HostRank(h, host) > 0
  OBVIOUS
<1> DEFINE other == <<"*">> \o Tail(host)
           long  == Len(host) > 1
<1>1. HostRank(h, host) = IF h = host THEN 3 ELSE IF h = other /\ long THEN 2
                          ELSE IF h = AnyHost THEN 1 ELSE 0
  BY Ranks, Zenon
<1>2. h = host \/ (h = other /\ long) \/ h = AnyHost
  OBVIOUS
<1> HIDE DEF other, long
<1> QED BY <1>1, <1>2

(* What is asked for matches. *)
LEMMA AskedMatches ==
    ASSUME NEW url, NEW S, url.host \in Seq(S), url.path \in Seq(S), url.path # <<>>,
           NEW b \in 1..Len(Hosts(url)), NEW p \in 1..Turn(url)
    PROVE  LET hp == InTurn(url, Hosts(url)[b], p)
           IN  /\ hp.scheme = url.scheme
               /\ HostRank(hp.host, url.host) > 0
               /\ PathMatches(hp, url.path)
<1> DEFINE hp == InTurn(url, Hosts(url)[b], p)
<1>1. hp.scheme = url.scheme /\ hp.host = Hosts(url)[b] /\ PathMatches(hp, url.path)
  BY InTurnIs
<1>2. HostRank(Hosts(url)[b], url.host) > 0
  <2>1. \/ Hosts(url)[b] = url.host
        \/ Hosts(url)[b] = <<"*">> \o Tail(url.host) /\ Len(url.host) > 1
        \/ Hosts(url)[b] = AnyHost
    BY TurnHosts, Zenon
  <2> QED BY <2>1, HostsRank, Zenon
<1> QED BY <1>1, <1>2

(* A host with a turn has a first one. *)
LEMMA FirstTurn ==
    ASSUME NEW url, NEW S, url.host \in Seq(S), NEW h, HostRank(h, url.host) > 0
    PROVE  \E b \in 1..Len(Hosts(url)) :
                /\ Hosts(url)[b] = h
                /\ \A d \in 1..(b - 1) : Hosts(url)[d] # h
<1> DEFINE has(b) == b \in 1..Len(Hosts(url)) /\ Hosts(url)[b] = h
<1>1. \E b \in 1..Len(Hosts(url)) : Hosts(url)[b] = h
  BY HostHasTurn
<1>2. Len(Hosts(url)) \in {2, 3}
  BY HostsAre
<1> DEFINE hosts == Hosts(url)
<1>3. hosts = Hosts(url) /\ Len(hosts) \in {2, 3} /\ \E b \in 1..Len(hosts) : hosts[b] = h
  BY <1>1, <1>2
<1> HIDE DEF hosts
<1>4. PICK b \in 1..3 : has(b)
  BY <1>3
<1>5. CASE has(1)
  BY <1>3, <1>5
<1>6. CASE ~has(1) /\ has(2)
  BY <1>3, <1>6
<1>7. CASE ~has(1) /\ ~has(2) /\ has(3)
  BY <1>3, <1>7
<1> QED BY <1>4, <1>5, <1>6, <1>7

(* The first hostPath of the order in a table is the most specific there   *)
(* of those that match.                                                    *)
LEMMA FirstIsMostSpecific ==
    ASSUME NEW url, NEW S, url.host \in Seq(S), url.path \in Seq(S), url.path # <<>>,
           NEW hp, NEW T, HasParts(hp, T),
           hp.scheme = url.scheme, HostRank(hp.host, url.host) > 0, PathMatches(hp, url.path),
           NEW i \in 1..Len(LookupOrder(url)), LookupOrder(url)[i] # hp,
           \A j \in 1..(i - 1) :
                LookupOrder(url)[j] # hp /\ LookupOrder(url)[j] # LookupOrder(url)[i]
    PROVE  MoreSpecific(LookupOrder(url)[i], hp, url)
<1> DEFINE order == LookupOrder(url)
           k == Turn(url)
           n == Len(Hosts(url))
           a == order[i]
<1>1. k \in Nat \ {0} /\ n \in {2, 3} /\ Len(order) = k * n
  BY LookupOrderIs, HostsAre
<1>2. \A x \in 1..n, y \in 1..k : /\ k * (x - 1) + y \in 1..Len(order)
                                  /\ order[k * (x - 1) + y] = InTurn(url, Hosts(url)[x], y)
  BY LookupOrderIs
<1>3. PICK b \in 1..n, p \in 1..k : i = k * (b - 1) + p
  <2>1. i \in 1..(k * n)
    BY <1>1
  <2> HIDE DEF k, n
  <2> QED BY <1>1, <2>1, TurnOfPlace
<1>4. a = InTurn(url, Hosts(url)[b], p) /\ a.host = Hosts(url)[b]
  BY <1>2, <1>3, InTurnIs
<1>5. PICK c \in 1..n : Hosts(url)[c] = hp.host /\ \A d \in 1..(c - 1) : Hosts(url)[d] # hp.host
  BY FirstTurn
<1>6. PICK q \in 1..k : InTurn(url, hp.host, q) = hp
  <2>1. /\ hp.path \in Seq(T) /\ hp.path # <<>> /\ hp.kind \in {"E+", "P+"}
        /\ hp = [kind |-> hp.kind, scheme |-> url.scheme, host |-> hp.host, path |-> hp.path]
    BY DEF HasParts
  <2>2. \E q \in 1..Turn(url) : InTurn(url, hp.host, q) = hp
    <3> HIDE DEF order, k, n, a
    <3> QED BY <2>1, PathHasPlace
  <2> QED BY <2>2
<1> DEFINE j == k * (c - 1) + q
<1>7. j \in 1..Len(order) /\ order[j] = hp
  BY <1>2, <1>5, <1>6
<1> HIDE DEF order, k, n, a, j
<1>8. b \in 1..3 /\ c \in 1..3
  BY <1>1
<1>9. i < j
  <2>1. \A x \in 1..(i - 1) : order[x] # hp
    BY DEF order
  <2>2. order[i] # hp /\ i \in Nat /\ Len(order) \in Nat
    BY <1>1, <1>8 DEF order
  <2> QED BY <1>7, <2>1, <2>2
<1>10. \A d \in 1..(b - 1) : Hosts(url)[d] # Hosts(url)[b]
  <2>1. SUFFICES ASSUME NEW d \in 1..(b - 1), Hosts(url)[d] = Hosts(url)[b]
                 PROVE  FALSE
    OBVIOUS
  <2>2. d \in 1..3 /\ d \in 1..n /\ d < b
    BY <1>1, <1>8
  <2>3. k * (d - 1) + p < i /\ k * (d - 1) + p \in 1..Len(order)
    BY <1>1, <1>2, <1>3, <1>8, <2>2, PlaceOrder
  <2>4. order[k * (d - 1) + p] = a
    BY <1>2, <1>4, <2>1, <2>2
  <2>5. k * (d - 1) + p \in 1..(i - 1)
    BY <2>3, <1>1
  <2> QED BY <2>4, <2>5 DEF order, a
<1>11. b <= c
  <2>1. SUFFICES ASSUME c < b
                 PROVE  FALSE
    BY <1>8
  <2>2. j < i
    BY <1>1, <1>3, <1>8, <2>1, PlaceOrder DEF j
  <2>3. i \in Nat /\ j \in Nat
    BY <1>1, <1>3, <1>8, PlaceOrder DEF j
  <2> QED BY <1>9, <2>2, <2>3
<1>12. CASE b < c
  <2>1. HostRank(Hosts(url)[b], url.host) > HostRank(Hosts(url)[c], url.host)
    BY <1>5, <1>10, <1>12, HostOrder DEF n
  <2> QED BY <1>4, <1>5, <2>1 DEF MoreSpecific, a, order
<1>13. CASE b = c
  <2>1. p < q
    BY <1>1, <1>3, <1>8, <1>9, <1>13, PlaceOrder DEF j
  <2>2. a.host = hp.host /\ a = InTurn(url, hp.host, p)
    BY <1>4, <1>5, <1>13
  <2>3. \/ a = hp
        \/ a.kind = "E+" /\ hp.kind = "P+"
        \/ a.kind = hp.kind /\ PathRank(a.path) > PathRank(hp.path)
    BY <1>6, <2>1, <2>2, TurnOrder DEF k
  <2>4. a # hp
    BY DEF a, order
  <2> QED BY <2>2, <2>3, <2>4 DEF MoreSpecific, a, order
<1> QED BY <1>8, <1>11, <1>12, <1>13

-----------------------------------------------------------------------------
(* The hook on databases that hold still. *)

Phases   == {"ping", "lookup", "route", "script", "done"}
Outcomes == {"none", "no redis", "no route", "no endpoint", "no script", "script failed", "completed"}

NoRedis      == "no redis"
NoRoute      == "no route"
NoEndpoint   == "no endpoint"
NoScript     == "no script"
ScriptFailed == "script failed"

(* The outcomes of a request that got past the first loop. *)
Routed == {NoScript, ScriptFailed, "completed"}

(* Each outcome is one, and they differ. *)
LEMMA OutcomesDiffer ==
    /\ "none" \in Outcomes /\ "completed" \in Outcomes
    /\ NoRedis \in Outcomes /\ NoRoute \in Outcomes
    /\ NoEndpoint \in Outcomes /\ NoScript \in Outcomes /\ ScriptFailed \in Outcomes
    /\ NoRoute # "none" /\ NoRoute # "completed" /\ NoRoute # NoRedis
    /\ NoRoute # NoEndpoint /\ NoRoute # NoScript /\ NoRoute # ScriptFailed
    /\ NoRedis # "completed" /\ NoEndpoint # "completed" /\ NoScript # "completed"
    /\ ScriptFailed # "completed" /\ NoScript # ScriptFailed
    /\ NoEndpoint # "none" /\ NoEndpoint # NoRedis /\ NoEndpoint # NoScript /\ NoEndpoint # ScriptFailed
    /\ NoScript # "none" /\ NoScript # NoRedis
    /\ ScriptFailed # "none" /\ ScriptFailed # NoRedis
    /\ NoScript \in Routed /\ ScriptFailed \in Routed /\ "completed" \in Routed
    /\ "none" \notin Routed /\ NoRedis \notin Routed /\ NoRoute \notin Routed /\ NoEndpoint \notin Routed
  BY Zenon DEF Outcomes, Routed, NoRedis, NoRoute, NoEndpoint, NoScript, ScriptFailed

(* The fields of a request, and one that differs in some of them. *)
IsRecord(r) ==
    r = [phase |-> r.phase, url |-> r.url, at |-> r.at, found |-> r.found, svcs |-> r.svcs,
         target |-> r.target, ran |-> r.ran, outcome |-> r.outcome]

Record(r, phase, at, found, svcs, target, ran, outcome) ==
    /\ r.phase = phase /\ r.at = at /\ r.found = found /\ r.svcs = svcs
    /\ r.target = target /\ r.ran = ran /\ r.outcome = outcome

(* What a table holds under a hostPath. *)
Held(db, hp) == SMembers(db, <<"route", hp>>)

(* Nothing is held before a place of the order. *)
NoneBefore(db, order, i) == \A j \in 1..(i - 1) : Held(db, order[j]) = {}

FirstHeld(db, order, found) ==
    \E i \in 1..Len(order) :
        found = <<order[i]>> /\ Held(db, order[i]) # {} /\ NoneBefore(db, order, i)

(* The services before a member each have an endpoint, and one of them is  *)
(* where the request goes, if it goes anywhere.                            *)
ServedBefore(db, i, svcs, target) ==
    /\ \A x \in 1..(i - 1) : IsScript(svcs[x]) \/ SMembers(db, svcs[x]) # {}
    /\ target # NoTarget \/ (\E x \in 1..(i - 1) : ~IsScript(svcs[x])) =>
            \E x \in 1..(i - 1) : ~IsScript(svcs[x]) /\ target \in SMembers(db, svcs[x])

(* The scripts before a member have run. *)
RanBefore(db, i, svcs, ran) ==
    \A x \in 1..(i - 1) : IsScript(svcs[x]) => SMembers(db, svcs[x]) \cap ran # {}

(* A service has no endpoint, the request goes to one of a service, and a  *)
(* script has no text.                                                     *)
Unserved(db, svcs) ==
    \E x \in 1..Len(svcs) : ~IsScript(svcs[x]) /\ SMembers(db, svcs[x]) = {}

SentOn(db, svcs, target) ==
    \E x \in 1..Len(svcs) : ~IsScript(svcs[x]) /\ target \in SMembers(db, svcs[x])

Textless(db, svcs) ==
    \E x \in 1..Len(svcs) : IsScript(svcs[x]) /\ SMembers(db, svcs[x]) = {}

(* Each phase of a request with the place it is at. *)
TypedAs(r, l) ==
    /\ IsRecord(r)
    /\ r.phase \in Phases
    /\ r.url \in Urls
    /\ r.outcome \in Outcomes
    /\ l \in Nat \ {0}
    /\ Len(r.svcs) \in Nat /\ DOMAIN r.svcs = 1..Len(r.svcs)
    /\ r.at \in Nat \ {0}
    /\ r.phase # "done" => r.outcome = "none"
    /\ r.phase \in {"ping", "lookup"} => r.found = <<>> /\ r.svcs = <<>>
    /\ r.phase = "ping" => r.at = 1
    /\ r.phase = "lookup" => r.at <= l
    /\ r.phase \in {"route", "script"} => r.at <= Len(r.svcs) + 1
    /\ r.phase = "done" => r.at <= l + Len(r.svcs) + 1

(* What it found is the first that is held. *)
SearchedIn(db, r, order) ==
    /\ r.phase = "lookup" => NoneBefore(db, order, r.at)
    /\ r.outcome = NoRoute => NoneBefore(db, order, Len(order) + 1)
    /\ r.found # <<>> => FirstHeld(db, order, r.found)

(* What it did with the members of the route it found. *)
ServedIn(ports, routes, r) ==
    /\ r.phase \in {"ping", "lookup"} => r.target = NoTarget
    /\ r.phase \in {"ping", "lookup", "route"} \/ r.outcome = NoEndpoint => r.ran = {}
    /\ r.phase = "route" => ServedBefore(ports, r.at, r.svcs, r.target)
    /\ r.phase = "script" \/ r.outcome \in Routed =>
            ServedBefore(ports, Len(r.svcs) + 1, r.svcs, r.target)
    /\ r.outcome = NoEndpoint =>
            Unserved(ports, r.svcs) /\ (r.target # NoTarget => SentOn(ports, r.svcs, r.target))
    /\ r.phase = "script" \/ r.outcome \in {NoScript, ScriptFailed} => SnippetEnabled
    /\ r.phase = "script" => RanBefore(routes, r.at, r.svcs, r.ran)
    /\ r.outcome = NoScript => Textless(routes, r.svcs)
    /\ r.outcome = "completed" /\ SnippetEnabled =>
            RanBefore(routes, Len(r.svcs) + 1, r.svcs, r.ran)

Serves(ports, routes, r) ==
    /\ TypedAs(r, Len(LookupOrder(r.url)))
    /\ SearchedIn(routes, r, LookupOrder(r.url))
    /\ ServedIn(ports, routes, r)

Serving == IsTable(db1) /\ Serves(db0, db1, req)

(* The steps of the hook, field by field. *)
SameUrl(r, s) == IsRecord(s) /\ s.url = r.url

Stays(r, s, phase, at) ==
    SameUrl(r, s) /\ Record(s, phase, at, r.found, r.svcs, r.target, r.ran, r.outcome)

Returns(r, s, outcome) ==
    SameUrl(r, s) /\ Record(s, "done", r.at, r.found, r.svcs, r.target, r.ran, outcome)

Finds(r, s, hp, svcs) ==
    SameUrl(r, s) /\ Record(s, "route", 1, <<hp>>, svcs, r.target, r.ran, r.outcome)

Targets(r, s, target) ==
    SameUrl(r, s) /\ Record(s, r.phase, r.at + 1, r.found, r.svcs, target, r.ran, r.outcome)

Runs(r, s, script) ==
    SameUrl(r, s) /\ Record(s, r.phase, r.at + 1, r.found, r.svcs, r.target,
                            r.ran \cup {script}, r.outcome)

(* The order has a first entry. *)
LEMMA OrderNotEmpty ==
    ASSUME NEW url \in Urls
    PROVE  Len(LookupOrder(url)) \in Nat \ {0}
<1> DEFINE S == {url.host[i] : i \in DOMAIN url.host} \cup {url.path[i] : i \in DOMAIN url.path}
<1>1. url.host \in Seq(S) /\ url.path \in Seq(S)
  <2>1. url.host \in Seq({url.host[i] : i \in DOMAIN url.host})
    BY RequestsAssumption
  <2>2. url.path \in Seq({url.path[i] : i \in DOMAIN url.path})
    BY RequestsAssumption
  <2>3. \A A, B, C : A \subseteq B /\ C \in Seq(A) => C \in Seq(B)
    OBVIOUS
  <2> DEFINE A == {url.host[i] : i \in DOMAIN url.host}
             B == {url.path[i] : i \in DOMAIN url.path}
  <2>4. A \subseteq S /\ B \subseteq S
    OBVIOUS
  <2> HIDE DEF S, A, B
  <2>5. url.host \in Seq(A) /\ url.path \in Seq(B)
    BY <2>1, <2>2 DEF A, B
  <2> QED BY <2>3, <2>4, <2>5
<1> HIDE DEF S
<1> DEFINE k == Turn(url)
           n == Len(Hosts(url))
<1>2. k \in Nat \ {0} /\ Len(LookupOrder(url)) = k * n
  BY <1>1, LookupOrderIs
<1>3. n \in {2, 3}
  BY <1>1, HostsAre
<1> HIDE DEF k, n
<1>4. k * 2 = k + k /\ k * 3 = k + k + k
  BY <1>2
<1> QED BY <1>2, <1>3, <1>4

(* The members of a set in an order. *)
LEMMA SetInOrder ==
    ASSUME NEW T, IsFiniteSet(T), NEW order \in SetToSeqs(T)
    PROVE  Len(order) \in Nat /\ DOMAIN order = 1..Len(order)
<1>1. Cardinality(T) \in Nat
  BY FS_CardinalityType
<1>2. order \in [1..Cardinality(T) -> T]
  BY DEF SetToSeqs
<1> QED BY <1>1, <1>2

(* A step writes the fields it names. *)
LEMMA StepFields ==
    ASSUME IsRecord(req)
    PROVE  /\ \A phase : req' = [req EXCEPT !.phase = phase] => Stays(req, req', phase, req.at)
           /\ req' = [req EXCEPT !.at = @ + 1] => Stays(req, req', req.phase, req.at + 1)
           /\ \A phase : req' = [req EXCEPT !.phase = phase, !.at = 1] => Stays(req, req', phase, 1)
           /\ \A outcome : Return(outcome) => Returns(req, req', outcome)
           /\ \A target : req' = [req EXCEPT !.at = @ + 1, !.target = target] => Targets(req, req', target)
           /\ \A script : req' = [req EXCEPT !.at = @ + 1, !.ran = @ \cup {script}] => Runs(req, req', script)
           /\ \A hp, svcs : req' = [req EXCEPT !.phase = "route", !.at = 1,
                                               !.found = <<hp>>, !.svcs = svcs] =>
                                Finds(req, req', hp, svcs)
  BY DEF IsRecord, Record, SameUrl, Stays, Return, Returns, Targets, Runs, Finds

(* The hook begins at the first place of the order. *)
LEMMA PingStep ==
    ASSUME NEW ports, NEW routes, NEW r, NEW s, Serves(ports, routes, r), r.phase = "ping",
           Stays(r, s, "lookup", r.at) \/ Returns(r, s, NoRedis)
    PROVE  Serves(ports, routes, s)
<1> DEFINE order == LookupOrder(r.url)
           l == Len(order)
<1>1. LookupOrder(s.url) = order
  BY DEF Stays, Returns, SameUrl
<1>2. TypedAs(r, l) /\ ServedIn(ports, routes, r)
  BY DEF Serves
<1> HIDE DEF order, l
<1>3. r.at = 1 /\ r.found = <<>> /\ r.svcs = <<>> /\ r.outcome = "none" /\ l \in Nat \ {0}
  BY <1>2 DEF TypedAs
<1>4. TypedAs(s, l)
  BY <1>2, <1>3, OutcomesDiffer DEF TypedAs, Stays, Returns, SameUrl, Record, Phases
<1>5. SearchedIn(routes, s, order)
  <2>1. NoneBefore(routes, order, 1)
    BY DEF NoneBefore
  <2> QED BY <1>3, <2>1, OutcomesDiffer DEF SearchedIn, Stays, Returns, Record
<1>6. ServedIn(ports, routes, s)
  <2>1. r.target = NoTarget /\ r.ran = {}
    BY <1>2 DEF ServedIn
  <2> QED BY <1>3, <2>1, OutcomesDiffer DEF ServedIn, Stays, Returns, Record
<1> QED BY <1>1, <1>4, <1>5, <1>6 DEF Serves, order, l

(* A lookup that finds nothing goes on to the next place or gives up. *)
LEMMA MissStep ==
    ASSUME NEW ports, NEW routes, NEW r, NEW s, Serves(ports, routes, r), r.phase = "lookup",
           Held(routes, LookupOrder(r.url)[r.at]) = {},
           \/ r.at < Len(LookupOrder(r.url)) /\ Stays(r, s, "lookup", r.at + 1)
           \/ r.at = Len(LookupOrder(r.url)) /\ Returns(r, s, NoRoute)
    PROVE  Serves(ports, routes, s)
<1> DEFINE order == LookupOrder(r.url)
           l == Len(order)
<1>1. LookupOrder(s.url) = order
  BY DEF Stays, Returns, SameUrl
<1>2. TypedAs(r, l) /\ NoneBefore(routes, order, r.at) /\ r.target = NoTarget /\ r.ran = {}
  BY DEF Serves, SearchedIn, ServedIn
<1>3. \/ r.at < l /\ Stays(r, s, "lookup", r.at + 1)
      \/ r.at = l /\ Returns(r, s, NoRoute)
  OBVIOUS
<1>4. Held(routes, order[r.at]) = {}
  OBVIOUS
<1> HIDE DEF order
<1>5. r.found = <<>> /\ r.svcs = <<>> /\ r.outcome = "none" /\ l \in Nat \ {0} /\ r.at \in 1..l
  <2> HIDE DEF l
  <2> QED BY <1>2 DEF TypedAs
<1>6. TypedAs(s, l)
  <2> HIDE DEF l
  <2> QED BY <1>2, <1>3, <1>5, OutcomesDiffer DEF TypedAs, Stays, Returns, SameUrl, Record, Phases
<1>7. NoneBefore(routes, order, r.at + 1)
  <2>1. SUFFICES ASSUME NEW j \in 1..((r.at + 1) - 1)
                 PROVE  Held(routes, order[j]) = {}
    BY DEF NoneBefore
  <2>2. j = r.at \/ j \in 1..(r.at - 1)
    BY <1>5
  <2> QED BY <1>2, <1>4, <2>2 DEF NoneBefore
<1>8. SearchedIn(routes, s, order)
  BY <1>3, <1>5, <1>7, OutcomesDiffer DEF SearchedIn, Stays, Returns, Record
<1>9. ServedIn(ports, routes, s)
  BY <1>2, <1>3, <1>5, OutcomesDiffer DEF ServedIn, Stays, Returns, Record
<1> QED BY <1>1, <1>6, <1>8, <1>9 DEF Serves, order

(* One that finds members takes them in some order. *)
LEMMA HitStep ==
    ASSUME NEW ports, NEW routes, NEW r, NEW s, Serves(ports, routes, r), r.phase = "lookup",
           Held(routes, LookupOrder(r.url)[r.at]) # {}, NEW svcs, Len(svcs) \in Nat, DOMAIN svcs = 1..Len(svcs),
           Finds(r, s, LookupOrder(r.url)[r.at], svcs)
    PROVE  Serves(ports, routes, s)
<1> DEFINE order == LookupOrder(r.url)
           l == Len(order)
<1>1. LookupOrder(s.url) = order
  BY DEF Finds, SameUrl
<1>2. TypedAs(r, l) /\ NoneBefore(routes, order, r.at) /\ r.target = NoTarget /\ r.ran = {}
  BY DEF Serves, SearchedIn, ServedIn
<1>3. Finds(r, s, order[r.at], svcs) /\ Held(routes, order[r.at]) # {}
  OBVIOUS
<1> HIDE DEF order
<1>4. r.outcome = "none" /\ l \in Nat \ {0} /\ r.at \in 1..l
  <2> HIDE DEF l
  <2> QED BY <1>2 DEF TypedAs
<1>5. TypedAs(s, l)
  <2> HIDE DEF l
  <2> QED BY <1>2, <1>3, <1>4, OutcomesDiffer DEF TypedAs, Finds, SameUrl, Record, Phases
<1>6. SearchedIn(routes, s, order)
  <2>1. FirstHeld(routes, order, <<order[r.at]>>)
    BY <1>2, <1>3, <1>4 DEF FirstHeld
  <2> QED BY <1>3, <1>4, <2>1, OutcomesDiffer DEF SearchedIn, Finds, Record
<1>7. ServedIn(ports, routes, s)
  <2>1. ServedBefore(ports, 1, svcs, r.target)
    BY <1>2 DEF ServedBefore
  <2> QED BY <1>2, <1>3, <1>4, <2>1, OutcomesDiffer DEF ServedIn, Finds, Record
<1> QED BY <1>1, <1>5, <1>6, <1>7 DEF Serves, order

(* A member more has been served or has run. *)
LEMMA ServedMore ==
    ASSUME NEW ports, NEW i \in Nat \ {0}, NEW svcs, NEW target, ServedBefore(ports, i, svcs, target)
    PROVE  /\ IsScript(svcs[i]) => ServedBefore(ports, i + 1, svcs, target)
           /\ \A ipport \in SMembers(ports, svcs[i]) :
                ~IsScript(svcs[i]) => ServedBefore(ports, i + 1, svcs, ipport)
<1> DEFINE served(x) == SMembers(ports, svcs[x])
           script(x) == IsScript(svcs[x])
<1>1. /\ \A x \in 1..(i - 1) : script(x) \/ served(x) # {}
      /\ target # NoTarget \/ (\E x \in 1..(i - 1) : ~script(x)) =>
            \E x \in 1..(i - 1) : ~script(x) /\ target \in served(x)
  BY DEF ServedBefore
<1>2. /\ (i + 1) - 1 = i /\ i \in 1..i
      /\ \A x \in 1..i : x = i \/ x \in 1..(i - 1)
      /\ \A x \in 1..(i - 1) : x \in 1..i
  OBVIOUS
<1> HIDE DEF served, script
<1>3. ASSUME script(i)
      PROVE  /\ \A x \in 1..i : script(x) \/ served(x) # {}
             /\ target # NoTarget \/ (\E x \in 1..i : ~script(x)) =>
                    \E x \in 1..i : ~script(x) /\ target \in served(x)
  BY <1>1, <1>2, <1>3
<1>4. ASSUME NEW ipport \in served(i), ~script(i)
      PROVE  /\ \A x \in 1..i : script(x) \/ served(x) # {}
             /\ \E x \in 1..i : ~script(x) /\ ipport \in served(x)
  BY <1>1, <1>2, <1>4
<1> USE DEF served, script
<1>5. IsScript(svcs[i]) => ServedBefore(ports, i + 1, svcs, target)
  BY <1>2, <1>3 DEF ServedBefore
<1>6. ASSUME NEW ipport \in SMembers(ports, svcs[i]), ~IsScript(svcs[i])
      PROVE  ServedBefore(ports, i + 1, svcs, ipport)
  BY <1>2, <1>4, <1>6 DEF ServedBefore
<1> QED BY <1>5, <1>6

LEMMA RanMore ==
    ASSUME NEW routes, NEW i \in Nat \ {0}, NEW svcs, NEW ran, RanBefore(routes, i, svcs, ran)
    PROVE  /\ ~IsScript(svcs[i]) => RanBefore(routes, i + 1, svcs, ran)
           /\ \A snippet \in SMembers(routes, svcs[i]) :
                RanBefore(routes, i + 1, svcs, ran \cup {snippet})
<1> DEFINE found(x) == SMembers(routes, svcs[x])
           script(x) == IsScript(svcs[x])
<1>1. \A x \in 1..(i - 1) : script(x) => found(x) \cap ran # {}
  BY DEF RanBefore
<1>2. /\ (i + 1) - 1 = i
      /\ \A x \in 1..i : x = i \/ x \in 1..(i - 1)
  OBVIOUS
<1> HIDE DEF found, script
<1>3. ~script(i) => \A x \in 1..i : script(x) => found(x) \cap ran # {}
  BY <1>1, <1>2
<1>4. ASSUME NEW snippet \in found(i)
      PROVE  \A x \in 1..i : script(x) => found(x) \cap (ran \cup {snippet}) # {}
  BY <1>1, <1>2, <1>4
<1> USE DEF found, script
<1>5. ~IsScript(svcs[i]) => RanBefore(routes, i + 1, svcs, ran)
  BY <1>2, <1>3 DEF RanBefore
<1>6. ASSUME NEW snippet \in SMembers(routes, svcs[i])
      PROVE  RanBefore(routes, i + 1, svcs, ran \cup {snippet})
  BY <1>2, <1>4, <1>6 DEF RanBefore
<1> QED BY <1>5, <1>6

(* The first loop goes on to the next member or finds no endpoint. *)
LEMMA RouteStep ==
    ASSUME NEW ports, NEW routes, NEW r, NEW s, Serves(ports, routes, r),
           r.phase = "route", r.at <= Len(r.svcs),
           \/ IsScript(r.svcs[r.at]) /\ Stays(r, s, r.phase, r.at + 1)
           \/ /\ ~IsScript(r.svcs[r.at])
              /\ \E ipport \in SMembers(ports, r.svcs[r.at]) : Targets(r, s, ipport)
           \/ /\ ~IsScript(r.svcs[r.at]) /\ SMembers(ports, r.svcs[r.at]) = {}
              /\ Returns(r, s, NoEndpoint)
    PROVE  Serves(ports, routes, s)
<1> DEFINE order == LookupOrder(r.url)
           l == Len(order)
           next(target) == SameUrl(r, s) /\ Record(s, "route", r.at + 1, r.found, r.svcs, target,
                                                   r.ran, r.outcome)
<1>1. /\ TypedAs(r, l) /\ SearchedIn(routes, r, order) /\ r.ran = {}
      /\ ServedBefore(ports, r.at, r.svcs, r.target)
  BY DEF Serves, ServedIn
<1>2. r.outcome = "none" /\ r.at \in Nat \ {0} /\ Len(r.svcs) \in Nat /\ l \in Nat \ {0}
  <2> HIDE DEF l
  <2> QED BY <1>1 DEF TypedAs
<1>3. \/ \E target : next(target) /\ ServedBefore(ports, r.at + 1, r.svcs, target)
      \/ /\ Returns(r, s, NoEndpoint) /\ Unserved(ports, r.svcs)
         /\ r.target # NoTarget => SentOn(ports, r.svcs, r.target)
  <2>1. CASE IsScript(r.svcs[r.at]) /\ Stays(r, s, r.phase, r.at + 1)
    <3>1. next(r.target)
      BY <2>1 DEF Stays
    <3> QED BY <1>1, <1>2, <2>1, <3>1, ServedMore
  <2>2. ASSUME ~IsScript(r.svcs[r.at]), NEW ipport \in SMembers(ports, r.svcs[r.at]),
               Targets(r, s, ipport)
        PROVE  \E target : next(target) /\ ServedBefore(ports, r.at + 1, r.svcs, target)
    <3>1. next(ipport)
      BY <2>2 DEF Targets
    <3> QED BY <1>1, <1>2, <2>2, <3>1, ServedMore
  <2>3. CASE /\ ~IsScript(r.svcs[r.at]) /\ SMembers(ports, r.svcs[r.at]) = {}
             /\ Returns(r, s, NoEndpoint)
    <3>1. r.at \in 1..Len(r.svcs) /\ \A x \in 1..(r.at - 1) : x \in 1..Len(r.svcs)
      BY <1>2
    <3>2. Unserved(ports, r.svcs)
      BY <2>3, <3>1 DEF Unserved
    <3>3. r.target # NoTarget => SentOn(ports, r.svcs, r.target)
      BY <1>1, <3>1 DEF ServedBefore, SentOn
    <3> QED BY <2>3, <3>2, <3>3
  <2> QED BY <2>1, <2>2, <2>3
<1>4. LookupOrder(s.url) = order
  BY <1>3 DEF Returns, SameUrl
<1> HIDE DEF order, l
<1>5. TypedAs(s, l)
  BY <1>1, <1>2, <1>3, OutcomesDiffer DEF TypedAs, Returns, SameUrl, Record, Phases
<1>6. SearchedIn(routes, s, order)
  BY <1>1, <1>2, <1>3, OutcomesDiffer DEF SearchedIn, Returns, Record
<1>7. ServedIn(ports, routes, s)
  BY <1>1, <1>2, <1>3, OutcomesDiffer DEF ServedIn, Returns, Record
<1> QED BY <1>4, <1>5, <1>6, <1>7 DEF Serves, order, l

(* The second loop goes on to the next member or finds no script. *)
LEMMA ScriptStep ==
    ASSUME NEW ports, NEW routes, NEW r, NEW s, Serves(ports, routes, r),
           r.phase = "script", r.at <= Len(r.svcs),
           \/ ~IsScript(r.svcs[r.at]) /\ Stays(r, s, r.phase, r.at + 1)
           \/ \E snippet \in SMembers(routes, r.svcs[r.at]) : Runs(r, s, snippet)
           \/ /\ IsScript(r.svcs[r.at]) /\ SMembers(routes, r.svcs[r.at]) = {}
              /\ Returns(r, s, NoScript)
           \/ Returns(r, s, ScriptFailed)
    PROVE  Serves(ports, routes, s)
<1> DEFINE order == LookupOrder(r.url)
           l == Len(order)
           next(ran) == SameUrl(r, s) /\ Record(s, "script", r.at + 1, r.found, r.svcs, r.target,
                                                ran, r.outcome)
<1>1. /\ TypedAs(r, l) /\ SearchedIn(routes, r, order)
      /\ ServedBefore(ports, Len(r.svcs) + 1, r.svcs, r.target)
      /\ RanBefore(routes, r.at, r.svcs, r.ran) /\ SnippetEnabled
  BY DEF Serves, ServedIn
<1>2. r.outcome = "none" /\ r.at \in Nat \ {0} /\ Len(r.svcs) \in Nat /\ l \in Nat \ {0}
  <2> HIDE DEF l
  <2> QED BY <1>1 DEF TypedAs
<1>3. \/ \E ran : next(ran) /\ RanBefore(routes, r.at + 1, r.svcs, ran)
      \/ Returns(r, s, NoScript) /\ Textless(routes, r.svcs)
      \/ Returns(r, s, ScriptFailed)
  <2>1. CASE ~IsScript(r.svcs[r.at]) /\ Stays(r, s, r.phase, r.at + 1)
    <3>1. next(r.ran)
      BY <2>1 DEF Stays
    <3> QED BY <1>1, <1>2, <2>1, <3>1, RanMore
  <2>2. ASSUME NEW snippet \in SMembers(routes, r.svcs[r.at]), Runs(r, s, snippet)
        PROVE  \E ran : next(ran) /\ RanBefore(routes, r.at + 1, r.svcs, ran)
    <3>1. next(r.ran \cup {snippet})
      BY <2>2 DEF Runs
    <3> QED BY <1>1, <1>2, <2>2, <3>1, RanMore
  <2>3. CASE /\ IsScript(r.svcs[r.at]) /\ SMembers(routes, r.svcs[r.at]) = {}
             /\ Returns(r, s, NoScript)
    <3>1. r.at \in 1..Len(r.svcs)
      BY <1>2
    <3> QED BY <2>3, <3>1 DEF Textless
  <2> QED BY <2>1, <2>2, <2>3
<1>4. LookupOrder(s.url) = order
  BY <1>3 DEF Returns, SameUrl
<1> HIDE DEF order, l
<1>5. TypedAs(s, l)
  BY <1>1, <1>2, <1>3, OutcomesDiffer DEF TypedAs, Returns, SameUrl, Record, Phases
<1>6. SearchedIn(routes, s, order)
  BY <1>1, <1>2, <1>3, OutcomesDiffer DEF SearchedIn, Returns, Record
<1>7. ServedIn(ports, routes, s)
  BY <1>1, <1>2, <1>3, OutcomesDiffer DEF ServedIn, Returns, Record
<1> QED BY <1>4, <1>5, <1>6, <1>7 DEF Serves, order, l

(* After the last member the second loop follows the first, or the hook ends. *)
LEMMA LoopStep ==
    ASSUME NEW ports, NEW routes, NEW r, NEW s, Serves(ports, routes, r),
           r.phase \in {"route", "script"}, r.at > Len(r.svcs),
           \/ r.phase = "route" /\ SnippetEnabled /\ Stays(r, s, "script", 1)
           \/ ~(r.phase = "route" /\ SnippetEnabled) /\ Returns(r, s, "completed")
    PROVE  Serves(ports, routes, s)
<1> DEFINE order == LookupOrder(r.url)
           l == Len(order)
<1>1. TypedAs(r, l) /\ SearchedIn(routes, r, order) /\ ServedIn(ports, routes, r)
  BY DEF Serves
<1>2. /\ r.outcome = "none" /\ r.at \in Nat \ {0} /\ Len(r.svcs) \in Nat /\ l \in Nat \ {0}
      /\ r.at = Len(r.svcs) + 1
  <2> HIDE DEF l
  <2> QED BY <1>1 DEF TypedAs
<1>3. ServedBefore(ports, Len(r.svcs) + 1, r.svcs, r.target)
  BY <1>1, <1>2 DEF ServedIn
<1>4. LookupOrder(s.url) = order
  BY DEF Stays, Returns, SameUrl
<1> HIDE DEF order, l
<1>5. TypedAs(s, l)
  BY <1>1, <1>2, OutcomesDiffer DEF TypedAs, Stays, Returns, SameUrl, Record, Phases
<1>6. SearchedIn(routes, s, order)
  BY <1>1, <1>2, OutcomesDiffer DEF SearchedIn, Stays, Returns, Record
<1>7. ServedIn(ports, routes, s)
  <2>1. RanBefore(routes, 1, r.svcs, r.ran)
    BY DEF RanBefore
  <2>2. r.phase = "script" => RanBefore(routes, Len(r.svcs) + 1, r.svcs, r.ran)
    BY <1>1, <1>2 DEF ServedIn
  <2> QED BY <1>2, <1>3, <2>1, <2>2, OutcomesDiffer DEF ServedIn, Stays, Returns, Record
<1> QED BY <1>4, <1>5, <1>6, <1>7 DEF Serves, order, l

(* A request that has just come, and one that has not, have done nothing. *)
LEMMA NewServes ==
    ASSUME NEW ports, NEW routes, NEW url \in Urls
    PROVE  Serves(ports, routes, NewRequest(url)) /\ Serves(ports, routes, NoRequest(url))
<1> DEFINE order == LookupOrder(url)
           l == Len(order)
<1>1. l \in Nat \ {0}
  BY OrderNotEmpty
<1>2. Len(<<>>) = 0 /\ DOMAIN <<>> = 1..0
  OBVIOUS
<1> HIDE DEF order, l
<1>3. ASSUME NEW r, r \in {NewRequest(url), NoRequest(url)}
      PROVE  Serves(ports, routes, r)
  <2>1. /\ IsRecord(r) /\ r.phase \in {"ping", "done"} /\ r.url = url /\ r.at = 1
        /\ r.found = <<>> /\ r.svcs = <<>> /\ r.outcome = "none"
        /\ r.target = NoTarget /\ r.ran = {}
    BY <1>3 DEF IsRecord, NewRequest, NoRequest
  <2>2. TypedAs(r, l)
    BY <1>1, <1>2, <2>1, OutcomesDiffer DEF TypedAs, Phases
  <2>3. SearchedIn(routes, r, order)
    BY <2>1, OutcomesDiffer DEF SearchedIn
  <2>4. ServedIn(ports, routes, r)
    BY <2>1, OutcomesDiffer DEF ServedIn
  <2> QED BY <2>1, <2>2, <2>3, <2>4 DEF Serves, order, l
<1> QED BY <1>3

(* Every step of the hook, and a request that comes. *)
LEMMA ServingStep ==
    ASSUME Serving, RequestNext, UNCHANGED <<db0, db1>>
    PROVE  Serving'
<1>1. IsTable(db1)' /\ IsTable(db1)
  BY DEF Serving
<1>2. Serves(db0, db1, req) /\ IsRecord(req)
  <2>1. TypedAs(req, Len(LookupOrder(req.url)))
    BY DEF Serving, Serves
  <2> QED BY <2>1 DEF Serving, TypedAs
<1>3. SUFFICES Serves(db0, db1, req')
  BY <1>1 DEF Serving
<1>4. CASE Ping
  <2>1. req.phase = "ping"
    BY <1>4 DEF Ping
  <2>2. Stays(req, req', "lookup", req.at) \/ Returns(req, req', NoRedis)
    <3>1. req' = [req EXCEPT !.phase = "lookup"] \/ Return(NoRedis)
      BY <1>4, Zenon DEF Ping, NoRedis
    <3> QED BY <1>2, <3>1, StepFields
  <2> QED BY <1>2, <2>1, <2>2, PingStep
<1>5. CASE Lookup
  <2> DEFINE order == LookupOrder(req.url)
             hp == order[req.at]
             svcs == Held(db1, hp)
  <2>1. /\ req.phase = "lookup"
        /\ \/ /\ svcs # {}
              /\ \E found \in SetToSeqs(svcs) :
                    req' = [req EXCEPT !.phase = "route", !.at = 1, !.found = <<hp>>, !.svcs = found]
           \/ svcs = {} /\ req.at < Len(order) /\ req' = [req EXCEPT !.at = @ + 1]
           \/ svcs = {} /\ req.at = Len(order) /\ Return(NoRoute)
    BY <1>5, Zenon DEF Lookup, Held, NoRoute
  <2>2. CASE svcs = {}
    <3>1. \/ req.at < Len(order) /\ Stays(req, req', "lookup", req.at + 1)
          \/ req.at = Len(order) /\ Returns(req, req', NoRoute)
      <4> HIDE DEF order, hp, svcs
      <4> QED BY <1>2, <2>1, <2>2, StepFields
    <3> QED BY <1>2, <2>1, <2>2, <3>1, MissStep
  <2>3. CASE svcs # {}
    <3>1. PICK found \in SetToSeqs(svcs) :
              req' = [req EXCEPT !.phase = "route", !.at = 1, !.found = <<hp>>, !.svcs = found]
      BY <2>1, <2>3
    <3>2. Finds(req, req', hp, found)
      <4> HIDE DEF order, hp, svcs
      <4> QED BY <1>2, <3>1, StepFields
    <3>3. Len(found) \in Nat /\ DOMAIN found = 1..Len(found)
      <4>1. IsFiniteSet(svcs)
        BY <1>1, FS_EmptySet DEF IsTable, Held, SMembers
      <4> HIDE DEF svcs
      <4> QED BY <4>1, SetInOrder
    <3> QED BY <1>2, <2>1, <2>3, <3>2, <3>3, HitStep
  <2> QED BY <2>2, <2>3
<1>6. CASE Route
  <2> DEFINE svc == req.svcs[req.at]
  <2>1. /\ req.phase = "route" /\ req.at <= Len(req.svcs)
        /\ \/ IsScript(svc) /\ req' = [req EXCEPT !.at = @ + 1]
           \/ /\ ~IsScript(svc)
              /\ \E ipport \in SMembers(db0, svc) : req' = [req EXCEPT !.at = @ + 1, !.target = ipport]
           \/ ~IsScript(svc) /\ SMembers(db0, svc) = {} /\ Return(NoEndpoint)
    BY <1>6, Zenon DEF Route, NoEndpoint
  <2>2. \/ IsScript(svc) /\ Stays(req, req', req.phase, req.at + 1)
        \/ ~IsScript(svc) /\ \E ipport \in SMembers(db0, svc) : Targets(req, req', ipport)
        \/ ~IsScript(svc) /\ SMembers(db0, svc) = {} /\ Returns(req, req', NoEndpoint)
    <3> HIDE DEF svc
    <3> QED BY <1>2, <2>1, StepFields
  <2> QED BY <1>2, <2>1, <2>2, RouteStep
<1>7. CASE RunScript
  <2> DEFINE svc == req.svcs[req.at]
  <2>1. /\ req.phase = "script" /\ req.at <= Len(req.svcs)
        /\ \/ ~IsScript(svc) /\ req' = [req EXCEPT !.at = @ + 1]
           \/ \E snippet \in SMembers(db1, svc) :
                    req' = [req EXCEPT !.at = @ + 1, !.ran = @ \cup {snippet}]
           \/ IsScript(svc) /\ SMembers(db1, svc) = {} /\ Return(NoScript)
           \/ Return(ScriptFailed)
    BY <1>7, Zenon DEF RunScript, NoScript, ScriptFailed
  <2>2. \/ ~IsScript(svc) /\ Stays(req, req', req.phase, req.at + 1)
        \/ \E snippet \in SMembers(db1, svc) : Runs(req, req', snippet)
        \/ IsScript(svc) /\ SMembers(db1, svc) = {} /\ Returns(req, req', NoScript)
        \/ Returns(req, req', ScriptFailed)
    <3> HIDE DEF svc
    <3> QED BY <1>2, <2>1, StepFields
  <2> QED BY <1>2, <2>1, <2>2, ScriptStep
<1>8. CASE EndOfLoop
  <2>1. /\ req.phase \in {"route", "script"} /\ req.at > Len(req.svcs)
        /\ \/ req.phase = "route" /\ SnippetEnabled /\ req' = [req EXCEPT !.phase = "script", !.at = 1]
           \/ ~(req.phase = "route" /\ SnippetEnabled) /\ Return("completed")
    BY <1>8 DEF EndOfLoop
  <2>2. \/ req.phase = "route" /\ SnippetEnabled /\ Stays(req, req', "script", 1)
        \/ ~(req.phase = "route" /\ SnippetEnabled) /\ Returns(req, req', "completed")
    BY <1>2, <2>1, StepFields
  <2> QED BY <1>2, <2>1, <2>2, LoopStep
<1>9. ASSUME NEW url \in Urls, Receive(url)
      PROVE  Serves(db0, db1, req')
  <2>1. req' = NewRequest(url)
    BY <1>9 DEF Receive
  <2> QED BY <1>9, <2>1, NewServes
<1> QED BY <1>4, <1>5, <1>6, <1>7, <1>8, <1>9 DEF RequestNext, HookStep

LEMMA ServingAlways == StillSpec /\ IsTable(db1) => []Serving
<1>1. RequestInit /\ IsTable(db1) => Serving
  BY NewServes DEF RequestInit, Serving
<1>2. Serving /\ [StillNext]_requestVars => Serving'
  <2>1. CASE UNCHANGED requestVars
    BY <2>1 DEF Serving, requestVars
  <2> QED BY <2>1, ServingStep DEF StillNext
<1> QED BY <1>1, <1>2, PTL DEF StillSpec

(* The type invariant, of every request on databases that hold still. *)
THEOREM RequestTypeCorrect == StillSpec /\ IsTable(db1) => []RequestTypeOK
<1>1. Serving => RequestTypeOK
  <2> SUFFICES ASSUME Serving
               PROVE  RequestTypeOK
    OBVIOUS
  <2> DEFINE l == Len(LookupOrder(req.url))
  <2>1. TypedAs(req, l)
    BY DEF Serving, Serves
  <2> HIDE DEF l
  <2>2. req.phase \in Phases /\ req.url \in Urls /\ req.outcome \in Outcomes
    BY <2>1 DEF TypedAs
  <2>3. req.at \in 1..(l + Len(req.svcs) + 1)
    <3>1. l \in Nat \ {0} /\ Len(req.svcs) \in Nat /\ req.at \in Nat \ {0}
      BY <2>1 DEF TypedAs
    <3>2. req.at <= l + Len(req.svcs) + 1
      BY <2>1, <3>1 DEF TypedAs, Phases
    <3> QED BY <3>1, <3>2
  <2>4. req.phase \in {"ping", "lookup", "route", "script", "done"}
    BY <2>2 DEF Phases
  <2> QED BY <2>2, <2>3, <2>4, Zenon DEF RequestTypeOK, Outcomes, l
<1> QED BY <1>1, ServingAlways, PTL

(* What a request that has returned met on its way is the reason for its   *)
(* outcome: sent to an endpoint of one of its services, each of which has  *)
(* one, when it gets past the first loop; every script run, when it        *)
(* completes; a service or a script with nothing stored, when it does not. *)
THEOREM ServesWhatItFinds == StillSpec /\ IsTable(db1) => []ServesWholeRoute
<1>1. Serving => ServesWholeRoute
  <2> SUFFICES ASSUME Serving
               PROVE  ServesWholeRoute
    OBVIOUS
  <2> DEFINE svcs == req.svcs
             n == Len(svcs)
             members == {svcs[i] : i \in DOMAIN svcs}
             scripts == {m \in members : IsScript(m)}
             services == members \ scripts
             routed == \E svc \in services : req.target \in SMembers(db0, svc)
  <2>1. TypedAs(req, Len(LookupOrder(req.url))) /\ ServedIn(db0, db1, req)
    BY DEF Serving, Serves
  <2>2. n \in Nat /\ DOMAIN svcs = 1..n /\ (n + 1) - 1 = n
    BY <2>1 DEF TypedAs
  <2>3. /\ req.outcome \in Routed => ServedBefore(db0, n + 1, svcs, req.target)
        /\ req.outcome = "completed" /\ SnippetEnabled => RanBefore(db1, n + 1, svcs, req.ran)
        /\ req.outcome = NoEndpoint => /\ Unserved(db0, svcs) /\ req.ran = {}
                                       /\ req.target # NoTarget => SentOn(db0, svcs, req.target)
        /\ req.outcome = NoScript => Textless(db1, svcs)
        /\ req.outcome \in {NoScript, ScriptFailed} => SnippetEnabled
    BY <2>1 DEF ServedIn
  <2> HIDE DEF svcs, n
  <2>4. /\ \A x \in 1..n : svcs[x] \in IF IsScript(svcs[x]) THEN scripts ELSE services
        /\ \A m \in scripts : IsScript(m) /\ \E x \in 1..n : m = svcs[x]
        /\ \A m \in services : ~IsScript(m) /\ \E x \in 1..n : m = svcs[x]
    BY <2>2
  <2> HIDE DEF members, scripts, services
  <2>5. ASSUME req.outcome \in Routed
        PROVE  (\A svc \in services : SMembers(db0, svc) # {}) /\ (services # {} => routed)
    <3>1. /\ \A x \in 1..n : IsScript(svcs[x]) \/ SMembers(db0, svcs[x]) # {}
          /\ (\E x \in 1..n : ~IsScript(svcs[x])) =>
                \E x \in 1..n : ~IsScript(svcs[x]) /\ req.target \in SMembers(db0, svcs[x])
      BY <2>2, <2>3, <2>5 DEF ServedBefore
    <3> QED BY <2>4, <3>1
  <2>6. req.outcome = "completed" /\ SnippetEnabled =>
            \A m \in scripts : SMembers(db1, m) \cap req.ran # {}
    BY <2>2, <2>3, <2>4 DEF RanBefore
  <2>7. req.outcome = NoEndpoint =>
            /\ \E svc \in services : SMembers(db0, svc) = {}
            /\ req.target # NoTarget => routed
            /\ req.ran = {}
    <3>1. Unserved(db0, svcs) => \E svc \in services : SMembers(db0, svc) = {}
      BY <2>4 DEF Unserved, n
    <3>2. SentOn(db0, svcs, req.target) => routed
      BY <2>4 DEF SentOn, n
    <3> QED BY <2>3, <3>1, <3>2
  <2>8. req.outcome = NoScript => \E m \in scripts : SMembers(db1, m) = {}
    BY <2>3, <2>4 DEF Textless, n
  <2> HIDE DEF routed
  <2>9. /\ req.outcome \in {"completed", "no script", "script failed"} => req.outcome \in Routed
        /\ NoEndpoint = "no endpoint" /\ NoScript = "no script" /\ ScriptFailed = "script failed"
    BY DEF Routed, NoEndpoint, NoScript, ScriptFailed
  <2> QED BY <2>3, <2>5, <2>6, <2>7, <2>8, <2>9, Zenon
          DEF ServesWholeRoute, svcs, members, scripts, services, routed
<1> QED BY <1>1, ServingAlways, PTL

(* A hostPath of the table. *)
There == {hp \in {k[2] : k \in {k \in DOMAIN db1 : k[1] = "route"}} : db1[<<"route", hp>>] # {}}

LEMMA ThereIsHeld ==
    ASSUME IsTable(db1)
    PROVE  \A hp : hp \in There <=> Held(db1, hp) # {} /\ hp \in There /\ IsHostPath(hp)
<1> SUFFICES ASSUME NEW hp \in There
             PROVE  Held(db1, hp) # {} /\ IsHostPath(hp)
  OBVIOUS
<1>1. PICK k \in DOMAIN db1 : k[1] = "route" /\ k[2] = hp
  BY DEF There
<1>2. k = <<"route", hp>> /\ IsHostPath(hp)
  BY <1>1 DEF IsTable
<1> QED BY <1>1, <1>2 DEF There, Held, SMembers

LEMMA HeldIsThere ==
    ASSUME NEW hp, Held(db1, hp) # {}
    PROVE  hp \in There
<1> DEFINE k == <<"route", hp>>
<1>1. k \in DOMAIN db1 /\ db1[k] # {}
  BY DEF Held, SMembers
<1>2. k[1] = "route" /\ k[2] = hp
  OBVIOUS
<1> QED BY <1>1, <1>2 DEF There

(* The parts of the url of a request. *)
LEMMA UrlParts ==
    ASSUME NEW url \in Urls
    PROVE  \E S : url.host \in Seq(S) /\ url.path \in Seq(S) /\ url.path # <<>>
<1> DEFINE A == {url.host[i] : i \in DOMAIN url.host}
           B == {url.path[i] : i \in DOMAIN url.path}
<1>1. url.host \in Seq(A) /\ url.path \in Seq(B) /\ url.path # <<>>
  BY RequestsAssumption
<1>2. \A X, Y, x : X \subseteq Y /\ x \in Seq(X) => x \in Seq(Y)
  OBVIOUS
<1>3. A \subseteq A \cup B /\ B \subseteq A \cup B
  OBVIOUS
<1> HIDE DEF A, B
<1> QED BY <1>1, <1>2, <1>3

(* The hook answers with the most specific of the hostPaths that match. *)
THEOREM MostSpecificIsFound == StillSpec /\ IsTable(db1) => []FindsMostSpecific
<1>1. Serving => FindsMostSpecific
  <2> SUFFICES ASSUME Serving
               PROVE  FindsMostSpecific
    OBVIOUS
  <2> DEFINE url == req.url
             order == LookupOrder(url)
             matching == Matching(There, url)
  <2>1. IsTable(db1) /\ url \in Urls /\ SearchedIn(db1, req, order)
    <3>1. TypedAs(req, Len(order))
      BY DEF Serving, Serves
    <3>2. req.url \in Urls
      <4> HIDE DEF order
      <4> QED BY <3>1 DEF TypedAs
    <3> QED BY <3>2 DEF Serving, Serves
  <2>2. PICK S : url.host \in Seq(S) /\ url.path \in Seq(S) /\ url.path # <<>>
    BY <2>1, UrlParts
  <2>3. ASSUME NEW hp \in matching
        PROVE  /\ Held(db1, hp) # {} /\ IsHostPath(hp)
               /\ \E j \in 1..Len(order) : order[j] = hp
    <3>1. hp \in There
      BY <2>3 DEF Matching
    <3>2. Held(db1, hp) # {} /\ IsHostPath(hp)
      BY <2>1, <3>1, ThereIsHeld
    <3> DEFINE T == {hp.path[i] : i \in DOMAIN hp.path}
    <3>3. HasParts(hp, T)
      BY <3>2 DEF IsHostPath, HasParts
    <3> HIDE DEF T
    <3>4. \E j \in 1..Len(LookupOrder(url)) : LookupOrder(url)[j] = hp
      <4> HIDE DEF order, url
      <4> QED BY <2>2, <2>3, <3>3, MatchIsAsked DEF matching
    <3> QED BY <3>2, <3>4
  <2>4. req.outcome = NoRoute => matching = {}
    <3> SUFFICES ASSUME req.outcome = NoRoute, NEW hp \in matching
                 PROVE  FALSE
      OBVIOUS
    <3>1. PICK j \in 1..Len(order) : order[j] = hp
      BY <2>3
    <3>2. Held(db1, hp) # {}
      BY <2>3
    <3>3. NoneBefore(db1, order, Len(order) + 1)
      BY <2>1 DEF SearchedIn
    <3>4. Len(order) \in Nat
      BY <2>1, OrderNotEmpty
    <3> HIDE DEF order, matching
    <3>5. j \in 1..((Len(order) + 1) - 1)
      BY <3>4
    <3> QED BY <3>1, <3>2, <3>3, <3>5 DEF NoneBefore
  <2>5. ASSUME req.found # <<>>
        PROVE  /\ req.found[1] \in matching
               /\ \A hp \in matching \ {req.found[1]} : MoreSpecific(req.found[1], hp, url)
    <3>1. PICK i \in 1..Len(order) :
                req.found = <<order[i]>> /\ Held(db1, order[i]) # {} /\ NoneBefore(db1, order, i)
      BY <2>1, <2>5 DEF SearchedIn, FirstHeld
    <3>2. req.found[1] = order[i]
      BY <3>1
    <3>3. order[i] \in matching
      <4> DEFINE k == Turn(url)
                 n == Len(Hosts(url))
      <4>1. k \in Nat \ {0} /\ n \in {2, 3} /\ Len(order) = k * n
        BY <2>2, LookupOrderIs, HostsAre
      <4>2. \A x \in 1..n, y \in 1..k : order[k * (x - 1) + y] = InTurn(url, Hosts(url)[x], y)
        BY <2>2, LookupOrderIs
      <4>3. PICK b \in 1..n, p \in 1..k : i = k * (b - 1) + p
        <5>1. i \in 1..(k * n)
          BY <3>1, <4>1
        <5> HIDE DEF k, n
        <5> QED BY <4>1, <5>1, TurnOfPlace
      <4>4. order[i] = InTurn(url, Hosts(url)[b], p)
        BY <4>2, <4>3
      <4>5. LET hp == InTurn(url, Hosts(url)[b], p)
            IN  hp.scheme = url.scheme /\ HostRank(hp.host, url.host) > 0 /\ PathMatches(hp, url.path)
        BY <2>2, AskedMatches
      <4>6. order[i] \in There
        BY <3>1, HeldIsThere
      <4> QED BY <4>4, <4>5, <4>6 DEF Matching
    <3>4. ASSUME NEW hp \in matching, hp # order[i]
          PROVE  MoreSpecific(order[i], hp, url)
      <4>1. Held(db1, hp) # {} /\ IsHostPath(hp)
        BY <2>3, <3>4
      <4>2. \A j \in 1..(i - 1) : order[j] # hp /\ order[j] # order[i]
        BY <3>1, <4>1 DEF NoneBefore
      <4>3. hp.scheme = url.scheme /\ HostRank(hp.host, url.host) > 0 /\ PathMatches(hp, url.path)
        BY <3>4 DEF Matching
      <4> DEFINE T == {hp.path[x] : x \in DOMAIN hp.path}
      <4>4. HasParts(hp, T)
        BY <4>1 DEF IsHostPath, HasParts
      <4> HIDE DEF T, matching
      <4> QED BY <2>2, <3>1, <3>4, <4>2, <4>3, <4>4, FirstIsMostSpecific
    <3> HIDE DEF order, matching
    <3> QED BY <3>2, <3>3, <3>4
  <2>6. matching = Matching({hp \in {k[2] : k \in {k \in DOMAIN db1 : k[1] = "route"}} :
                                db1[<<"route", hp>>] # {}}, req.url)
    BY DEF There
  <2> HIDE DEF matching
  <2> QED BY <2>4, <2>5, <2>6, Zenon DEF FindsMostSpecific, NoRoute, url
<1> QED BY <1>1, ServingAlways, PTL
=============================================================================
