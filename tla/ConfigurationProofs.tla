------------------------- MODULE ConfigurationProofs -------------------------
(***************************************************************************)
(* What the handlers of Traffic Server's own configuration promise it, for *)
(* every set of ConfigMaps, of SNI policies and of caching policies.  The  *)
(* lemmas about loops come first.                                          *)
(***************************************************************************)
EXTENDS ConfigMapHandler, SniHandler, CacheHandler,
        FiniteSetTheorems, WellFoundedInduction, TLAPS

-----------------------------------------------------------------------------
(* Induction over the naturals, for a set instead of a predicate. *)

(* A set of naturals that is not empty has a least element. *)
LEMMA Least ==
    ASSUME NEW T \in SUBSET Nat, T # {}
    PROVE  \E x \in T : \A y \in T : x <= y
<1> DEFINE R == OpToRel(<, Nat)
<1>1. IsWellFoundedOn(R, Nat)
  BY NatLessThanWellFounded
<1>2. \A x, y \in Nat : <<y, x>> \in R <=> y < x
  BY DEF OpToRel
<1> HIDE DEF R
<1>3. PICK x \in T : \A y \in T : ~(<<y, x>> \in R)
  BY <1>1, WFMin
<1>4. ASSUME NEW y \in T
      PROVE  x <= y
  <2>1. x \in Nat /\ y \in Nat /\ ~(<<y, x>> \in R)
    BY <1>3
  <2>2. ~(y < x)
    BY <1>2, <2>1
  <2> QED BY <2>1, <2>2
<1> QED BY <1>4

(* What holds of 0 and of every successor holds of all. *)
LEMMA SetInduction ==
    ASSUME NEW T, 0 \in T, \A n \in Nat : n \in T => n + 1 \in T
    PROVE  Nat \subseteq T
<1> DEFINE B == Nat \ T
<1> SUFFICES ASSUME B # {}
             PROVE  FALSE
  OBVIOUS
<1>1. PICK x \in B : \A y \in B : x <= y
  BY Least
<1> HIDE DEF B
<1>2. x \in Nat /\ x # 0 /\ x - 1 \in Nat /\ x - 1 \notin B
  BY <1>1 DEF B
<1>3. x - 1 \in T /\ (x - 1) + 1 = x
  BY <1>2 DEF B
<1> QED BY <1>1, <1>2, <1>3 DEF B

(* The same up to a bound, for the passes of a loop. *)
LEMMA LoopInduction ==
    ASSUME NEW n \in Nat, NEW T, 0 \in T, \A i \in 1..n : i - 1 \in T => i \in T
    PROVE  n \in T
<1> DEFINE U == {k \in Nat : k <= n => k \in T}
<1>1. 0 \in U
  OBVIOUS
<1>2. ASSUME NEW k \in Nat, k \in U
      PROVE  k + 1 \in U
  <2> SUFFICES ASSUME k + 1 <= n
               PROVE  k + 1 \in T
    OBVIOUS
  <2>1. k + 1 \in 1..n /\ (k + 1) - 1 = k /\ k \in T
    BY <1>2
  <2> QED BY <2>1
<1> HIDE DEF U
<1>3. n \in U
  BY <1>1, <1>2, SetInduction
<1> QED BY <1>3 DEF U

(* What a loop over 1..n computes pass by pass: step is a function of the  *)
(* pass and of what there is before it.                                    *)
Passes(f, n, V, base, step) ==
    /\ f \in [0..n -> V]
    /\ f[0] = base
    /\ \A i \in 1..n : f[i] = step[i][f[i - 1]]

LEMMA LoopExists ==
    ASSUME NEW n \in Nat, NEW V, NEW base \in V, NEW step \in [1..n -> [V -> V]]
    PROVE  \E f : Passes(f, n, V, base, step)
<1> DEFINE Upto(k) == \E f \in [0..k -> V] :
                        f[0] = base /\ \A i \in 1..k : f[i] = step[i][f[i - 1]]
           T == {k \in 0..n : Upto(k)}
<1>1. Upto(0)
  <2> DEFINE f == [i \in 0..0 |-> base]
  <2>1. f \in [0..0 -> V] /\ f[0] = base /\ \A i \in 1..0 : f[i] = step[i][f[i - 1]]
    OBVIOUS
  <2> QED BY <2>1
<1>2. ASSUME NEW k \in 1..n, Upto(k - 1)
      PROVE  Upto(k)
  <2>1. PICK f \in [0..(k - 1) -> V] :
                f[0] = base /\ \A i \in 1..(k - 1) : f[i] = step[i][f[i - 1]]
    BY <1>2
  <2> DEFINE next == step[k][f[k - 1]]
             g == [i \in 0..k |-> IF i = k THEN next ELSE f[i]]
  <2>2. next \in V
    BY <2>1
  <2> HIDE DEF next
  <2>3. g \in [0..k -> V] /\ g[0] = base /\ g[k] = next
        /\ \A i \in 0..(k - 1) : g[i] = f[i]
    BY <2>1, <2>2
  <2> HIDE DEF g
  <2>4. ASSUME NEW i \in 1..k
        PROVE  g[i] = step[i][g[i - 1]]
    <3>1. CASE i = k
      BY <2>3, <3>1 DEF next
    <3>2. CASE i # k
      <4>1. i \in 1..(k - 1) /\ i \in 0..(k - 1) /\ i - 1 \in 0..(k - 1)
        BY <3>2
      <4> QED BY <2>1, <2>3, <4>1
    <3> QED BY <3>1, <3>2
  <2> QED BY <2>3, <2>4
<1> HIDE DEF Upto
<1>3. 0 \in T /\ \A k \in 1..n : k - 1 \in T => k \in T
  BY <1>1, <1>2
<1>4. n \in T
  <2> HIDE DEF T
  <2> QED BY <1>3, LoopInduction
<1> QED BY <1>4 DEF Upto, Passes

(* An order of a finite set names each of its elements once. *)
LEMMA OrderIs ==
    ASSUME NEW S, IsFiniteSet(S), NEW order \in SetToSeqs(S)
    PROVE  /\ order \in Seq(S)
           /\ \A i, j \in 1..Len(order) : i # j => order[i] # order[j]
           /\ \A x \in S : \E i \in 1..Len(order) : order[i] = x
<1> DEFINE n == Cardinality(S)
<1>1. n \in Nat
  BY FS_CardinalityType
<1>2. order \in [1..n -> S] /\ \A i, j \in 1..n : i # j => order[i] # order[j]
  BY DEF SetToSeqs
<1>3. IsFiniteSet(1..n) /\ Cardinality(1..n) = n
  BY <1>1, FS_Interval
<1> HIDE DEF n
<1>4. order \in Injection(1..n, S)
  BY <1>2 DEF Injection, IsInjective
<1>5. order \in Surjection(1..n, S)
  BY <1>3, <1>4, FS_Injection DEF n
<1>6. \A x \in S : \E i \in 1..n : order[i] = x
  BY <1>5 DEF Surjection
<1>7. order \in Seq(S) /\ Len(order) = n
  BY <1>1, <1>2
<1> QED BY <1>2, <1>6, <1>7

(* What a sequence holds is finite. *)
LEMMA ImageFinite ==
    ASSUME NEW n \in Nat, NEW f, NEW S, \A i \in 1..n : f[i] \in S,
           \A x \in S : \E i \in 1..n : f[i] = x
    PROVE  IsFiniteSet(S)
<1> DEFINE g == [i \in 1..n |-> f[i]]
<1>1. g \in Surjection(1..n, S)
  BY DEF Surjection
<1>2. ExistsSurjection(1..n, S)
  BY <1>1 DEF ExistsSurjection
<1> QED BY <1>2, FS_NatSurjection

-----------------------------------------------------------------------------
(***************************************************************************)
(* ConfigMapHandler.                                                       *)
(***************************************************************************)

Records == DOMAIN ImageRecords

SettingsOf == [record : Records, value : CmValues]

(* What a callback sets comes from its ConfigMap. *)
LEMMA SettingsType ==
    ASSUME NEW cm \in ConfigMaps, NEW todo \in Settings(cm)
    PROVE  /\ todo \in Seq(SettingsOf)
           /\ cm.marked => \A r \in DOMAIN cm.data : \E i \in 1..Len(todo) : todo[i].record = r
           /\ \A i \in 1..Len(todo) : /\ cm.marked
                                      /\ todo[i].record \in DOMAIN cm.data
                                      /\ todo[i].value = cm.data[todo[i].record]
<1> DEFINE D == DOMAIN cm.data
           n == Cardinality(D)
<1>1. IsFiniteSet(D) /\ D \subseteq Records
  BY ConfigMapsAssumption DEF Records
<1>2. n \in Nat
  BY <1>1, FS_CardinalityType
<1>3. \A r \in D : cm.data[r] \in CmValues
  BY DEF CmValues
<1>4. CASE ~cm.marked
  <2>1. todo = <<>>
    BY <1>4 DEF Settings
  <2> QED BY <1>4, <2>1
<1>5. CASE cm.marked
  <2>1. PICK order \in SetToSeqs(D) :
          todo = [i \in DOMAIN order |-> Setting(order[i], cm.data[order[i]])]
    BY <1>5 DEF Settings
  <2>2. order \in [1..n -> D] /\ Len(order) = n
    BY <1>2, <2>1 DEF SetToSeqs
  <2>3. \A r \in D : \E i \in 1..n : order[i] = r
    <3> HIDE DEF D, n
    <3> QED BY <1>1, <2>1, <2>2, OrderIs
  <2> HIDE DEF n
  <2>4. todo = [i \in 1..n |-> [record |-> order[i], value |-> cm.data[order[i]]]]
    BY <2>1, <2>2 DEF Setting
  <2>5. \A i \in 1..n : /\ order[i] \in D
                        /\ [record |-> order[i], value |-> cm.data[order[i]]] \in SettingsOf
    BY <1>1, <1>3, <2>2 DEF SettingsOf
  <2>6. /\ todo \in [1..n -> SettingsOf]
        /\ \A i \in 1..n : todo[i].record = order[i] /\ todo[i].value = cm.data[order[i]]
    BY <2>4, <2>5
  <2>7. todo \in Seq(SettingsOf) /\ Len(todo) = n
    <3> HIDE DEF D
    <3> QED BY <1>2, <2>6
  <2>8. \A r \in D : \E i \in 1..Len(todo) : todo[i].record = r
    BY <2>3, <2>6, <2>7
  <2>9. \A i \in 1..Len(todo) : todo[i].record \in D /\ todo[i].value = cm.data[todo[i].record]
    BY <2>5, <2>6, <2>7
  <2> QED BY <1>5, <2>7, <2>8, <2>9
<1> QED BY <1>4, <1>5

-----------------------------------------------------------------------------
(* The values an event leaves. *)
LEMMA StoreType ==
    ASSUME CmTypeOK, NEW n \in CmNames, NEW cm \in ConfigMaps \cup {NoConfigMap},
           cmStore' = [cmStore EXCEPT ![n] = cm]
    PROVE  cmStore' \in [CmNames -> ConfigMaps \cup {NoConfigMap}]
BY DEF CmTypeOK

(* An event takes the next ConfigMap of a name and plans what to set. *)
CmTakes(cm) ==
    /\ cm.name \in CmNames
    /\ CmIdle
    /\ cmStore' = [cmStore EXCEPT ![cm.name] = cm]
    /\ cmTodo' \in Settings(cm)
    /\ records' = records /\ cmFaults' = cmFaults

CmLeaves(n) ==
    /\ CmIdle
    /\ cmStore' = [cmStore EXCEPT ![n] = NoConfigMap]
    /\ records' = records /\ cmFaults' = cmFaults /\ cmTodo' = cmTodo

LEMMA EventIs ==
    ASSUME CmEvent
    PROVE  (\E cm \in ConfigMaps : CmTakes(cm)) \/ (\E n \in CmNames : CmLeaves(n))
<1>1. \A cm \in ConfigMaps : cm.name \in CmNames
  BY DEF CmNames
<1> QED BY <1>1 DEF CmEvent, AddConfigMap, UpdateConfigMap, DeleteConfigMap, CmTakes, CmLeaves

(* The next record to set. *)
LEMMA NextRecord ==
    ASSUME CmTypeOK, ~CmIdle
    PROVE  /\ Head(cmTodo) = cmTodo[1] /\ 1 \in 1..Len(cmTodo)
           /\ Head(cmTodo).record \in Records /\ Head(cmTodo).value \in CmValues
           /\ Tail(cmTodo) \in Seq(SettingsOf) /\ Len(Tail(cmTodo)) = Len(cmTodo) - 1
           /\ \A i \in 1..Len(Tail(cmTodo)) : i + 1 \in 1..Len(cmTodo) /\
                 Tail(cmTodo)[i] = cmTodo[i + 1]
<1>1. cmTodo \in Seq(SettingsOf) /\ cmTodo # <<>>
  BY DEF CmTypeOK, CmIdle, SettingsOf, Records
<1>2. Head(cmTodo) \in SettingsOf /\ Head(cmTodo) = cmTodo[1] /\ 1 \in 1..Len(cmTodo)
  BY <1>1
<1>3. Head(cmTodo).record \in Records /\ Head(cmTodo).value \in CmValues
  BY <1>2 DEF SettingsOf
<1>4. /\ Tail(cmTodo) \in Seq(SettingsOf) /\ Len(Tail(cmTodo)) = Len(cmTodo) - 1
      /\ \A i \in 1..Len(Tail(cmTodo)) : i + 1 \in 1..Len(cmTodo) /\ Tail(cmTodo)[i] = cmTodo[i + 1]
  BY <1>1
<1> QED BY <1>2, <1>3, <1>4

(* The type invariant: no callback sets what is no record, or to a value   *)
(* no ConfigMap gives.                                                     *)
THEOREM CmTypeCorrect == CmSpec => []CmTypeOK
<1>1. CmInit => CmTypeOK
  <2> SUFFICES ASSUME CmInit
               PROVE  CmTypeOK
    OBVIOUS
  <2>1. records = ImageRecords /\ cmTodo = <<>> /\ cmFaults = 0
        /\ cmStore = [n \in CmNames |-> NoConfigMap]
    BY DEF CmInit
  <2>2. \A r \in DOMAIN ImageRecords : ImageRecords[r] \in CmValues
    BY DEF CmValues
  <2>3. ImageRecords \in [DOMAIN ImageRecords -> CmValues]
    BY <2>2, RecordsAssumption
  <2> QED BY <2>1, <2>3, CmFaultsAssumption DEF CmTypeOK
<1>2. CmTypeOK /\ [CmNext]_cmVars => CmTypeOK'
  <2> SUFFICES ASSUME CmTypeOK, [CmNext]_cmVars
               PROVE  CmTypeOK'
    OBVIOUS
  <2>1. ASSUME NEW cm \in ConfigMaps, CmTakes(cm)
        PROVE  CmTypeOK'
    <3>1. cmTodo' \in Seq(SettingsOf)
      BY <2>1, SettingsType DEF CmTakes
    <3> QED BY <2>1, <3>1, StoreType DEF CmTakes, CmTypeOK, SettingsOf, Records
  <2>2. ASSUME NEW n \in CmNames, CmLeaves(n)
        PROVE  CmTypeOK'
    BY <2>2, StoreType DEF CmLeaves, CmTypeOK
  <2>3. CASE CmExec
    <3>1. Tail(cmTodo) \in Seq(SettingsOf) /\ Head(cmTodo).record \in Records /\
            Head(cmTodo).value \in CmValues
      BY <2>3, NextRecord DEF CmExec
    <3>2. records' \in [DOMAIN ImageRecords -> CmValues]
      BY <2>3, <3>1 DEF CmExec, CmTypeOK, Records
    <3> QED BY <2>3, <3>1, <3>2 DEF CmExec, CmTypeOK, SettingsOf, Records
  <2>4. CASE CmFail
    <3>1. Tail(cmTodo) \in Seq(SettingsOf)
      BY <2>4, NextRecord DEF CmFail
    <3>2. cmFaults' \in 0..MaxCmFaults
      BY <2>4, CmFaultsAssumption DEF CmFail, CmTypeOK
    <3> QED BY <2>4, <3>1, <3>2 DEF CmFail, CmTypeOK, SettingsOf, Records
  <2>5. CASE CmRestart
    <3>1. \A r \in DOMAIN ImageRecords : ImageRecords[r] \in CmValues
      BY DEF CmValues
    <3>2. ImageRecords \in [DOMAIN ImageRecords -> CmValues]
      BY <3>1, RecordsAssumption
    <3> QED BY <2>5, <3>2 DEF CmRestart, CmTypeOK
  <2>6. CASE UNCHANGED cmVars
    BY <2>6 DEF cmVars, CmTypeOK
  <2> QED BY <2>1, <2>2, <2>3, <2>4, <2>5, <2>6, EventIs DEF CmNext
<1> QED BY <1>1, <1>2, PTL DEF CmSpec

-----------------------------------------------------------------------------
(* The promise. *)

(* The ConfigMap n of a store names a record. *)
NamesIn(st, n, r) == st[n] # NoConfigMap /\ st[n].marked /\ r \in DOMAIN st[n].data

Names(n, r) == NamesIn(cmStore, n, r)

(* The store has ConfigMaps under their names. *)
CmStored == \A n \in CmNames : cmStore[n] # NoConfigMap => cmStore[n].name = n

(* What the callback has left to set is what the ConfigMaps give ... *)
CmPlanned ==
    \A i \in 1..Len(cmTodo) :
        \E n \in CmNames : /\ Names(n, cmTodo[i].record)
                          /\ cmTodo[i].value = cmStore[n].data[cmTodo[i].record]

(* ... and every other record has what they give it. *)
CmFollows ==
    \A n \in CmNames, r \in Records :
        Names(n, r) => \/ records[r] = cmStore[n].data[r]
                       \/ \E i \in 1..Len(cmTodo) : cmTodo[i].record = r

CmFaithful == CmTypeOK /\ CmStored /\ CmPlanned /\ (cmFaults = 0 => CmFollows)

(* No two of those there name one record. *)
LEMMA OneNames ==
    ASSUME CmOrderly(ConfigMaps), CmTypeOK, CmStored, NEW n \in CmNames, NEW m \in CmNames, NEW r,
           Names(n, r), Names(m, r)
    PROVE  n = m
<1>1. /\ cmStore[n] \in ConfigMaps /\ cmStore[n].marked
      /\ cmStore[m] \in ConfigMaps /\ cmStore[m].marked
      /\ r \in DOMAIN cmStore[n].data \cap DOMAIN cmStore[m].data
  BY DEF CmTypeOK, Names, NamesIn
<1>2. cmStore[n].name = n /\ cmStore[m].name = m
  BY <1>1, ConfigMapsAssumption DEF CmStored
<1> QED BY <1>1, <1>2 DEF CmOrderly

(* So a record that is named is given one value. *)
LEMMA GivenIs ==
    ASSUME CmOrderly(ConfigMaps), CmTypeOK, CmStored, NEW n \in CmNames, NEW r, Names(n, r)
    PROVE  CmGiven(r) = {cmStore[n].data[r]}
<1>1. cmStore[n].data[r] \in CmGiven(r)
  BY DEF CmGiven, Names, NamesIn, CmDeclared
<1>2. ASSUME NEW v \in CmGiven(r)
      PROVE  v = cmStore[n].data[r]
  <2>1. PICK m \in CmNames : Names(m, r) /\ v = cmStore[m].data[r]
    BY DEF CmGiven, Names, NamesIn, CmDeclared
  <2> QED BY <2>1, OneNames
<1> QED BY <1>1, <1>2

LEMMA GivenEmpty ==
    ASSUME NEW r, \A n \in CmNames : ~Names(n, r)
    PROVE  CmGiven(r) = {}
BY DEF CmGiven, Names, NamesIn, CmDeclared

(* Nothing is named while nothing is stored, nor left to set. *)
LEMMA FaithfulAtStart ==
    ASSUME cmStore = [n \in CmNames |-> NoConfigMap], cmTodo = <<>>
    PROVE  CmStored /\ CmPlanned /\ CmFollows /\ \A r : CmGiven(r) = {}
<1>1. \A n \in CmNames : \A r : ~Names(n, r)
  BY DEF Names, NamesIn
<1>2. Len(cmTodo) = 0
  OBVIOUS
<1> QED BY <1>1, <1>2, GivenEmpty DEF CmStored, CmPlanned, CmFollows

LEMMA FaithfulTakes ==
    ASSUME CmFaithful, NEW cm \in ConfigMaps, CmTakes(cm)
    PROVE  CmStored' /\ CmPlanned' /\ (cmFaults' = 0 => CmFollows')
<1>1. /\ cmTodo = <<>> /\ Len(cmTodo) = 0 /\ records' = records /\ cmFaults' = cmFaults
      /\ cm.name \in CmNames /\ cm # NoConfigMap
  BY ConfigMapsAssumption DEF CmTakes, CmIdle
<1>2. /\ cmStore'[cm.name] = cm
      /\ \A n \in CmNames : n # cm.name => cmStore'[n] = cmStore[n]
  BY <1>1 DEF CmTakes, CmFaithful, CmTypeOK
<1>3. /\ cm.marked => \A r \in DOMAIN cm.data : \E i \in 1..Len(cmTodo') : cmTodo'[i].record = r
      /\ \A i \in 1..Len(cmTodo') : /\ cm.marked
                                    /\ cmTodo'[i].record \in DOMAIN cm.data
                                    /\ cmTodo'[i].value = cm.data[cmTodo'[i].record]
  <2>1. cmTodo' \in Settings(cm)
    BY DEF CmTakes
  <2> QED BY <2>1, SettingsType
<1>4. CmStored'
  BY <1>1, <1>2 DEF CmFaithful, CmStored
<1>5. CmPlanned'
  <2> SUFFICES ASSUME NEW i \in 1..Len(cmTodo')
               PROVE  \E n \in CmNames : /\ NamesIn(cmStore', n, cmTodo'[i].record)
                                        /\ cmTodo'[i].value = cmStore'[n].data[cmTodo'[i].record]
    BY DEF CmPlanned, Names
  <2>1. NamesIn(cmStore', cm.name, cmTodo'[i].record)
    BY <1>1, <1>2, <1>3 DEF NamesIn
  <2>2. cmTodo'[i].value = cmStore'[cm.name].data[cmTodo'[i].record]
    BY <1>2, <1>3
  <2> QED BY <1>1, <2>1, <2>2
<1>6. ASSUME cmFaults' = 0, NEW n \in CmNames, NEW r \in Records, Names(n, r)'
      PROVE  records'[r] = cmStore'[n].data[r] \/ \E i \in 1..Len(cmTodo') : cmTodo'[i].record = r
  <2>1. CASE n = cm.name
    BY <1>2, <1>3, <1>6, <2>1 DEF Names, NamesIn
  <2>2. CASE n # cm.name
    <3>1. cmStore'[n] = cmStore[n]
      BY <1>2, <2>2
    <3>2. Names(n, r)
      BY <1>6, <3>1 DEF Names, NamesIn
    <3>3. records[r] = cmStore[n].data[r]
      BY <1>1, <1>6, <3>2 DEF CmFaithful, CmFollows
    <3> QED BY <1>1, <3>1, <3>3
  <2> QED BY <2>1, <2>2
<1> QED BY <1>4, <1>5, <1>6 DEF CmFollows

LEMMA FaithfulLeaves ==
    ASSUME CmFaithful, NEW m \in CmNames, CmLeaves(m)
    PROVE  CmStored' /\ CmPlanned' /\ (cmFaults' = 0 => CmFollows')
<1>1. cmTodo' = <<>> /\ cmTodo = <<>> /\ Len(cmTodo) = 0 /\ records' = records /\
        cmFaults' = cmFaults
  BY DEF CmLeaves, CmIdle
<1>2. /\ cmStore'[m] = NoConfigMap
      /\ \A n \in CmNames : n # m => cmStore'[n] = cmStore[n]
  BY DEF CmLeaves, CmFaithful, CmTypeOK
<1>3. CmStored'
  BY <1>2 DEF CmFaithful, CmStored
<1>4. CmPlanned'
  BY <1>1 DEF CmPlanned
<1>5. ASSUME cmFaults' = 0, NEW n \in CmNames, NEW r \in Records, Names(n, r)'
      PROVE  records'[r] = cmStore'[n].data[r]
  <2>1. n # m /\ cmStore'[n] = cmStore[n]
    BY <1>2, <1>5 DEF Names, NamesIn
  <2>2. Names(n, r)
    BY <1>5, <2>1 DEF Names, NamesIn
  <2>3. records[r] = cmStore[n].data[r]
    BY <1>1, <1>5, <2>2 DEF CmFaithful, CmFollows
  <2> QED BY <1>1, <2>1, <2>3
<1> QED BY <1>3, <1>4, <1>5 DEF CmFollows

(* The rest of a plan is still one. *)
LEMMA PlannedTail ==
    ASSUME CmFaithful, ~CmIdle, cmTodo' = Tail(cmTodo), cmStore' = cmStore
    PROVE  CmPlanned'
<1>1. \A i \in 1..Len(cmTodo') : i + 1 \in 1..Len(cmTodo) /\ cmTodo'[i] = cmTodo[i + 1]
  BY NextRecord DEF CmFaithful
<1>2. ASSUME NEW i \in 1..Len(cmTodo')
      PROVE  \E n \in CmNames : /\ NamesIn(cmStore', n, cmTodo'[i].record)
                               /\ cmTodo'[i].value = cmStore'[n].data[cmTodo'[i].record]
  <2>1. PICK n \in CmNames : /\ NamesIn(cmStore, n, cmTodo[i + 1].record)
                            /\ cmTodo[i + 1].value = cmStore[n].data[cmTodo[i + 1].record]
    BY <1>1, <1>2 DEF CmFaithful, CmPlanned, Names
  <2>2. cmTodo'[i] = cmTodo[i + 1]
    BY <1>1, <1>2
  <2> QED BY <2>1, <2>2
<1> QED BY <1>2 DEF CmPlanned, Names

(* Setting a record gives it what the one ConfigMap that names it says. *)
LEMMA FollowsExec ==
    ASSUME CmOrderly(ConfigMaps), CmFaithful, CmExec, cmFaults = 0
    PROVE  CmFollows'
<1> DEFINE q == Head(cmTodo).record
<1>1. /\ q \in Records /\ q = cmTodo[1].record /\ Head(cmTodo) = cmTodo[1] /\ 1 \in 1..Len(cmTodo)
      /\ cmTodo' = Tail(cmTodo) /\ Len(cmTodo') = Len(cmTodo) - 1 /\ Len(cmTodo) \in Nat
      /\ \A i \in 1..Len(cmTodo') : cmTodo'[i] = cmTodo[i + 1]
  <2>1. cmTodo \in Seq(SettingsOf)
    BY DEF CmFaithful, CmTypeOK, SettingsOf, Records
  <2> QED BY <2>1, NextRecord DEF CmExec, CmFaithful
<1>2. /\ cmStore' = cmStore
      /\ records'[q] = cmTodo[1].value
      /\ \A r \in Records : r # q => records'[r] = records[r]
  BY <1>1 DEF CmExec, CmFaithful, CmTypeOK, Records
<1>3. PICK m \in CmNames : Names(m, q) /\ cmTodo[1].value = cmStore[m].data[q]
  BY <1>1 DEF CmFaithful, CmPlanned
<1> HIDE DEF q
<1>4. ASSUME NEW n \in CmNames, NEW r \in Records, Names(n, r)'
      PROVE  records'[r] = cmStore'[n].data[r] \/ \E i \in 1..Len(cmTodo') : cmTodo'[i].record = r
  <2>1. Names(n, r)
    BY <1>2, <1>4 DEF Names, NamesIn
  <2>2. CASE r = q
    <3>1. n = m
      BY <1>3, <2>1, <2>2, OneNames DEF CmFaithful
    <3> QED BY <1>2, <1>3, <2>2, <3>1
  <2>3. CASE r # q
    <3>1. CASE records[r] = cmStore[n].data[r]
      BY <1>2, <2>3, <3>1
    <3>2. CASE \E i \in 1..Len(cmTodo) : cmTodo[i].record = r
      <4>1. PICK i \in 1..Len(cmTodo) : cmTodo[i].record = r
        BY <3>2
      <4>2. i # 1
        BY <1>1, <2>3, <4>1
      <4>3. i - 1 \in 1..Len(cmTodo') /\ (i - 1) + 1 = i
        BY <1>1, <4>2
      <4>4. cmTodo'[i - 1].record = r
        BY <1>1, <4>1, <4>3
      <4> QED BY <4>3, <4>4
    <3> QED BY <2>1, <3>1, <3>2 DEF CmFaithful, CmFollows
  <2> QED BY <2>2, <2>3
<1> QED BY <1>4 DEF CmFollows

LEMMA FaithfulAlways ==
    ASSUME CmOrderly(ConfigMaps)
    PROVE  CmSpec => []CmFaithful
<1>1. CmInit /\ CmTypeOK => CmFaithful
  BY FaithfulAtStart DEF CmInit, CmFaithful
<1>2. CmFaithful /\ CmTypeOK' /\ [CmNext]_cmVars => CmFaithful'
  <2> SUFFICES ASSUME CmFaithful, CmTypeOK', [CmNext]_cmVars
               PROVE  CmStored' /\ CmPlanned' /\ (cmFaults' = 0 => CmFollows')
    BY DEF CmFaithful
  <2>1. CASE CmEvent
    BY <2>1, EventIs, FaithfulTakes, FaithfulLeaves
  <2>2. CASE CmExec
    <3>1. ~CmIdle /\ cmTodo' = Tail(cmTodo) /\ cmStore' = cmStore /\ cmFaults' = cmFaults
      BY <2>2 DEF CmExec
    <3>2. CmStored'
      BY <3>1 DEF CmFaithful, CmStored
    <3> QED BY <2>2, <3>1, <3>2, PlannedTail, FollowsExec
  <2>3. CASE CmFail
    <3>1. ~CmIdle /\ cmTodo' = Tail(cmTodo) /\ cmStore' = cmStore /\ cmFaults' # 0
      BY <2>3 DEF CmFail, CmFaithful, CmTypeOK
    <3>2. CmStored'
      BY <3>1 DEF CmFaithful, CmStored
    <3> QED BY <3>1, <3>2, PlannedTail
  <2>4. CASE CmRestart
    <3>1. \A n \in CmNames : cmStore'[n] = NoConfigMap
      BY <2>4 DEF CmRestart
    <3>2. Len(cmTodo') = 0
      BY <2>4 DEF CmRestart
    <3> QED BY <3>1, <3>2 DEF CmStored, CmPlanned, CmFollows, Names, NamesIn
  <2>5. CASE UNCHANGED cmVars
    BY <2>5 DEF cmVars, CmFaithful, CmStored, CmPlanned, CmFollows, Names, NamesIn
  <2> QED BY <2>1, <2>2, <2>3, <2>4, <2>5 DEF CmNext
<1> QED BY <1>1, <1>2, CmTypeCorrect, PTL DEF CmSpec

-----------------------------------------------------------------------------
(* The table and what is wanted, of the state of the informer's store and  *)
(* of the records.                                                         *)
GivenBy(st, r) == {st[n].data[r] : n \in {n \in CmNames : NamesIn(st, n, r)}}

WantedBy(st, rs) == [r \in DOMAIN rs |-> IF GivenBy(st, r) = {} THEN {rs[r]} ELSE GivenBy(st, r)]

LEMMA WantedIs == /\ CmWanted = WantedBy(cmStore, records)
                  /\ CmWanted' = WantedBy(cmStore', records')
<1>1. ASSUME NEW n \in CmNames, NEW r
      PROVE  /\ (CmDeclared(n) /\ r \in DOMAIN cmStore[n].data) <=> NamesIn(cmStore, n, r)
             /\ (CmDeclared(n)' /\ r \in DOMAIN cmStore'[n].data) <=> NamesIn(cmStore', n, r)
  BY DEF CmDeclared, NamesIn
<1>2. \A r : CmGiven(r) = GivenBy(cmStore, r)
  BY <1>1 DEF CmGiven, GivenBy
<1>3. \A r : CmGiven(r)' = GivenBy(cmStore', r)
  BY <1>1 DEF CmGiven, GivenBy
<1> QED BY <1>2, <1>3 DEF CmWanted, WantedBy

LEMMA WantedType ==
    ASSUME NEW st \in [CmNames -> ConfigMaps \cup {NoConfigMap}], NEW rs \in [Records -> CmValues]
    PROVE  WantedBy(st, rs) \in CmPromise!Tables
<1>1. ASSUME NEW r \in Records
      PROVE  GivenBy(st, r) \subseteq CmValues
  <2> SUFFICES ASSUME NEW n \in CmNames, NamesIn(st, n, r)
               PROVE  st[n].data[r] \in CmValues
    BY DEF GivenBy
  <2>1. st[n] \in ConfigMaps /\ r \in DOMAIN st[n].data
    BY DEF NamesIn
  <2> QED BY <2>1 DEF CmValues
<1> QED BY <1>1 DEF WantedBy, CmPromise!Tables, Records

LEMMA CmTablesType ==
    /\ CmTypeOK => CmTable \in CmPromise!Tables /\ CmWanted \in CmPromise!Tables
    /\ CmTypeOK' => CmTable' \in CmPromise!Tables /\ CmWanted' \in CmPromise!Tables
<1>1. CmTypeOK => CmTable \in CmPromise!Tables
  BY DEF CmTypeOK, CmTable, CmPromise!Tables
<1>2. CmTypeOK' => CmTable' \in CmPromise!Tables
  BY DEF CmTypeOK, CmTable, CmPromise!Tables
<1>3. CmTypeOK => CmWanted \in CmPromise!Tables
  BY WantedIs, WantedType DEF CmTypeOK, Records
<1>4. CmTypeOK' => CmWanted' \in CmPromise!Tables
  BY WantedIs, WantedType DEF CmTypeOK, Records
<1> QED BY <1>1, <1>2, <1>3, <1>4

(* The value a store gives a record, and to those it gives none. *)
LEMMA WantedAt ==
    ASSUME CmOrderly(ConfigMaps), CmTypeOK, CmStored, NEW r \in Records
    PROVE  /\ \A n \in CmNames : Names(n, r) => CmWanted[r] = {cmStore[n].data[r]}
           /\ (\A n \in CmNames : ~Names(n, r)) => CmWanted[r] = {records[r]}
<1>1. CmWanted[r] = IF CmGiven(r) = {} THEN {records[r]} ELSE CmGiven(r)
  BY DEF CmWanted, CmTypeOK, Records
<1> QED BY <1>1, GivenIs, GivenEmpty

(* Between callbacks the records are what the ConfigMaps want. *)
LEMMA IdleIsWanted ==
    ASSUME CmOrderly(ConfigMaps), CmFaithful, CmIdle, cmFaults = 0
    PROVE  CmTable = CmWanted
<1>1. Len(cmTodo) = 0
  BY DEF CmIdle
<1>2. ASSUME NEW r \in Records
      PROVE  CmWanted[r] = {records[r]}
  <2>1. \A n \in CmNames : Names(n, r) => records[r] = cmStore[n].data[r]
    BY <1>1 DEF CmFaithful, CmFollows
  <2> QED BY <2>1, WantedAt DEF CmFaithful
<1>3. CmTable \in [Records -> SUBSET CmValues] /\ CmWanted \in [Records -> SUBSET CmValues]
  BY CmTablesType DEF CmPromise!Tables, CmFaithful, Records
<1>4. \A r \in Records : CmTable[r] = {records[r]}
  BY DEF CmTable, CmFaithful, CmTypeOK, Records
<1> QED BY <1>2, <1>3, <1>4

(* Setting a record is one step towards what is wanted. *)
LEMMA ExecPublishes ==
    ASSUME CmOrderly(ConfigMaps), CmFaithful, CmFaithful', CmExec, cmFaults = 0
    PROVE  CmPromise!Publish
<1> DEFINE q == Head(cmTodo).record
           v == Head(cmTodo).value
           gone == CmTable[q] \ CmTable'[q]
           come == CmTable'[q] \ CmTable[q]
<1>1. q \in Records /\ q = cmTodo[1].record /\ v = cmTodo[1].value /\ 1 \in 1..Len(cmTodo)
  BY NextRecord DEF CmExec, CmFaithful
<1>2. cmStore' = cmStore /\ cmFaults' = cmFaults /\ records' = [records EXCEPT ![q] = v]
  BY DEF CmExec
<1>3. PICK n \in CmNames : Names(n, q) /\ v = cmStore[n].data[q]
  BY <1>1 DEF CmFaithful, CmPlanned
<1> HIDE DEF q, v
<1>4. CmWanted[q] = {v} /\ CmWanted'[q] = {v}
  <2>1. CmWanted[q] = {v}
    BY <1>1, <1>3, WantedAt DEF CmFaithful
  <2>2. q \in DOMAIN records' /\ GivenBy(cmStore', q) = GivenBy(cmStore, q)
    BY <1>1, <1>2 DEF CmFaithful, CmTypeOK, Records
  <2>3. v \in GivenBy(cmStore, q)
    BY <1>3 DEF GivenBy, Names
  <2>4. q \in DOMAIN records
    BY <1>1 DEF CmFaithful, CmTypeOK, Records
  <2> QED BY <2>1, <2>2, <2>3, <2>4, WantedIs DEF WantedBy
<1>5. /\ records \in [Records -> CmValues] /\ records' \in [Records -> CmValues]
      /\ records'[q] = v /\ \A r \in Records : r # q => records'[r] = records[r]
  BY <1>1, <1>2 DEF CmFaithful, CmTypeOK, Records
<1>6. CmTable'[q] = {v} /\ \A r \in Records : r # q => CmTable'[r] = CmTable[r]
  BY <1>1, <1>5 DEF CmTable
<1>7. /\ CmTable \in [Records -> SUBSET CmValues] /\ CmTable' \in [Records -> SUBSET CmValues]
      /\ CmWanted \in [Records -> SUBSET CmValues] /\ CmWanted' \in [Records -> SUBSET CmValues]
  BY CmTablesType DEF CmPromise!Tables, CmFaithful, Records
<1>8. CmWanted' = CmWanted
  <2>1. ASSUME NEW r \in Records, r # q
        PROVE  WantedBy(cmStore', records')[r] = WantedBy(cmStore, records)[r]
    BY <1>2, <1>5, <2>1 DEF WantedBy
  <2> QED BY <1>4, <1>7, <2>1, WantedIs
<1>9. gone \in SUBSET (CmTable[q] \ CmWanted[q]) /\ come \in SUBSET (CmWanted[q] \ CmTable[q])
  BY <1>4, <1>6
<1>10. CmTable' = [CmTable EXCEPT ![q] = (@ \ gone) \cup come]
  <2>1. CmTable'[q] = (CmTable[q] \ gone) \cup come
    OBVIOUS
  <2> HIDE DEF gone, come
  <2> QED BY <1>1, <1>6, <1>7, <2>1
<1> HIDE DEF gone, come
<1> QED BY <1>1, <1>2, <1>8, <1>9, <1>10 DEF CmPromise!Publish, Records

(* The container starts with the promised table. *)
LEMMA StartIsInitial ==
    ASSUME NEW st, NEW rs, st = [n \in CmNames |-> NoConfigMap], rs = ImageRecords
    PROVE  WantedBy(st, rs) = [r \in Records |-> {ImageRecords[r]}]
<1>1. \A r : GivenBy(st, r) = {}
  BY DEF GivenBy, NamesIn
<1> QED BY <1>1 DEF WantedBy, Records

(* Every step of the handler and of its informer is one that LookupTable   *)
(* allows, or none.                                                        *)
LEMMA CmStepIsPromised ==
    ASSUME CmOrderly(ConfigMaps), CmFaithful, CmFaithful', [CmNext]_cmVars
    PROVE  [CmPromise!Next]_(CmPromise!lookupVars)
<1>1. cmFaults \in Nat /\ cmFaults' \in Nat
  BY CmFaultsAssumption DEF CmFaithful, CmTypeOK
<1>2. /\ CmTable \in CmPromise!Tables /\ CmWanted \in CmPromise!Tables
      /\ CmTable' \in CmPromise!Tables /\ CmWanted' \in CmPromise!Tables
  BY CmTablesType DEF CmFaithful
<1>3. CASE cmFaults' > 0
  BY <1>2, <1>3 DEF CmPromise!Next, CmPromise!Lose
<1>4. CASE ~(cmFaults' > 0)
  <2>1. cmFaults' = 0
    BY <1>1, <1>4
  <2>2. CASE CmEvent
    <3>1. CmIdle /\ records' = records /\ cmFaults' = cmFaults
      BY <2>2, EventIs DEF CmTakes, CmLeaves
    <3>2. CmTable = CmWanted /\ CmTable' = CmTable
      BY <2>1, <3>1, IdleIsWanted DEF CmTable
    <3> QED BY <1>2, <3>1, <3>2 DEF CmPromise!Next, CmPromise!Declare
  <2>3. CASE CmExec
    <3>1. cmFaults = 0
      BY <2>1, <2>3 DEF CmExec
    <3> QED BY <2>3, <3>1, ExecPublishes DEF CmPromise!Next
  <2>4. CASE CmFail
    BY <1>1, <2>1, <2>4 DEF CmFail
  <2>5. CASE CmRestart
    <3>1. cmStore' = [n \in CmNames |-> NoConfigMap] /\ records' = ImageRecords /\
            cmFaults' = cmFaults
      BY <2>5 DEF CmRestart
    <3>2. CmWanted' = [r \in Records |-> {ImageRecords[r]}]
      BY <3>1, StartIsInitial, WantedIs
    <3>3. CmTable' = [r \in Records |-> {ImageRecords[r]}]
      BY <3>1 DEF CmTable, Records
    <3> QED BY <3>1, <3>2, <3>3 DEF CmPromise!Next, CmPromise!Reset, Records
  <2>6. CASE UNCHANGED cmVars
    BY <2>6, WantedIs DEF cmVars, CmTable, CmPromise!lookupVars
  <2> QED BY <2>2, <2>3, <2>4, <2>5, <2>6 DEF CmNext
<1> QED BY <1>3, <1>4

(* The handler implements the safety part of LookupTable for all           *)
(* ConfigMaps of which no two marked ones name a record                    *)
(* (handlerConfigmap.go:32-73): one traffic_ctl changes one record, only  *)
(* to what the ConfigMap that names it gives, and every record that one    *)
(* names has its value before the next change.                             *)
THEOREM CmImplementsTable ==
    ASSUME CmOrderly(ConfigMaps)
    PROVE  CmSpec => CmPromise!SafeSpec
<1>1. CmInit => CmPromise!Init
  <2> SUFFICES ASSUME CmInit
               PROVE  CmPromise!Init
    OBVIOUS
  <2>1. cmStore = [n \in CmNames |-> NoConfigMap] /\ records = ImageRecords /\ cmFaults = 0
    BY DEF CmInit
  <2>2. CmWanted = [r \in Records |-> {ImageRecords[r]}]
    BY <2>1, StartIsInitial, WantedIs
  <2> QED BY <2>1, <2>2 DEF CmPromise!Init, CmTable, Records
<1>2. CmFaithful /\ CmFaithful' /\ [CmNext]_cmVars => [CmPromise!Next]_(CmPromise!lookupVars)
  BY CmStepIsPromised
<1> QED BY <1>1, <1>2, FaithfulAlways, PTL DEF CmSpec, CmPromise!SafeSpec

-----------------------------------------------------------------------------
(***************************************************************************)
(* SniHandler.                                                             *)
(***************************************************************************)

-----------------------------------------------------------------------------
(* What the operators of SniHandler do to a file. *)

(* What goes in for the entries of a policy. *)
LastEntries(sni) == {sni[EntryOf(sni, f)] : f \in Fqdns(sni)}

OtherEntries(file, sni) == {e \in Elements(file) : e.fqdn \notin Fqdns(sni)}

(* The first entry with an fqdn. *)
LEMMA FirstMatch ==
    ASSUME NEW E, NEW file \in Seq(E), NEW e
    PROVE  LET i == SelectInSeq(file, LAMBDA f : f.fqdn = e.fqdn)
           IN  \/ i = 0 /\ \A j \in 1..Len(file) : file[j].fqdn # e.fqdn
               \/ i \in 1..Len(file) /\ file[i].fqdn = e.fqdn
<1> DEFINE T == {i \in 1..Len(file) : file[i].fqdn = e.fqdn}
           i == SelectInSeq(file, LAMBDA f : f.fqdn = e.fqdn)
<1>1. i = IF T # {} THEN Min(T) ELSE 0
  BY DEF SelectInSeq
<1>2. CASE T = {}
  BY <1>1, <1>2
<1>3. CASE T # {}
  <2>1. \E x \in T : \A y \in T : x <= y
    <3>1. T \in SUBSET Nat
      OBVIOUS
    <3> HIDE DEF T
    <3> QED BY <1>3, <3>1, Least
  <2> HIDE DEF T
  <2>2. Min(T) \in T
    BY <2>1 DEF Min
  <2>3. i \in T
    BY <1>1, <1>3, <2>2
  <2> QED BY <2>3 DEF T
<1> QED BY <1>2, <1>3

(* The last entry of a policy with an fqdn it names. *)
LEMMA LastMatch ==
    ASSUME NEW E, NEW sni \in Seq(E), NEW f \in Fqdns(sni)
    PROVE  /\ EntryOf(sni, f) \in 1..Len(sni)
           /\ sni[EntryOf(sni, f)].fqdn = f
           /\ \A j \in (EntryOf(sni, f) + 1)..Len(sni) : sni[j].fqdn # f
<1> DEFINE T == {i \in 1..Len(sni) : sni[i].fqdn = f}
           n == Len(sni)
           U == {n - i : i \in T}
<1>1. EntryOf(sni, f) = IF T # {} THEN Max(T) ELSE 0
  BY DEF EntryOf, SelectLastInSeq
<1>2. T # {} /\ T \subseteq 1..n /\ n \in Nat
  BY DEF Fqdns
<1>3. \E x \in T : \A y \in T : x >= y
  <2> HIDE DEF T, n
  <2>1. U \in SUBSET Nat /\ U # {}
    <3>1. \A i \in T : n - i \in Nat
      BY <1>2
    <3>2. \E i \in T : TRUE
      BY <1>2
    <3> QED BY <3>1, <3>2
  <2>2. PICK u \in U : \A v \in U : u <= v
    <3> HIDE DEF U
    <3> QED BY <2>1, Least
  <2>3. PICK x \in T : u = n - x
    BY <2>2
  <2>4. ASSUME NEW y \in T PROVE x >= y
    <3>1. n - y \in U
      BY <2>4
    <3>2. n - x <= n - y
      BY <2>2, <2>3, <3>1
    <3> QED BY <1>2, <3>2
  <2> QED BY <2>4
<1> HIDE DEF T, n
<1>4. Max(T) \in T /\ \A y \in T : Max(T) >= y
  BY <1>3 DEF Max
<1>5. EntryOf(sni, f) \in T /\ \A y \in T : EntryOf(sni, f) >= y
  BY <1>1, <1>2, <1>4
<1>6. ASSUME NEW j \in (EntryOf(sni, f) + 1)..Len(sni)
      PROVE  sni[j].fqdn # f
  <2> DEFINE m == EntryOf(sni, f)
  <2>1. m \in 1..Len(sni) /\ \A y \in T : m >= y
    BY <1>2, <1>5 DEF n
  <2>2. j \in (m + 1)..Len(sni)
    OBVIOUS
  <2> HIDE DEF m
  <2>3. j \notin T /\ j \in 1..Len(sni)
    BY <1>2, <2>1, <2>2
  <2> QED BY <2>3 DEF T
<1> QED BY <1>5, <1>6 DEF T

(* Put replaces or adds one entry. *)
LEMMA PutFacts ==
    ASSUME NEW E, NEW file \in Seq(E), NEW e \in E
    PROVE  /\ Put(file, e) \in Seq(E)
           /\ OneEach(file) /\ e.fqdn # NoFqdn =>
                /\ OneEach(Put(file, e))
                /\ Elements(Put(file, e)) = {x \in Elements(file) : x.fqdn # e.fqdn} \cup {e}
<1> DEFINE i == SelectInSeq(file, LAMBDA f : f.fqdn = e.fqdn)
           n == Len(file)
<1>1. n \in Nat /\ DOMAIN file = 1..n /\ \A j \in 1..n : file[j] \in E
  OBVIOUS
<1>2. \/ i = 0 /\ \A j \in 1..n : file[j].fqdn # e.fqdn
      \/ i \in 1..n /\ file[i].fqdn = e.fqdn
  BY FirstMatch
<1>3. Put(file, e) = IF i = 0 THEN Append(file, e) ELSE [file EXCEPT ![i] = e]
  BY DEF Put
<1> HIDE DEF i
<1>4. CASE i = 0
  <2> DEFINE put == Append(file, e)
  <2>1. /\ put \in Seq(E) /\ DOMAIN put = 1..(n + 1) /\ put[n + 1] = e
        /\ \A j \in 1..n : put[j] = file[j]
    OBVIOUS
  <2> HIDE DEF put, n
  <2>2. \A j \in 1..(n + 1) : j \in 1..n \/ j = n + 1
    BY <1>1
  <2>3. \A j \in 1..n : file[j].fqdn # e.fqdn
    BY <1>1, <1>2, <1>4
  <2>4. ASSUME OneEach(file), e.fqdn # NoFqdn
        PROVE  OneEach(put)
    <3> SUFFICES ASSUME NEW a \in 1..(n + 1), NEW b \in 1..(n + 1), a # b
                 PROVE  put[a].fqdn # put[b].fqdn \/ put[a].fqdn = NoFqdn
      BY <2>1 DEF OneEach
    <3>1. CASE a \in 1..n /\ b \in 1..n
      BY <1>1, <2>1, <2>4, <3>1 DEF OneEach
    <3>2. CASE a = n + 1 /\ b \in 1..n
      BY <2>1, <2>3, <3>2
    <3>3. CASE a \in 1..n /\ b = n + 1
      BY <2>1, <2>3, <3>3
    <3> QED BY <2>2, <3>1, <3>2, <3>3
  <2>5. Elements(put) = {x \in Elements(file) : x.fqdn # e.fqdn} \cup {e}
    <3>1. \A x : x \in Elements(put) <=> \E j \in 1..(n + 1) : x = put[j]
      BY <2>1 DEF Elements
    <3>2. \A x : x \in Elements(file) <=> \E j \in 1..n : x = file[j]
      BY <1>1 DEF Elements
    <3>3. n + 1 \in 1..(n + 1) /\ 1..n \subseteq 1..(n + 1)
      BY <1>1
    <3> QED BY <2>1, <2>2, <2>3, <3>1, <3>2, <3>3
  <2>6. Put(file, e) = put
    BY <1>3, <1>4 DEF put
  <2> QED BY <2>1, <2>4, <2>5, <2>6
<1>5. CASE i \in 1..n
  <2> DEFINE put == [file EXCEPT ![i] = e]
  <2>1. /\ put \in Seq(E) /\ DOMAIN put = 1..n /\ put[i] = e
        /\ \A j \in 1..n : j # i => put[j] = file[j]
    BY <1>1, <1>5
  <2>2. file[i].fqdn = e.fqdn /\ i # 0
    BY <1>2, <1>5
  <2>3. Put(file, e) = put
    BY <1>3, <2>2
  <2> HIDE DEF put, n
  <2>4. \A j \in 1..n : put[j].fqdn = file[j].fqdn
    BY <2>1, <2>2
  <2>5. OneEach(file) => OneEach(put)
    BY <1>1, <2>1, <2>4 DEF OneEach
  <2>6. ASSUME OneEach(file), e.fqdn # NoFqdn
        PROVE  Elements(put) = {x \in Elements(file) : x.fqdn # e.fqdn} \cup {e}
    <3>1. \A j \in 1..n : j # i => file[j].fqdn # e.fqdn
      BY <1>1, <1>5, <2>2, <2>6 DEF OneEach
    <3>2. \A x : x \in Elements(put) <=> \E j \in 1..n : x = put[j]
      BY <2>1 DEF Elements
    <3>3. \A x : x \in Elements(file) <=> \E j \in 1..n : x = file[j]
      BY <1>1 DEF Elements
    <3> QED BY <1>5, <2>1, <2>2, <3>1, <3>2, <3>3
  <2> QED BY <2>1, <2>3, <2>5, <2>6
<1> QED BY <1>2, <1>4, <1>5

(* The entries of a policy up to the i-th that have the last word. *)
LastUpTo(sni, i) ==
    {sni[j] : j \in {j \in 1..i : sni[j].fqdn # NoFqdn
                                    /\ \A k \in (j + 1)..i : sni[k].fqdn # sni[j].fqdn}}

LEMMA LastIsAsked ==
    ASSUME NEW E, NEW sni \in Seq(E)
    PROVE  LastUpTo(sni, Len(sni)) = LastEntries(sni)
<1> DEFINE n == Len(sni)
<1>1. n \in Nat /\ DOMAIN sni = 1..n
  OBVIOUS
<1>2. \A f \in Fqdns(sni) : /\ EntryOf(sni, f) \in 1..n /\ sni[EntryOf(sni, f)].fqdn = f
                            /\ \A j \in (EntryOf(sni, f) + 1)..n : sni[j].fqdn # f
  BY LastMatch
<1>3. \A f \in Fqdns(sni) : f # NoFqdn
  BY DEF Fqdns
<1>4. LastEntries(sni) \subseteq LastUpTo(sni, n)
  <2> SUFFICES ASSUME NEW f \in Fqdns(sni)
               PROVE  sni[EntryOf(sni, f)] \in LastUpTo(sni, n)
    BY DEF LastEntries
  <2> DEFINE m == EntryOf(sni, f)
  <2>1. m \in 1..n /\ sni[m].fqdn # NoFqdn /\ \A k \in (m + 1)..n : sni[k].fqdn # sni[m].fqdn
    BY <1>2, <1>3
  <2> HIDE DEF m, n
  <2> QED BY <2>1 DEF LastUpTo, m
<1>5. LastUpTo(sni, n) \subseteq LastEntries(sni)
  <2> SUFFICES ASSUME NEW j \in 1..n, sni[j].fqdn # NoFqdn,
                      \A k \in (j + 1)..n : sni[k].fqdn # sni[j].fqdn
               PROVE  sni[j] \in LastEntries(sni)
    BY DEF LastUpTo
  <2> DEFINE m == EntryOf(sni, sni[j].fqdn)
  <2>1. sni[j].fqdn \in Fqdns(sni)
    BY <1>1 DEF Fqdns
  <2>2. m \in 1..n /\ sni[m].fqdn = sni[j].fqdn /\ \A k \in (m + 1)..n : sni[k].fqdn # sni[j].fqdn
    BY <1>2, <2>1
  <2> HIDE DEF m, n
  <2>3. ~(m > j) /\ ~(j > m)
    BY <1>1, <2>2
  <2>4. m = j
    BY <2>2, <2>3
  <2> QED BY <2>1, <2>4 DEF LastEntries, m
<1> QED BY <1>4, <1>5

(* The next entry has the last word on its fqdn. *)
LEMMA LastNext ==
    ASSUME NEW sni, NEW i \in Nat \ {0}
    PROVE  /\ LastUpTo(sni, 0) = {}
           /\ sni[i].fqdn = NoFqdn => LastUpTo(sni, i) = LastUpTo(sni, i - 1)
           /\ sni[i].fqdn # NoFqdn =>
                LastUpTo(sni, i) = {x \in LastUpTo(sni, i - 1) : x.fqdn # sni[i].fqdn} \cup {sni[i]}
<1> DEFINE Lasts(m) == {j \in 1..m : sni[j].fqdn # NoFqdn
                                     /\ \A k \in (j + 1)..m : sni[k].fqdn # sni[j].fqdn}
           e == sni[i]
<1>1. \A m : LastUpTo(sni, m) = {sni[j] : j \in Lasts(m)}
  BY DEF LastUpTo
<1>2. Lasts(0) = {}
  OBVIOUS
<1>3. \A j \in 1..(i - 1) : /\ j \in 1..i /\ j # i
                            /\ (j + 1)..i = ((j + 1)..(i - 1)) \cup {i}
  OBVIOUS
<1>4. i \in 1..i /\ (i + 1)..i = {} /\ \A j \in 1..i : j = i \/ j \in 1..(i - 1)
  OBVIOUS
<1>5. \A j : j \in Lasts(i) <=>
                \/ j = i /\ e.fqdn # NoFqdn
                \/ j \in Lasts(i - 1) /\ sni[j].fqdn # e.fqdn
  BY <1>3, <1>4
<1>6. \A j \in Lasts(i - 1) : sni[j].fqdn # NoFqdn
  OBVIOUS
<1> HIDE DEF Lasts
<1>7. LastUpTo(sni, 0) = {}
  BY <1>1, <1>2
<1>8. ASSUME e.fqdn = NoFqdn
      PROVE  LastUpTo(sni, i) = LastUpTo(sni, i - 1)
  <2>1. Lasts(i) = Lasts(i - 1)
    BY <1>5, <1>6, <1>8
  <2> QED BY <1>1, <2>1
<1>9. ASSUME e.fqdn # NoFqdn
      PROVE  LastUpTo(sni, i) = {x \in LastUpTo(sni, i - 1) : x.fqdn # e.fqdn} \cup {e}
  <2>1. \A x : x \in LastUpTo(sni, i) <=> \E j \in Lasts(i) : x = sni[j]
    BY <1>1
  <2>2. \A x : x \in LastUpTo(sni, i - 1) <=> \E j \in Lasts(i - 1) : x = sni[j]
    BY <1>1
  <2>3. \A j : j \in Lasts(i) <=> j = i \/ (j \in Lasts(i - 1) /\ sni[j].fqdn # e.fqdn)
    BY <1>5, <1>9
  <2>4. ASSUME NEW x
        PROVE  x \in LastUpTo(sni, i) <=> x = e \/ (x \in LastUpTo(sni, i - 1) /\ x.fqdn # e.fqdn)
    BY <2>1, <2>2, <2>3
  <2> QED BY <2>4
<1> QED BY <1>7, <1>8, <1>9

(* Add leaves the other entries and has those of the policy. *)
LEMMA SniAddFacts ==
    ASSUME NEW E, NEW file \in Seq(E), NEW sni \in Seq(E)
    PROVE  /\ SniAdd(file, sni) \in Seq(E)
           /\ OneEach(file) =>
                /\ OneEach(SniAdd(file, sni))
                /\ Elements(SniAdd(file, sni)) = OtherEntries(file, sni) \cup LastEntries(sni)
<1> DEFINE n == Len(sni)
           V == Seq(E)
           After(e, f) == IF e.fqdn = NoFqdn THEN f ELSE Put(f, e)
           step == [i \in 1..n |-> [f \in V |-> After(sni[i], f)]]
           added == CHOOSE w : w = [i \in 0..n |-> IF i = 0 THEN file ELSE After(sni[i], w[i - 1])]
<1>1. n \in Nat /\ DOMAIN sni = 1..n /\ (\A i \in 1..n : sni[i] \in E) /\ file \in V
  OBVIOUS
<1>2. \A e \in E : \A f \in V : After(e, f) \in V
  BY PutFacts
<1>3. step \in [1..n -> [V -> V]]
  <2> HIDE DEF V, After, n
  <2> QED BY <1>1, <1>2
<1>4. SniAdd(file, sni) = added[n]
  BY DEF SniAdd
<1>5. /\ added \in [0..n -> V] /\ added[0] = file
      /\ \A i \in 1..n : added[i] = After(sni[i], added[i - 1])
  <2> HIDE DEF V, After, n, step
  <2>1. PICK f \in [0..n -> V] : f[0] = file /\ \A i \in 1..n : f[i] = step[i][f[i - 1]]
    <3>1. \E f : Passes(f, n, V, file, step)
      BY <1>1, <1>3, LoopExists
    <3> QED BY <3>1 DEF Passes
  <2>2. \A i \in 1..n : \A v \in V : step[i][v] = After(sni[i], v)
    BY DEF step
  <2>3. \A i \in 1..n : f[i - 1] \in V
    BY <1>1, <2>1
  <2>4. f = [i \in 0..n |-> IF i = 0 THEN file ELSE After(sni[i], f[i - 1])]
    <3>1. \A i \in 1..n : f[i] = After(sni[i], f[i - 1])
      BY <2>1, <2>2, <2>3
    <3>2. 0 \in 0..n /\ \A i \in 0..n : i # 0 => i \in 1..n
      BY <1>1
    <3> QED BY <2>1, <3>1, <3>2
  <2>5. added = [i \in 0..n |-> IF i = 0 THEN file ELSE After(sni[i], added[i - 1])]
    BY <2>4
  <2> HIDE DEF added
  <2>6. DOMAIN added = 0..n /\ added[0] = file /\
          \A i \in 1..n : added[i] = After(sni[i], added[i - 1])
    BY <1>1, <2>5
  <2> DEFINE T == {i \in 0..n : added[i] \in V}
  <2>7. 0 \in T /\ \A i \in 1..n : i - 1 \in T => i \in T
    BY <1>1, <1>2, <2>6
  <2>8. \A k \in 0..n : k \in T
    <3> SUFFICES ASSUME NEW k \in 0..n PROVE k \in T
      OBVIOUS
    <3>1. k \in Nat /\ \A i \in 1..k : i \in 1..n
      BY <1>1
    <3> HIDE DEF T
    <3> QED BY <2>7, <3>1, LoopInduction
  <2> QED BY <2>5, <2>6, <2>8
<1> HIDE DEF added
<1>6. SniAdd(file, sni) \in V
  BY <1>1, <1>4, <1>5
<1>7. ASSUME OneEach(file)
      PROVE  /\ OneEach(added[n])
             /\ Elements(added[n]) = OtherEntries(file, sni) \cup LastUpTo(sni, n)
  <2> DEFINE Before(i) == {sni[j].fqdn : j \in 1..i} \ {NoFqdn}
             Outcome(i) == {x \in Elements(file) : x.fqdn \notin Before(i)} \cup LastUpTo(sni, i)
             T == {i \in 0..n : OneEach(added[i]) /\ Elements(added[i]) = Outcome(i)}
  <2>1. 0 \in T
    <3>1. Before(0) = {} /\ LastUpTo(sni, 0) = {}
      BY LastNext
    <3>2. Outcome(0) = Elements(file)
      BY <3>1
    <3> QED BY <1>1, <1>5, <1>7, <3>2
  <2>2. ASSUME NEW i \in 1..n, i - 1 \in T
        PROVE  i \in T
    <3> DEFINE e == sni[i]
    <3>1. e \in E /\ added[i - 1] \in V /\ added[i] = After(e, added[i - 1]) /\ i \in Nat \ {0}
      <4>1. i - 1 \in 0..n /\ i \in Nat \ {0}
        BY <1>1
      <4> HIDE DEF V, After, n
      <4> QED BY <1>1, <1>5, <4>1
    <3>2. OneEach(added[i - 1]) /\ Elements(added[i - 1]) = Outcome(i - 1)
      BY <2>2
    <3>3. \A j : j \in 1..i <=> j = i \/ j \in 1..(i - 1)
      BY <3>1
    <3>4. Before(i) = (Before(i - 1) \cup {e.fqdn}) \ {NoFqdn}
      BY <3>3
    <3>5. CASE e.fqdn = NoFqdn
      <4>1. Before(i) = Before(i - 1)
        BY <3>4, <3>5
      <4>2. LastUpTo(sni, i) = LastUpTo(sni, i - 1)
        BY <3>1, <3>5, LastNext
      <4>3. added[i] = added[i - 1]
        BY <3>1, <3>5
      <4> HIDE DEF Before
      <4> QED BY <3>1, <3>2, <4>1, <4>2, <4>3
    <3>6. CASE e.fqdn # NoFqdn
      <4>1. LastUpTo(sni, i) = {x \in LastUpTo(sni, i - 1) : x.fqdn # e.fqdn} \cup {e}
        BY <3>1, <3>6, LastNext
      <4>2. added[i] = Put(added[i - 1], e)
        BY <3>1, <3>6
      <4>3. /\ OneEach(added[i])
            /\ Elements(added[i]) = {x \in Outcome(i - 1) : x.fqdn # e.fqdn} \cup {e}
        <5> HIDE DEF Outcome, V, n, e
        <5>1. added[i - 1] \in Seq(E)
          BY <3>1 DEF V
        <5> QED BY <3>1, <3>2, <3>6, <4>2, <5>1, PutFacts
      <4>4. Before(i) = Before(i - 1) \cup {e.fqdn}
        BY <3>4, <3>6
      <4> HIDE DEF Before
      <4>5. {x \in Outcome(i - 1) : x.fqdn # e.fqdn} \cup {e} = Outcome(i)
        BY <4>1, <4>4
      <4> QED BY <3>1, <4>3, <4>5
    <3> QED BY <3>5, <3>6
  <2>3. n \in T
    <3> HIDE DEF T
    <3> QED BY <1>1, <2>1, <2>2, LoopInduction
  <2>4. Before(n) = Fqdns(sni)
    BY <1>1 DEF Fqdns
  <2> HIDE DEF Before
  <2>5. Outcome(n) = OtherEntries(file, sni) \cup LastUpTo(sni, n)
    BY <2>4 DEF OtherEntries
  <2> QED BY <2>3, <2>5
<1>8. LastUpTo(sni, n) = LastEntries(sni)
  BY LastIsAsked
<1> QED BY <1>4, <1>6, <1>7, <1>8

(* Delete leaves the other entries, and nothing else. *)
LEMMA SniDeleteFacts ==
    ASSUME NEW E, NEW file \in Seq(E), NEW sni
    PROVE  /\ SniDelete(file, sni) \in Seq(E)
           /\ OneEach(file) => OneEach(SniDelete(file, sni))
           /\ Elements(SniDelete(file, sni)) = OtherEntries(file, sni)
<1> DEFINE n == Len(file)
           V == Seq(E)
           F == Fqdns(sni)
           After(e, f) == IF e.fqdn \in F THEN f ELSE Append(f, e)
           step == [i \in 1..n |-> [f \in V |-> After(file[i], f)]]
           kept == CHOOSE w : w = [i \in 0..n |-> IF i = 0 THEN <<>> ELSE After(file[i], w[i - 1])]
<1>1. n \in Nat /\ DOMAIN file = 1..n /\ (\A i \in 1..n : file[i] \in E) /\ <<>> \in V
  OBVIOUS
<1>2. \A e \in E : \A f \in V : After(e, f) \in V
  OBVIOUS
<1>3. step \in [1..n -> [V -> V]]
  <2> HIDE DEF V, After, n
  <2> QED BY <1>1, <1>2
<1>4. SniDelete(file, sni) = kept[n]
  BY DEF SniDelete
<1>5. /\ kept \in [0..n -> V] /\ kept[0] = <<>>
      /\ \A i \in 1..n : kept[i] = After(file[i], kept[i - 1])
  <2> HIDE DEF V, After, n, step
  <2>1. PICK f \in [0..n -> V] : f[0] = <<>> /\ \A i \in 1..n : f[i] = step[i][f[i - 1]]
    <3>1. \E f : Passes(f, n, V, <<>>, step)
      BY <1>1, <1>3, LoopExists
    <3> QED BY <3>1 DEF Passes
  <2>2. \A i \in 1..n : \A v \in V : step[i][v] = After(file[i], v)
    BY DEF step
  <2>3. \A i \in 1..n : f[i - 1] \in V
    BY <1>1, <2>1
  <2>4. f = [i \in 0..n |-> IF i = 0 THEN <<>> ELSE After(file[i], f[i - 1])]
    <3>1. \A i \in 1..n : f[i] = After(file[i], f[i - 1])
      BY <2>1, <2>2, <2>3
    <3>2. 0 \in 0..n /\ \A i \in 0..n : i # 0 => i \in 1..n
      BY <1>1
    <3> QED BY <2>1, <3>1, <3>2
  <2>5. kept = [i \in 0..n |-> IF i = 0 THEN <<>> ELSE After(file[i], kept[i - 1])]
    BY <2>4
  <2> HIDE DEF kept
  <2>6. DOMAIN kept = 0..n /\ kept[0] = <<>> /\
          \A i \in 1..n : kept[i] = After(file[i], kept[i - 1])
    BY <1>1, <2>5
  <2> DEFINE T == {i \in 0..n : kept[i] \in V}
  <2>7. 0 \in T /\ \A i \in 1..n : i - 1 \in T => i \in T
    BY <1>1, <1>2, <2>6
  <2>8. \A k \in 0..n : k \in T
    <3> SUFFICES ASSUME NEW k \in 0..n PROVE k \in T
      OBVIOUS
    <3>1. k \in Nat /\ \A i \in 1..k : i \in 1..n
      BY <1>1
    <3> HIDE DEF T
    <3> QED BY <2>7, <3>1, LoopInduction
  <2> QED BY <2>5, <2>6, <2>8
<1> HIDE DEF kept
<1>6. SniDelete(file, sni) \in V
  BY <1>1, <1>4, <1>5
<1> DEFINE Rest(i) == {file[j] : j \in {j \in 1..i : file[j].fqdn \notin F}}
           T == {i \in 0..n : /\ Elements(kept[i]) = Rest(i)
                              /\ OneEach(file) => OneEach(kept[i])}
<1>7. 0 \in T
  <2>1. Rest(0) = {} /\ Elements(<<>>) = {} /\ OneEach(<<>>)
    BY DEF Elements, OneEach
  <2>2. kept[0] = <<>> /\ 0 \in 0..n
    BY <1>1, <1>5
  <2> HIDE DEF Rest, n, V, After
  <2> QED BY <2>1, <2>2
<1>8. ASSUME NEW i \in 1..n, i - 1 \in T
      PROVE  i \in T
  <2> DEFINE e == file[i]
             old == kept[i - 1]
  <2>1. e \in E /\ old \in Seq(E) /\ kept[i] = After(e, old) /\ i \in Nat \ {0}
    <3>1. i - 1 \in 0..n /\ i \in Nat \ {0}
      BY <1>1
    <3> HIDE DEF After, n
    <3> QED BY <1>1, <1>5, <3>1
  <2>2. Elements(old) = Rest(i - 1) /\ (OneEach(file) => OneEach(old))
    BY <1>8
  <2>3. \A j : j \in 1..i <=> j = i \/ j \in 1..(i - 1)
    BY <2>1
  <2>4. CASE e.fqdn \in F
    <3>1. Rest(i) = Rest(i - 1)
      BY <2>3, <2>4
    <3>2. kept[i] = old
      BY <2>1, <2>4
    <3> HIDE DEF Rest, old
    <3> QED BY <2>2, <3>1, <3>2
  <2>5. CASE e.fqdn \notin F
    <3>1. Rest(i) = Rest(i - 1) \cup {e}
      BY <2>3, <2>5
    <3>2. kept[i] = Append(old, e)
      BY <2>1, <2>5
    <3> HIDE DEF old, e
    <3> DEFINE m == Len(old)
               new == Append(old, e)
    <3>3. /\ m \in Nat /\ DOMAIN old = 1..m /\ DOMAIN new = 1..(m + 1) /\ new[m + 1] = e
          /\ \A j \in 1..m : new[j] = old[j]
      BY <2>1
    <3> HIDE DEF new, m
    <3>4. \A j : j \in 1..(m + 1) <=> j = m + 1 \/ j \in 1..m
      BY <3>3
    <3>5. Elements(new) = Elements(old) \cup {e}
      BY <3>3, <3>4 DEF Elements
    <3>6. ASSUME OneEach(file)
          PROVE  OneEach(new)
      <4>1. \A x \in Rest(i - 1) : x.fqdn # e.fqdn \/ e.fqdn = NoFqdn
        <5>1. \A j \in 1..(i - 1) : j \in DOMAIN file /\ i \in DOMAIN file /\ j # i
          BY <1>1, <2>1
        <5> QED BY <3>6, <5>1 DEF OneEach, e
      <4>2. \A j \in 1..m : old[j] \in Rest(i - 1)
        <5>1. \A j \in 1..m : old[j] \in Elements(old)
          BY <3>3 DEF Elements
        <5> HIDE DEF Rest
        <5> QED BY <2>2, <5>1 DEF old
      <4>3. OneEach(old)
        BY <2>2, <3>6 DEF old
      <4> HIDE DEF Rest
      <4> SUFFICES ASSUME NEW a \in 1..(m + 1), NEW b \in 1..(m + 1), a # b
                   PROVE  new[a].fqdn # new[b].fqdn \/ new[a].fqdn = NoFqdn
        BY <3>3 DEF OneEach
      <4>4. CASE a \in 1..m /\ b \in 1..m
        BY <3>3, <4>3, <4>4 DEF OneEach
      <4>5. CASE a = m + 1 /\ b \in 1..m
        BY <3>3, <4>1, <4>2, <4>5
      <4>6. CASE a \in 1..m /\ b = m + 1
        BY <3>3, <4>1, <4>2, <4>6
      <4> QED BY <3>4, <4>4, <4>5, <4>6
    <3>7. kept[i] = new /\ Elements(old) = Rest(i - 1) /\ i \in 0..n
      BY <1>1, <2>2, <3>2 DEF new
    <3> HIDE DEF Rest, n, V, After, F
    <3>8. Elements(kept[i]) = Rest(i) /\ (OneEach(file) => OneEach(kept[i]))
      BY <3>1, <3>5, <3>6, <3>7
    <3> QED BY <3>7, <3>8
  <2> QED BY <2>4, <2>5
<1>9. n \in T
  <2> HIDE DEF T
  <2> QED BY <1>1, <1>7, <1>8, LoopInduction
<1>10. Rest(n) = OtherEntries(file, sni)
  BY <1>1 DEF OtherEntries, Elements
<1> HIDE DEF Rest
<1> QED BY <1>4, <1>6, <1>9, <1>10

(* Update does so too, with the entries of the policy in their places. *)
LEMMA SniUpdateFacts ==
    ASSUME NEW E, NEW file \in Seq(E), NEW sni \in Seq(E),
           NEW order \in SetToSeqs(Fqdns(sni) \ Fqdns(file))
    PROVE  /\ SniUpdate(file, sni, order) \in Seq(E)
           /\ OneEach(file) => OneEach(SniUpdate(file, sni, order))
           /\ Elements(SniUpdate(file, sni, order)) = OtherEntries(file, sni) \cup LastEntries(sni)
<1> DEFINE n == Len(file)
           F == Fqdns(sni)
           New == F \ Fqdns(file)
           m == Len(order)
           At(f) == sni[EntryOf(sni, f)]
           a == [i \in DOMAIN file |-> IF file[i].fqdn \in F THEN At(file[i].fqdn) ELSE file[i]]
           b == [i \in DOMAIN order |-> At(order[i])]
           new == SniUpdate(file, sni, order)
<1>1. n \in Nat /\ DOMAIN file = 1..n /\ \A i \in 1..n : file[i] \in E
  OBVIOUS
<1>2. \A f \in F : At(f) \in E /\ At(f).fqdn = f /\ f # NoFqdn
  <2>1. \A f \in F : EntryOf(sni, f) \in 1..Len(sni) /\ At(f).fqdn = f
    BY LastMatch
  <2>2. \A f \in F : f # NoFqdn
    BY DEF Fqdns
  <2> QED BY <2>1, <2>2
<1>3. /\ order \in Seq(New) /\ m \in Nat /\ DOMAIN order = 1..m /\ \A i \in 1..m : order[i] \in New
      /\ \A i, j \in 1..m : i # j => order[i] # order[j]
      /\ \A f \in New : \E i \in 1..m : order[i] = f
  <2>1. IsFiniteSet(New)
    <3>1. DOMAIN sni = 1..Len(sni) /\ Len(sni) \in Nat
      OBVIOUS
    <3> DEFINE G == {sni[i].fqdn : i \in 1..Len(sni)}
               g == [i \in 1..Len(sni) |-> sni[i].fqdn]
    <3>2. /\ \A i \in 1..Len(sni) : g[i] \in G
          /\ \A x \in G : \E i \in 1..Len(sni) : g[i] = x
      OBVIOUS
    <3>3. IsFiniteSet(G)
      <4> HIDE DEF g, G
      <4> QED BY <3>1, <3>2, ImageFinite
    <3>4. New \in SUBSET G
      BY <3>1 DEF Fqdns
    <3> HIDE DEF G, New
    <3> QED BY <3>3, <3>4, FS_Subset
  <2> HIDE DEF New
  <2>2. order \in SetToSeqs(New)
    BY DEF New
  <2>3. /\ order \in Seq(New)
        /\ \A i, j \in 1..m : i # j => order[i] # order[j]
        /\ \A f \in New : \E i \in 1..m : order[i] = f
    BY <2>1, <2>2, OrderIs
  <2> QED BY <2>3
<1>4. /\ a \in Seq(E) /\ Len(a) = n /\ DOMAIN a = 1..n
      /\ \A i \in 1..n : a[i] = IF file[i].fqdn \in F THEN At(file[i].fqdn) ELSE file[i]
  <2> HIDE DEF F, At
  <2>1. a \in [1..n -> E]
    BY <1>1, <1>2
  <2> HIDE DEF n
  <2> QED BY <1>1, <2>1
<1>5. b \in Seq(E) /\ Len(b) = m /\ DOMAIN b = 1..m /\ \A i \in 1..m : b[i] = At(order[i])
  <2>1. New \subseteq F
    OBVIOUS
  <2> HIDE DEF F, At, New
  <2>2. b \in [1..m -> E]
    BY <1>2, <1>3, <2>1
  <2> HIDE DEF m
  <2> QED BY <1>3, <2>2
<1>6. new = a \o b
  BY DEF SniUpdate
<1>7. \A i \in 1..n : a[i].fqdn = file[i].fqdn
  <2> HIDE DEF F, At, a
  <2> QED BY <1>2, <1>4
<1>8. \A i \in 1..m : b[i].fqdn = order[i] /\ order[i] \in F /\ order[i] \notin Fqdns(file)
  <2>1. \A f \in New : f \in F /\ f \notin Fqdns(file)
    OBVIOUS
  <2> HIDE DEF F, At, b, New
  <2> QED BY <1>2, <1>3, <1>5, <2>1
<1>9. \A i \in 1..n : file[i].fqdn # NoFqdn => file[i].fqdn \in Fqdns(file)
  BY <1>1 DEF Fqdns
<1>10. /\ new \in Seq(E) /\ DOMAIN new = 1..(n + m)
       /\ \A i \in 1..n : new[i] = a[i]
       /\ \A i \in 1..m : new[n + i] = b[i]
  <2> HIDE DEF a, b, new
  <2>1. a \o b \in Seq(E) /\ Len(a \o b) = Len(a) + Len(b)
        /\ (\A i \in 1..Len(a) : (a \o b)[i] = a[i])
        /\ (\A i \in 1..Len(b) : (a \o b)[Len(a) + i] = b[i])
    <3>1. a \in Seq(E) /\ b \in Seq(E)
      BY <1>4, <1>5
    <3> QED BY <3>1
  <2> HIDE DEF n, m
  <2> QED BY <1>4, <1>5, <1>6, <2>1
<1> HIDE DEF a, b, new, n, m
<1>11. \A x \in 1..(n + m) : x \in 1..n \/ \E i \in 1..m : x = n + i
  <2> SUFFICES ASSUME NEW x \in 1..(n + m), x \notin 1..n
               PROVE  \E i \in 1..m : x = n + i
    OBVIOUS
  <2>1. x - n \in 1..m /\ x = n + (x - n)
    BY <1>1, <1>3
  <2> QED BY <2>1
<1>12. ASSUME OneEach(file)
       PROVE  OneEach(new)
  <2> SUFFICES ASSUME NEW x \in 1..(n + m), NEW y \in 1..(n + m), x # y
               PROVE  new[x].fqdn # new[y].fqdn \/ new[x].fqdn = NoFqdn
    BY <1>10 DEF OneEach
  <2>1. CASE x \in 1..n /\ y \in 1..n
    BY <1>1, <1>7, <1>10, <1>12, <2>1 DEF OneEach
  <2>2. ASSUME x \in 1..n, NEW j \in 1..m, y = n + j
        PROVE  new[x].fqdn # new[y].fqdn \/ new[x].fqdn = NoFqdn
    BY <1>7, <1>8, <1>9, <1>10, <2>2
  <2>3. ASSUME NEW i \in 1..m, x = n + i, y \in 1..n
        PROVE  new[x].fqdn # new[y].fqdn \/ new[x].fqdn = NoFqdn
    <3>1. order[i] # NoFqdn
      BY <1>2, <1>8
    <3> QED BY <1>7, <1>8, <1>9, <1>10, <2>3, <3>1
  <2>4. ASSUME NEW i \in 1..m, x = n + i, NEW j \in 1..m, y = n + j
        PROVE  new[x].fqdn # new[y].fqdn
    BY <1>3, <1>8, <1>10, <2>4
  <2> QED BY <1>11, <2>1, <2>2, <2>3, <2>4
<1>13. Elements(new) = OtherEntries(file, sni) \cup LastEntries(sni)
  <2>1. \A x : x \in Elements(new) <=> (\E i \in 1..n : x = a[i]) \/ (\E i \in 1..m : x = b[i])
    <3>1. \A x : x \in Elements(new) <=> \E i \in 1..(n + m) : x = new[i]
      BY <1>10 DEF Elements
    <3>2. \A i \in 1..n : i \in 1..(n + m)
      BY <1>1, <1>3
    <3>3. \A i \in 1..m : n + i \in 1..(n + m)
      BY <1>1, <1>3
    <3> QED BY <1>10, <1>11, <3>1, <3>2, <3>3
  <2>2. \A x : x \in OtherEntries(file, sni) <=> \E i \in 1..n : x = file[i] /\
          file[i].fqdn \notin F
    BY <1>1 DEF OtherEntries, Elements
  <2>3. \A x : x \in LastEntries(sni) <=> \E f \in F : x = At(f)
    BY DEF LastEntries
  <2>4. \A f \in F : f \in Fqdns(file) => \E i \in 1..n : file[i].fqdn = f
    BY <1>1 DEF Fqdns
  <2>5. \A f \in F : f \notin Fqdns(file) => \E i \in 1..m : order[i] = f
    BY <1>3
  <2> HIDE DEF F, At, New
  <2>6. ASSUME NEW x \in Elements(new)
        PROVE  x \in OtherEntries(file, sni) \cup LastEntries(sni)
    <3>1. CASE \E i \in 1..n : x = a[i]
      BY <1>4, <2>2, <2>3, <3>1
    <3>2. CASE \E i \in 1..m : x = b[i]
      BY <1>5, <1>8, <2>3, <3>2
    <3> QED BY <2>1, <2>6, <3>1, <3>2
  <2>7. ASSUME NEW x \in OtherEntries(file, sni)
        PROVE  x \in Elements(new)
    BY <1>4, <2>1, <2>2, <2>7
  <2>8. ASSUME NEW f \in F
        PROVE  At(f) \in Elements(new)
    <3>1. CASE f \in Fqdns(file)
      BY <1>4, <2>1, <2>4, <3>1
    <3>2. CASE f \notin Fqdns(file)
      BY <1>5, <2>1, <2>5, <3>2
    <3> QED BY <3>1, <3>2
  <2> QED BY <2>3, <2>6, <2>7, <2>8
<1> QED BY <1>10, <1>12, <1>13 DEF new

-----------------------------------------------------------------------------
(* What the handler's callbacks take and leave. *)

SniStores == [SniNames -> Policies \cup {NoPolicy}]

(* The informer files each policy under its name. *)
SniFiled(store) == \A n \in SniNames : store[n] # NoPolicy => store[n].name = n

EntriesOf(p) == IF p = NoPolicy THEN {} ELSE PolicyAsks(p)

EntriesAsked(store) == UNION {EntriesOf(store[n]) : n \in SniNames}

LEMMA EntriesAskedIs ==
    /\ Asked = EntriesAsked(sniStore)
    /\ Asked' = EntriesAsked(sniStore')
BY DEF Asked, EntriesAsked, EntriesOf, SniNames

(* The entries of policies and of the image. *)
LEMMA EntriesOfPolicies ==
    /\ ImageSni \in Seq(SniEntries) /\ Elements(ImageSni) \subseteq SniEntries
    /\ \A p \in Policies : p.sni # NoSni => p.sni \in Seq(SniEntries)
<1>1. \A p \in Policies : p.sni # NoSni => Elements(p.sni) \subseteq SniEntries
  BY DEF SniEntries
<1>2. Elements(ImageSni) \subseteq SniEntries
  BY DEF SniEntries
<1>3. \A S, T, s : S \subseteq T /\ s \in Seq(S) => s \in Seq(T)
  OBVIOUS
<1> QED BY <1>1, <1>2, <1>3, PoliciesAssumption

LEMMA EntriesType ==
    ASSUME NEW p \in Policies
    PROVE  /\ EntriesOf(p) \subseteq SniEntries
           /\ p.sni # NoSni => EntriesOf(p) = LastEntries(p.sni)
           /\ \A e \in EntriesOf(p) : e.fqdn \in FqdnsOf(p)
           /\ FqdnsOf(p) = {} => EntriesOf(p) = {}
<1>1. p # NoPolicy
  BY PoliciesAssumption
<1>2. CASE p.sni = NoSni
  BY <1>1, <1>2 DEF EntriesOf, PolicyAsks
<1>3. CASE p.sni # NoSni
  <2>1. p.sni \in Seq(SniEntries)
    BY <1>3, EntriesOfPolicies
  <2>2. EntriesOf(p) = LastEntries(p.sni) /\ FqdnsOf(p) = Fqdns(p.sni)
    BY <1>1, <1>3 DEF EntriesOf, PolicyAsks, LastEntries, FqdnsOf
  <2>3. \A f \in Fqdns(p.sni) : EntryOf(p.sni, f) \in 1..Len(p.sni) /\
          p.sni[EntryOf(p.sni, f)].fqdn = f
    BY <2>1, LastMatch
  <2>4. \A f \in Fqdns(p.sni) : p.sni[EntryOf(p.sni, f)] \in SniEntries
    BY <2>1, <2>3
  <2> QED BY <2>2, <2>3, <2>4 DEF LastEntries
<1> QED BY <1>2, <1>3

LEMMA EntriesAskedType ==
    ASSUME NEW store \in SniStores
    PROVE  EntriesAsked(store) \cup Elements(ImageSni) \in SUBSET SniEntries
<1>1. \A n \in SniNames : EntriesOf(store[n]) \subseteq SniEntries
  <2> SUFFICES ASSUME NEW n \in SniNames
               PROVE  EntriesOf(store[n]) \subseteq SniEntries
    OBVIOUS
  <2>1. store[n] \in Policies \/ store[n] = NoPolicy
    BY DEF SniStores
  <2>2. CASE store[n] \in Policies
    BY <2>2, EntriesType
  <2>3. CASE store[n] = NoPolicy
    BY <2>3 DEF EntriesOf
  <2> QED BY <2>1, <2>2, <2>3
<1> QED BY <1>1, EntriesOfPolicies DEF EntriesAsked

(* A callback about the policies of a name: it files p, and looks at q. *)
SniTakes(n, p, q) ==
    /\ sniStore' = [sniStore EXCEPT ![n] = p]
    /\ sniFile' = sniFile /\ atsSni' = atsSni
    /\ \/ /\ q.sni = NoSni
          /\ sniPhase' = sniPhase /\ sniNext' = sniNext /\ sniFaults' = sniFaults
       \/ /\ q.sni # NoSni
          /\ sniPhase' = "write"
          /\ \E file \in {sniFile, <<>>} :
                /\ Load(file)
                /\ sniNext' \in Seq(SniEntries)
                /\ OneEach(file) => /\ OneEach(sniNext')
                                    /\ Elements(sniNext') = OtherEntries(file, q.sni) \cup
                                          EntriesOf(p)

LEMMA SniEventTakes ==
    ASSUME SniTypeOK, SniFiled(sniStore), PolicyEvent
    PROVE  /\ SniIdle
           /\ \E n \in SniNames : \E q \in Policies : \E p \in {q, NoPolicy} :
                q.name = n /\ SniTakes(n, p, q)
<1>1. /\ sniFile \in Seq(SniEntries) /\ <<>> \in Seq(SniEntries)
      /\ \A n \in SniNames : sniStore[n] \in Policies \cup {NoPolicy}
  BY DEF SniTypeOK, SniNames
<1>2. \A file \in {sniFile, <<>>} : file \in Seq(SniEntries)
  BY <1>1
<1>3. ASSUME NEW q \in Policies, AddPolicy(q)
      PROVE  SniTakes(q.name, q, q)
  <2>1. CASE Returns(q.sni)
    BY <1>3, <2>1 DEF AddPolicy, Returns, SniTakes
  <2>2. CASE ~Returns(q.sni)
    <3>1. PICK file \in {sniFile, <<>>} : Load(file) /\ Goes(SniAdd(file, q.sni))
      BY <1>3, <2>2 DEF AddPolicy
    <3>2. q.sni # NoSni
      BY <1>3, <2>2 DEF AddPolicy
    <3>3. q.sni \in Seq(SniEntries) /\ file \in Seq(SniEntries) /\ EntriesOf(q) = LastEntries(q.sni)
      BY <1>2, <3>2, EntriesOfPolicies, EntriesType
    <3>4. sniPhase' = "write" /\ sniNext' = SniAdd(file, q.sni)
      BY <3>1 DEF Goes
    <3>5. /\ sniNext' \in Seq(SniEntries)
          /\ OneEach(file) => /\ OneEach(sniNext')
                              /\ Elements(sniNext') = OtherEntries(file, q.sni) \cup EntriesOf(q)
      BY <3>3, <3>4, SniAddFacts
    <3>6. /\ sniStore' = [sniStore EXCEPT ![q.name] = q]
          /\ sniFile' = sniFile /\ atsSni' = atsSni
      BY <1>3 DEF AddPolicy
    <3> QED BY <3>1, <3>2, <3>4, <3>5, <3>6 DEF SniTakes
  <2> QED BY <2>1, <2>2
<1>4. ASSUME NEW q \in Policies, UpdatePolicy(q)
      PROVE  SniTakes(q.name, q, q)
  <2>1. CASE Returns(q.sni)
    BY <1>4, <2>1 DEF UpdatePolicy, Returns, SniTakes
  <2>2. CASE ~Returns(q.sni)
    <3>1. PICK file \in {sniFile, <<>>} :
                /\ Load(file)
                /\ \E order \in SetToSeqs(Fqdns(q.sni) \ Fqdns(file)) :
                        Goes(SniUpdate(file, q.sni, order))
      BY <1>4, <2>2 DEF UpdatePolicy
    <3>2. q.sni # NoSni
      BY <1>4, <2>2 DEF UpdatePolicy
    <3>3. q.sni \in Seq(SniEntries) /\ file \in Seq(SniEntries) /\ EntriesOf(q) = LastEntries(q.sni)
      BY <1>2, <3>2, EntriesOfPolicies, EntriesType
    <3>4. PICK order \in SetToSeqs(Fqdns(q.sni) \ Fqdns(file)) :
                sniPhase' = "write" /\ sniNext' = SniUpdate(file, q.sni, order)
      BY <3>1 DEF Goes
    <3>5. /\ sniNext' \in Seq(SniEntries)
          /\ OneEach(file) => /\ OneEach(sniNext')
                              /\ Elements(sniNext') = OtherEntries(file, q.sni) \cup EntriesOf(q)
      BY <3>3, <3>4, SniUpdateFacts
    <3>6. /\ sniStore' = [sniStore EXCEPT ![q.name] = q]
          /\ sniFile' = sniFile /\ atsSni' = atsSni
      BY <1>4 DEF UpdatePolicy
    <3> QED BY <3>1, <3>2, <3>4, <3>5, <3>6 DEF SniTakes
  <2> QED BY <2>1, <2>2
<1>5. ASSUME NEW n \in SniNames, DeletePolicy(n)
      PROVE  sniStore[n] \in Policies /\ sniStore[n].name = n /\ SniTakes(n, NoPolicy, sniStore[n])
  <2> DEFINE q == sniStore[n]
  <2>1. q \in Policies /\ q.name = n
    BY <1>1, <1>5 DEF DeletePolicy, SniFiled, SniNames
  <2>2. CASE Returns(q.sni)
    BY <1>5, <2>1, <2>2 DEF DeletePolicy, Returns, SniTakes
  <2>3. CASE ~Returns(q.sni)
    <3>1. /\ q.sni # NoSni
          /\ \E file \in {sniFile, <<>>} : Load(file) /\ Goes(SniDelete(file, q.sni))
      BY <1>5, <2>3 DEF DeletePolicy
    <3>2. PICK file \in {sniFile, <<>>} : Load(file) /\ Goes(SniDelete(file, q.sni))
      BY <3>1
    <3>3. sniPhase' = "write" /\ sniNext' = SniDelete(file, q.sni) /\ file \in Seq(SniEntries)
      BY <1>2, <3>2 DEF Goes
    <3>4. /\ sniNext' \in Seq(SniEntries)
          /\ OneEach(file) => /\ OneEach(sniNext')
                              /\ Elements(sniNext') = OtherEntries(file, q.sni) \cup
                                    EntriesOf(NoPolicy)
      <4>1. EntriesOf(NoPolicy) = {}
        BY DEF EntriesOf
      <4> HIDE DEF q
      <4> QED BY <3>3, <4>1, SniDeleteFacts
    <3>5. /\ sniStore' = [sniStore EXCEPT ![n] = NoPolicy]
          /\ sniFile' = sniFile /\ atsSni' = atsSni
      BY <1>5 DEF DeletePolicy
    <3> HIDE DEF q
    <3>6. SniTakes(n, NoPolicy, q)
      BY <3>1, <3>2, <3>3, <3>4, <3>5 DEF SniTakes
    <3> QED BY <2>1, <3>6 DEF q
  <2> QED BY <2>2, <2>3
<1>6. SniIdle
  BY DEF PolicyEvent, AddPolicy, UpdatePolicy, DeletePolicy
<1>7. \A q \in Policies : q.name \in SniNames
  BY DEF SniNames, SniNames
<1>8. CASE \E q \in Policies : AddPolicy(q) \/ UpdatePolicy(q)
  BY <1>3, <1>4, <1>6, <1>7, <1>8
<1>9. CASE \E n \in SniNames : DeletePolicy(n)
  BY <1>5, <1>6, <1>9 DEF SniNames
<1> QED BY <1>8, <1>9 DEF PolicyEvent

(* A store with another policy of a name, or none. *)
SniFiles(new, store, n, p) == new = [store EXCEPT ![n] = p]

(* Of orderly policies one that comes or goes takes the place of what its  *)
(* name asked for, and of nothing else.                                    *)
LEMMA AskedOthers ==
    ASSUME SniOrderly(Policies), NEW store \in SniStores, SniFiled(store),
           NEW n \in SniNames, NEW q \in Policies, q.name = n, NEW p \in {q, NoPolicy},
           NEW new, SniFiles(new, store, n, p)
    PROVE  /\ q.sni = NoSni => EntriesAsked(new) = EntriesAsked(store)
           /\ q.sni # NoSni =>
                EntriesAsked(new) \cup Elements(ImageSni) =
                    {e \in EntriesAsked(store) \cup Elements(ImageSni) : e.fqdn \notin Fqdns(q.sni)}
                        \cup EntriesOf(p)
<1> DEFINE F == FqdnsOf(q)
<1>1. \A e \in EntriesOf(store[n]) : e.fqdn \in F
  <2>1. CASE store[n] = NoPolicy
    BY <2>1 DEF EntriesOf
  <2>2. CASE store[n] # NoPolicy
    <3>1. store[n] \in Policies /\ store[n].name = n
      BY <2>2 DEF SniStores, SniFiled
    <3>2. FqdnsOf(store[n]) = F
      BY <3>1 DEF SniOrderly
    <3> HIDE DEF F
    <3> QED BY <3>1, <3>2, EntriesType
  <2> QED BY <2>1, <2>2
<1>2. \A m \in SniNames \ {n} : \A e \in EntriesOf(store[m]) : e.fqdn \notin F
  <2> SUFFICES ASSUME NEW m \in SniNames, m # n, NEW e \in EntriesOf(store[m])
               PROVE  e.fqdn \notin F
    OBVIOUS
  <2>1. store[m] # NoPolicy
    BY DEF EntriesOf
  <2>2. store[m] \in Policies /\ store[m].name = m
    BY <2>1 DEF SniStores, SniFiled
  <2>3. FqdnsOf(store[m]) \cap F = {}
    BY <2>2 DEF SniOrderly
  <2>4. e.fqdn \in FqdnsOf(store[m])
    BY <2>2, EntriesType
  <2> QED BY <2>3, <2>4
<1>3. \A e \in Elements(ImageSni) : e.fqdn \notin F
  <2>1. F \cap Fqdns(ImageSni) = {} /\ NoFqdn \notin F
    BY DEF SniOrderly, FqdnsOf, Fqdns
  <2>2. \A e \in Elements(ImageSni) : e.fqdn = NoFqdn \/ e.fqdn \in Fqdns(ImageSni)
    BY DEF Elements, Fqdns
  <2> HIDE DEF F
  <2> QED BY <2>1, <2>2
<1>4. new[n] = p /\ \A m \in SniNames : m # n => new[m] = store[m]
  BY DEF SniStores, SniFiles
<1>5. \A x : x \in EntriesAsked(store) <=> x \in EntriesOf(store[n]) \/
        \E m \in SniNames \ {n} : x \in EntriesOf(store[m])
  BY DEF EntriesAsked
<1>6. \A x : x \in EntriesAsked(new) <=> x \in EntriesOf(p) \/
        \E m \in SniNames \ {n} : x \in EntriesOf(store[m])
  BY <1>4 DEF EntriesAsked
<1>7. q.sni = NoSni => F = {}
  BY DEF FqdnsOf
<1>8. q.sni # NoSni => F = Fqdns(q.sni)
  BY DEF FqdnsOf
<1>9. F = {} => EntriesOf(p) = {}
  BY EntriesType DEF EntriesOf
<1> HIDE DEF F
<1>10. q.sni = NoSni => EntriesAsked(new) = EntriesAsked(store)
  BY <1>1, <1>5, <1>6, <1>7, <1>9
<1>11. ASSUME q.sni # NoSni
       PROVE  EntriesAsked(new) \cup Elements(ImageSni) =
                {e \in EntriesAsked(store) \cup Elements(ImageSni) : e.fqdn \notin F} \cup
                      EntriesOf(p)
  BY <1>1, <1>2, <1>3, <1>5, <1>6
<1> QED BY <1>8, <1>10, <1>11

-----------------------------------------------------------------------------
(* What holds all along. *)

(* The store after a callback. *)
LEMMA SniStoredTakes ==
    ASSUME sniStore \in SniStores, SniFiled(sniStore),
           NEW n \in SniNames, NEW q \in Policies, q.name = n, NEW p \in {q, NoPolicy},
                 SniTakes(n, p, q)
    PROVE  sniStore' \in SniStores /\ SniFiled(sniStore')
<1>1. sniStore' = [sniStore EXCEPT ![n] = p]
  BY DEF SniTakes
<1> QED BY <1>1 DEF SniStores, SniFiled

LEMMA SniStoredNothing ==
    ASSUME NEW store, store = [n \in SniNames |-> NoPolicy]
    PROVE  store \in SniStores /\ SniFiled(store) /\ EntriesAsked(store) = {}
<1>1. store \in SniStores /\ \A n \in SniNames : store[n] = NoPolicy
  BY DEF SniStores, SniNames
<1> QED BY <1>1 DEF SniFiled, EntriesAsked, EntriesOf

SniTyped == SniTypeOK /\ SniFiled(sniStore)

(* The type invariant: files of the entries that policies and the image    *)
(* have, whatever the callbacks make of them.                              *)
LEMMA SniTypedAlways == SniSpec => []SniTyped
<1>1. SniInit => SniTyped
  <2> SUFFICES ASSUME SniInit
               PROVE  SniTyped
    OBVIOUS
  <2>1. ImageSni \in Seq(SniEntries) /\ <<>> \in Seq(SniEntries)
    BY EntriesOfPolicies
  <2>2. sniStore \in SniStores /\ SniFiled(sniStore)
    BY SniStoredNothing DEF SniInit
  <2> QED BY <2>1, <2>2, SniFaultsAssumption DEF SniInit, SniTyped, SniTypeOK, SniStores, SniNames
<1>2. SniTyped /\ [SniNextState]_sniVars => SniTyped'
  <2> SUFFICES ASSUME SniTyped, [SniNextState]_sniVars
               PROVE  SniTyped'
    OBVIOUS
  <2>1. CASE PolicyEvent
    <3>1. PICK n \in SniNames, q \in Policies : \E p \in {q, NoPolicy} : q.name = n /\
            SniTakes(n, p, q)
      BY <2>1, SniEventTakes DEF SniTyped
    <3>2. PICK p \in {q, NoPolicy} : q.name = n /\ SniTakes(n, p, q)
      BY <3>1
    <3>3. sniStore \in SniStores /\ SniFiled(sniStore)
      BY DEF SniTyped, SniTypeOK, SniStores, SniNames
    <3>4. sniStore' \in SniStores /\ SniFiled(sniStore')
      BY <3>2, <3>3, SniStoredTakes
    <3>5. sniPhase' \in {"idle", "write", "rename", "reload"} /\ sniNext' \in Seq(SniEntries)
      BY <3>2 DEF SniTakes, SniTyped, SniTypeOK
    <3>6. sniFaults' \in 0..MaxSniFaults
      BY <3>2, SniFaultsAssumption DEF SniTakes, Load, SniTyped, SniTypeOK
    <3>7. sniFile' = sniFile /\ atsSni' = atsSni
      BY <3>2 DEF SniTakes
    <3> QED BY <3>4, <3>5, <3>6, <3>7 DEF SniTyped, SniTypeOK, SniStores, SniNames
  <2>2. CASE SniStep
    <3>1. <<>> \in Seq(SniEntries)
      OBVIOUS
    <3> QED BY <2>2, <3>1 DEF SniStep, SniWrite, SniRename, SniReload, SniTyped, SniTypeOK, SniFiled
  <2>3. CASE SniFail
    BY <2>3, SniFaultsAssumption DEF SniFail, SniTyped, SniTypeOK, SniFiled
  <2>4. CASE CacheHandlerReloads
    BY <2>4 DEF CacheHandlerReloads, SniTyped, SniTypeOK, SniFiled
  <2>5. CASE SniRestart
    <3>1. ImageSni \in Seq(SniEntries) /\ <<>> \in Seq(SniEntries)
      BY EntriesOfPolicies
    <3>2. sniStore' \in SniStores /\ SniFiled(sniStore')
      BY <2>5, SniStoredNothing DEF SniRestart
    <3> QED BY <2>5, <3>1, <3>2 DEF SniRestart, SniTyped, SniTypeOK, SniStores, SniNames
  <2>6. CASE UNCHANGED sniVars
    BY <2>6 DEF sniVars, SniTyped, SniTypeOK, SniFiled
  <2> QED BY <2>1, <2>2, <2>3, <2>4, <2>5, <2>6 DEF SniNextState, SniOther
<1> QED BY <1>1, <1>2, PTL DEF SniSpec

THEOREM SniTypeCorrect == SniSpec => []SniTypeOK
<1>1. SniTyped => SniTypeOK
  BY DEF SniTyped
<1> QED BY <1>1, SniTypedAlways, PTL

(* An fqdn has one entry in sni.yaml, and in what is about to be written.  *)
SniOnce == OneEach(sniFile) /\ OneEach(sniNext)

LEMMA SniOnceAlways ==
    ASSUME OneEach(ImageSni)
    PROVE  SniSpec => []SniOnce
<1>1. OneEach(<<>>)
  BY DEF OneEach
<1>2. SniInit => SniOnce
  BY <1>1 DEF SniInit, SniOnce
<1>3. SniTyped /\ SniOnce /\ [SniNextState]_sniVars => SniOnce'
  <2> SUFFICES ASSUME SniTyped, SniOnce, [SniNextState]_sniVars
               PROVE  SniOnce'
    OBVIOUS
  <2>1. CASE PolicyEvent
    <3>1. PICK n \in SniNames, q \in Policies : \E p \in {q, NoPolicy} : q.name = n /\
            SniTakes(n, p, q)
      BY <2>1, SniEventTakes DEF SniTyped
    <3>2. PICK p \in {q, NoPolicy} : q.name = n /\ SniTakes(n, p, q)
      BY <3>1
    <3>3. sniFile' = sniFile
      BY <3>2 DEF SniTakes
    <3>4. CASE sniNext' = sniNext
      BY <3>3, <3>4 DEF SniOnce
    <3>5. CASE sniNext' # sniNext
      <4>1. PICK file \in {sniFile, <<>>} : OneEach(file) => OneEach(sniNext')
        BY <3>2, <3>5 DEF SniTakes
      <4>2. OneEach(file)
        BY <1>1 DEF SniOnce
      <4> QED BY <3>3, <4>1, <4>2 DEF SniOnce
    <3> QED BY <3>4, <3>5
  <2>2. CASE SniStep
    BY <1>1, <2>2 DEF SniStep, SniWrite, SniRename, SniReload, SniOnce
  <2>3. CASE SniOther
    BY <1>1, <2>3 DEF SniOther, SniFail, CacheHandlerReloads, SniRestart, SniOnce
  <2>4. CASE UNCHANGED sniVars
    BY <2>4 DEF sniVars, SniOnce
  <2> QED BY <2>1, <2>2, <2>3, <2>4 DEF SniNextState
<1> QED BY <1>2, <1>3, SniTypedAlways, PTL DEF SniSpec

(* However policies share fqdns, whatever fails and whenever anything      *)
(* restarts (handlerSni.go:102-233): no sequence of callbacks gives an     *)
(* fqdn two entries, if the image does not.                                *)
THEOREM SniEntriesOnce ==
    ASSUME OneEach(ImageSni)
    PROVE  SniSpec => []OneEntryPerFqdn
<1>1. SniOnce => OneEntryPerFqdn
  BY DEF SniOnce, OneEntryPerFqdn
<1> QED BY <1>1, SniOnceAlways, PTL

(* What sni.yaml will have once the callback is through. *)
SniComing == IF sniPhase \in {"write", "rename"} THEN sniNext ELSE sniFile

(* It has what is asked for, and Traffic Server has read what there is,    *)
(* while nothing has failed.                                               *)
SniFollows ==
    /\ Elements(SniComing) = Asked \cup Elements(ImageSni)
    /\ sniPhase # "reload" => atsSni = sniFile

SniFaithful == SniTyped /\ SniOnce /\ (sniFaults = 0 => SniFollows)

LEMMA SniFollowsTakes ==
    ASSUME SniOrderly(Policies), SniFaithful, SniIdle, sniFaults' = 0,
           NEW n \in SniNames, NEW q \in Policies, q.name = n, NEW p \in {q, NoPolicy},
                 SniTakes(n, p, q)
    PROVE  sniFaults = 0 /\ SniFollows'
<1>1. sniFaults = 0 /\ sniFile' = sniFile /\ atsSni' = atsSni
  BY SniFaultsAssumption DEF SniTakes, Load, SniFaithful, SniTyped, SniTypeOK
<1>2. sniStore \in SniStores /\ SniFiled(sniStore) /\ SniFiles(sniStore', sniStore, n, p)
  BY DEF SniFiles, SniFaithful, SniTyped, SniTypeOK, SniStores, SniNames, SniTakes
<1>3. Elements(sniFile) = EntriesAsked(sniStore) \cup Elements(ImageSni) /\ atsSni = sniFile
  BY <1>1, EntriesAskedIs DEF SniFaithful, SniFollows, SniComing, SniIdle
<1>4. CASE q.sni = NoSni
  <2>1. EntriesAsked(sniStore') = EntriesAsked(sniStore)
    BY <1>2, <1>4, AskedOthers
  <2>2. sniPhase' = "idle"
    BY <1>4 DEF SniTakes, SniIdle
  <2> QED BY <1>1, <1>3, <2>1, <2>2, EntriesAskedIs DEF SniFollows, SniComing
<1>5. CASE q.sni # NoSni
  <2>1. EntriesAsked(sniStore') \cup Elements(ImageSni) =
            {e \in EntriesAsked(sniStore) \cup Elements(ImageSni) : e.fqdn \notin Fqdns(q.sni)} \cup EntriesOf(p)
    BY <1>2, <1>5, AskedOthers
  <2>2. PICK file \in {sniFile, <<>>} :
            /\ Load(file)
            /\ OneEach(file) => Elements(sniNext') = OtherEntries(file, q.sni) \cup EntriesOf(p)
    BY <1>5 DEF SniTakes
  <2>3. file = sniFile
    BY <1>1, <2>2 DEF Load
  <2>4. Elements(sniNext') = OtherEntries(sniFile, q.sni) \cup EntriesOf(p)
    BY <2>2, <2>3 DEF SniFaithful, SniOnce
  <2>5. sniPhase' = "write"
    BY <1>5 DEF SniTakes
  <2>6. Elements(SniComing') = EntriesAsked(sniStore') \cup Elements(ImageSni)
    BY <1>3, <2>1, <2>4, <2>5 DEF OtherEntries, SniComing
  <2> QED BY <1>1, <1>3, <2>5, <2>6, EntriesAskedIs DEF SniFollows
<1> QED BY <1>1, <1>4, <1>5

LEMMA SniFaithfulAlways ==
    ASSUME SniOrderly(Policies)
    PROVE  SniSpec => []SniFaithful
<1>1. SniInit => (sniFaults = 0 => SniFollows)
  <2> SUFFICES ASSUME SniInit
               PROVE  SniFollows
    OBVIOUS
  <2>1. EntriesAsked(sniStore) = {}
    BY SniStoredNothing DEF SniInit
  <2> QED BY <2>1, EntriesAskedIs DEF SniInit, SniFollows, SniComing
<1>2. /\ SniFaithful /\ SniTyped' /\ SniOnce' /\ [SniNextState]_sniVars
      => (sniFaults = 0 => SniFollows)'
  <2> SUFFICES ASSUME SniFaithful, SniTyped', SniOnce', [SniNextState]_sniVars, sniFaults' = 0
               PROVE  SniFollows'
    OBVIOUS
  <2>1. CASE PolicyEvent
    <3>1. SniIdle /\ \E n \in SniNames : \E q \in Policies : \E p \in {q, NoPolicy} :
                        q.name = n /\ SniTakes(n, p, q)
      BY <2>1, SniEventTakes DEF SniFaithful, SniTyped
    <3>2. PICK n \in SniNames, q \in Policies : \E p \in {q, NoPolicy} : q.name = n /\
            SniTakes(n, p, q)
      BY <3>1
    <3>3. PICK p \in {q, NoPolicy} : q.name = n /\ SniTakes(n, p, q)
      BY <3>2
    <3> QED BY <3>1, <3>3, SniFollowsTakes
  <2>2. CASE SniStep
    <3>1. sniFaults = 0 /\ sniStore' = sniStore /\ SniFollows
      BY <2>2 DEF SniStep, SniWrite, SniRename, SniReload, SniFaithful
    <3>2. Elements(SniComing') = Elements(SniComing)
      BY <2>2 DEF SniStep, SniWrite, SniRename, SniReload, SniComing
    <3>3. sniPhase' # "reload" => atsSni' = sniFile'
      BY <2>2, <3>1 DEF SniStep, SniWrite, SniRename, SniReload, SniFollows
    <3> QED BY <3>1, <3>2, <3>3, EntriesAskedIs DEF SniFollows
  <2>3. CASE SniFail
    BY <2>3, SniFaultsAssumption DEF SniFail, SniFaithful, SniTyped, SniTypeOK
  <2>4. CASE CacheHandlerReloads
    <3>1. sniFaults = 0 /\ sniStore' = sniStore /\ SniFollows
      BY <2>4 DEF CacheHandlerReloads, SniFaithful
    <3> QED BY <2>4, <3>1, EntriesAskedIs DEF CacheHandlerReloads, SniFollows, SniComing
  <2>5. CASE SniRestart
    <3>1. EntriesAsked(sniStore') = {}
      BY <2>5, SniStoredNothing DEF SniRestart
    <3> QED BY <2>5, <3>1, EntriesAskedIs DEF SniRestart, SniFollows, SniComing
  <2>6. CASE UNCHANGED sniVars
    <3>1. sniFaults = 0 /\ sniStore' = sniStore /\ SniFollows
      BY <2>6 DEF sniVars, SniFaithful
    <3> QED BY <2>6, <3>1, EntriesAskedIs DEF sniVars, SniFollows, SniComing
  <2> QED BY <2>1, <2>2, <2>3, <2>4, <2>5, <2>6 DEF SniNextState, SniOther
<1>3. OneEach(ImageSni)
  BY DEF SniOrderly
<1>4. SniSpec => []SniOnce
  BY <1>3, SniOnceAlways
<1> QED BY <1>1, <1>2, <1>4, SniTypedAlways, PTL DEF SniSpec, SniFaithful

(* Policies that share no fqdn and keep theirs (handlerSni.go:102-233):    *)
(* between callbacks Traffic Server runs with the last entry of each fqdn  *)
(* of every policy and with what the image had, and with nothing else.     *)
THEOREM SniSettles ==
    ASSUME SniOrderly(Policies)
    PROVE  SniSpec => []SniSettled
<1>1. SniFaithful => SniSettled
  BY DEF SniFaithful, SniFollows, SniComing, SniSettled, SniIdle
<1> QED BY <1>1, SniFaithfulAlways, PTL

(* Every step of the handler, of the caching handler's reloads and of the  *)
(* informer is one that Snapshot allows, or none.                          *)
LEMMA SniStepIsPromised ==
    ASSUME SniOrderly(Policies), SniFaithful, SniFaithful', [SniNextState]_sniVars
    PROVE  [SniPromise!Next]_(SniPromise!snapshotVars)
<1>1. sniFaults \in Nat /\ sniFaults' \in Nat
  BY SniFaultsAssumption DEF SniFaithful, SniTyped, SniTypeOK
<1>2. Asked' \cup Elements(ImageSni) \in SUBSET SniEntries
  <2>1. sniStore' \in SniStores
    BY DEF SniFaithful, SniTyped, SniTypeOK, SniStores, SniNames
  <2> QED BY <2>1, EntriesAskedType, EntriesAskedIs
<1>3. Elements(atsSni') \in SUBSET SniEntries
  <2>1. atsSni' \in Seq(SniEntries)
    BY DEF SniFaithful, SniTyped, SniTypeOK
  <2> QED BY <2>1 DEF Elements
<1>4. CASE sniFaults' > 0
  BY <1>2, <1>3, <1>4 DEF SniPromise!Next, SniPromise!Lose
<1>5. CASE ~(sniFaults' > 0)
  <2>1. sniFaults' = 0
    BY <1>1, <1>5
  <2>2. CASE PolicyEvent
    <3>1. SniIdle /\ \E n \in SniNames : \E q \in Policies : \E p \in {q, NoPolicy} :
                        q.name = n /\ SniTakes(n, p, q)
      BY <2>2, SniEventTakes DEF SniFaithful, SniTyped
    <3>2. PICK n \in SniNames, q \in Policies : \E p \in {q, NoPolicy} : q.name = n /\
            SniTakes(n, p, q)
      BY <3>1
    <3>3. PICK p \in {q, NoPolicy} : q.name = n /\ SniTakes(n, p, q)
      BY <3>2
    <3>4. sniFaults = 0
      BY <2>1, <3>1, <3>3, SniFollowsTakes
    <3>5. Elements(atsSni) = Asked \cup Elements(ImageSni)
      BY <3>1, <3>4 DEF SniFaithful, SniFollows, SniComing, SniIdle
    <3>6. atsSni' = atsSni
      BY <3>3 DEF SniTakes
    <3> QED BY <1>2, <2>1, <3>4, <3>5, <3>6 DEF SniPromise!Next, SniPromise!Declare
  <2>3. CASE SniWrite \/ SniRename
    <3>1. sniStore' = sniStore /\ atsSni' = atsSni /\ sniFaults' = sniFaults
      BY <2>3 DEF SniWrite, SniRename
    <3> QED BY <3>1, EntriesAskedIs DEF SniPromise!snapshotVars
  <2>4. CASE SniReload
    <3>1. sniStore' = sniStore /\ atsSni' = sniFile /\ sniFaults' = sniFaults /\ sniPhase = "reload"
      BY <2>4 DEF SniReload
    <3>2. Elements(sniFile) = Asked \cup Elements(ImageSni)
      BY <2>1, <3>1 DEF SniFaithful, SniFollows, SniComing
    <3> QED BY <3>1, <3>2, EntriesAskedIs DEF SniPromise!Next, SniPromise!Load
  <2>5. CASE SniFail
    BY <1>1, <2>1, <2>5 DEF SniFail
  <2>6. CASE CacheHandlerReloads
    <3>1. sniStore' = sniStore /\ atsSni' = sniFile /\ sniFaults' = sniFaults
      BY <2>6 DEF CacheHandlerReloads
    <3>2. CASE sniPhase = "reload"
      <4>1. Elements(sniFile) = Asked \cup Elements(ImageSni)
        BY <2>1, <3>1, <3>2 DEF SniFaithful, SniFollows, SniComing
      <4> QED BY <3>1, <4>1, EntriesAskedIs DEF SniPromise!Next, SniPromise!Load
    <3>3. CASE sniPhase # "reload"
      <4>1. atsSni' = atsSni
        BY <2>1, <3>1, <3>3 DEF SniFaithful, SniFollows
      <4> QED BY <3>1, <4>1, EntriesAskedIs DEF SniPromise!snapshotVars
    <3> QED BY <3>2, <3>3
  <2>7. CASE SniRestart
    <3>1. EntriesAsked(sniStore') = {} /\ atsSni' = ImageSni /\ sniFaults' = sniFaults
      BY <2>7, SniStoredNothing DEF SniRestart
    <3> QED BY <3>1, EntriesAskedIs DEF SniPromise!Next, SniPromise!Reset
  <2>8. CASE UNCHANGED sniVars
    BY <2>8, EntriesAskedIs DEF sniVars, SniPromise!snapshotVars
  <2> QED BY <2>2, <2>3, <2>4, <2>5, <2>6, <2>7, <2>8 DEF SniNextState, SniStep, SniOther
<1> QED BY <1>4, <1>5

(* The handler implements the safety part of Snapshot for such policies:   *)
(* whoever reloads Traffic Server, and whenever, it goes from the entries  *)
(* of one declaration to those of the next in one step                     *)
(* (handlerSni.go:252-282), before the next change.                        *)
THEOREM SniImplementsSnapshot ==
    ASSUME SniOrderly(Policies)
    PROVE  SniSpec => SniPromise!SafeSpec
<1>1. SniInit => SniPromise!Init
  <2> SUFFICES ASSUME SniInit
               PROVE  SniPromise!Init
    OBVIOUS
  <2>1. EntriesAsked(sniStore) = {} /\ atsSni = ImageSni /\ sniFaults = 0
    BY SniStoredNothing DEF SniInit
  <2> QED BY <2>1, EntriesAskedIs DEF SniPromise!Init
<1>2. SniFaithful /\ SniFaithful' /\ [SniNextState]_sniVars
        => [SniPromise!Next]_(SniPromise!snapshotVars)
  BY SniStepIsPromised
<1> QED BY <1>1, <1>2, SniFaithfulAlways, PTL DEF SniSpec, SniPromise!SafeSpec

-----------------------------------------------------------------------------
(***************************************************************************)
(* CacheHandler.                                                           *)
(***************************************************************************)

-----------------------------------------------------------------------------
(* What the operators of CacheHandler do to a sequence. *)

LeastOf(T) == IF T # {} THEN Min(T) ELSE 0

LEMMA LeastOfIs ==
    ASSUME NEW T \in SUBSET Nat, T # {}
    PROVE  LeastOf(T) \in T
<1>1. \E x \in T : \A y \in T : x <= y
  BY Least
<1> QED BY <1>1 DEF LeastOf, Min

(* The elements in S differ in their keys. *)
Apart(seq, S, key) ==
    \A i, j \in DOMAIN seq : i # j /\ seq[i] \in S /\ seq[j] \in S => key[seq[i]] # key[seq[j]]

LEMMA KeepFacts ==
    ASSUME NEW E, NEW seq \in Seq(E), NEW S, NEW key
    PROVE  /\ Keep(seq, S) \in Seq(E)
           /\ RangeOf(Keep(seq, S)) = RangeOf(seq) \cap S
           /\ Apart(seq, S, key) => Apart(Keep(seq, S), S, key)
<1> DEFINE n == Len(seq)
           V == Seq(E)
           After(e, f) == IF e \in S THEN Append(f, e) ELSE f
           step == [i \in 1..n |-> [f \in V |-> After(seq[i], f)]]
           kept == CHOOSE w : w = [i \in 0..n |-> IF i = 0 THEN <<>> ELSE After(seq[i], w[i - 1])]
<1>1. n \in Nat /\ DOMAIN seq = 1..n /\ (\A i \in 1..n : seq[i] \in E) /\ <<>> \in V
  OBVIOUS
<1>2. \A e \in E : \A f \in V : After(e, f) \in V
  OBVIOUS
<1>3. step \in [1..n -> [V -> V]]
  <2> HIDE DEF V, After, n
  <2> QED BY <1>1, <1>2
<1>4. Keep(seq, S) = kept[n]
  BY DEF Keep
<1>5. /\ kept \in [0..n -> V] /\ kept[0] = <<>>
      /\ \A i \in 1..n : kept[i] = After(seq[i], kept[i - 1])
  <2> HIDE DEF V, After, n, step
  <2>1. PICK f \in [0..n -> V] : f[0] = <<>> /\ \A i \in 1..n : f[i] = step[i][f[i - 1]]
    <3>1. \E f : Passes(f, n, V, <<>>, step)
      BY <1>1, <1>3, LoopExists
    <3> QED BY <3>1 DEF Passes
  <2>2. \A i \in 1..n : \A v \in V : step[i][v] = After(seq[i], v)
    BY DEF step
  <2>3. \A i \in 1..n : f[i - 1] \in V
    BY <1>1, <2>1
  <2>4. f = [i \in 0..n |-> IF i = 0 THEN <<>> ELSE After(seq[i], f[i - 1])]
    <3>1. \A i \in 1..n : f[i] = After(seq[i], f[i - 1])
      BY <2>1, <2>2, <2>3
    <3>2. 0 \in 0..n /\ \A i \in 0..n : i # 0 => i \in 1..n
      BY <1>1
    <3> QED BY <2>1, <3>1, <3>2
  <2>5. kept = [i \in 0..n |-> IF i = 0 THEN <<>> ELSE After(seq[i], kept[i - 1])]
    BY <2>4
  <2> HIDE DEF kept
  <2>6. DOMAIN kept = 0..n /\ kept[0] = <<>> /\ \A i \in 1..n : kept[i] = After(seq[i], kept[i - 1])
    BY <1>1, <2>5
  <2> DEFINE T == {i \in 0..n : kept[i] \in V}
  <2>7. 0 \in T /\ \A i \in 1..n : i - 1 \in T => i \in T
    BY <1>1, <1>2, <2>6
  <2>8. \A k \in 0..n : k \in T
    <3> SUFFICES ASSUME NEW k \in 0..n PROVE k \in T
      OBVIOUS
    <3>1. k \in Nat /\ \A i \in 1..k : i \in 1..n
      BY <1>1
    <3> HIDE DEF T
    <3> QED BY <2>7, <3>1, LoopInduction
  <2> QED BY <2>5, <2>6, <2>8
<1> HIDE DEF kept
<1>6. Keep(seq, S) \in V
  BY <1>1, <1>4, <1>5
<1> DEFINE Sofar(i) == {seq[j] : j \in 1..i} \cap S
           T == {i \in 0..n : /\ RangeOf(kept[i]) = Sofar(i)
                              /\ Apart(seq, S, key) => Apart(kept[i], S, key)}
<1>7. 0 \in T
  <2>1. Sofar(0) = {} /\ RangeOf(<<>>) = {} /\ Apart(<<>>, S, key)
    BY DEF RangeOf, Apart
  <2>2. kept[0] = <<>> /\ 0 \in 0..n
    BY <1>1, <1>5
  <2> HIDE DEF Sofar, n, V, After
  <2> QED BY <2>1, <2>2
<1>8. ASSUME NEW i \in 1..n, i - 1 \in T
      PROVE  i \in T
  <2> DEFINE e == seq[i]
             old == kept[i - 1]
  <2>1. e \in E /\ old \in Seq(E) /\ kept[i] = After(e, old) /\ i \in Nat \ {0}
    <3>1. i - 1 \in 0..n /\ i \in Nat \ {0}
      BY <1>1
    <3> HIDE DEF After, n
    <3> QED BY <1>1, <1>5, <3>1
  <2>2. RangeOf(old) = Sofar(i - 1) /\ (Apart(seq, S, key) => Apart(old, S, key))
    BY <1>8
  <2>3. \A j : j \in 1..i <=> j = i \/ j \in 1..(i - 1)
    BY <2>1
  <2>4. CASE e \notin S
    <3>1. Sofar(i) = Sofar(i - 1)
      BY <2>3, <2>4
    <3>2. kept[i] = old
      BY <2>1, <2>4
    <3> HIDE DEF Sofar, old
    <3> QED BY <2>2, <3>1, <3>2
  <2>5. CASE e \in S
    <3>1. Sofar(i) = Sofar(i - 1) \cup {e}
      BY <2>3, <2>5
    <3>2. kept[i] = Append(old, e)
      BY <2>1, <2>5
    <3> HIDE DEF old, e
    <3> DEFINE m == Len(old)
               new == Append(old, e)
    <3>3. /\ m \in Nat /\ DOMAIN old = 1..m /\ DOMAIN new = 1..(m + 1) /\ new[m + 1] = e
          /\ \A j \in 1..m : new[j] = old[j]
      BY <2>1
    <3> HIDE DEF new, m
    <3>4. \A j : j \in 1..(m + 1) <=> j = m + 1 \/ j \in 1..m
      BY <3>3
    <3>5. RangeOf(new) = RangeOf(old) \cup {e}
      BY <3>3, <3>4 DEF RangeOf
    <3>6. ASSUME Apart(seq, S, key)
          PROVE  Apart(new, S, key)
      <4>1. \A x \in Sofar(i - 1) : key[x] # key[e]
        <5>1. \A j \in 1..(i - 1) : j \in DOMAIN seq /\ i \in DOMAIN seq /\ j # i
          BY <1>1, <2>1
        <5> QED BY <2>5, <3>6, <5>1 DEF Apart, e
      <4>2. \A j \in 1..m : old[j] \in Sofar(i - 1)
        <5>1. \A j \in 1..m : old[j] \in RangeOf(old)
          BY <3>3 DEF RangeOf
        <5> HIDE DEF Sofar
        <5> QED BY <2>2, <5>1 DEF old
      <4>3. Apart(old, S, key)
        BY <2>2, <3>6 DEF old
      <4> HIDE DEF Sofar
      <4> SUFFICES ASSUME NEW a \in 1..(m + 1), NEW b \in 1..(m + 1), a # b,
                          new[a] \in S, new[b] \in S
                   PROVE  key[new[a]] # key[new[b]]
        BY <3>3 DEF Apart
      <4>4. CASE a \in 1..m /\ b \in 1..m
        BY <3>3, <4>3, <4>4 DEF Apart
      <4>5. CASE a = m + 1 /\ b \in 1..m
        BY <3>3, <4>1, <4>2, <4>5
      <4>6. CASE a \in 1..m /\ b = m + 1
        BY <3>3, <4>1, <4>2, <4>6
      <4> QED BY <3>4, <4>4, <4>5, <4>6
    <3>7. kept[i] = new /\ RangeOf(old) = Sofar(i - 1) /\ i \in 0..n
      BY <1>1, <2>2, <3>2 DEF new
    <3> HIDE DEF Sofar, n, V, After
    <3>8. RangeOf(kept[i]) = Sofar(i) /\ (Apart(seq, S, key) => Apart(kept[i], S, key))
      BY <3>1, <3>5, <3>6, <3>7
    <3> QED BY <3>7, <3>8
  <2> QED BY <2>4, <2>5
<1>9. n \in T
  <2> HIDE DEF T
  <2> QED BY <1>1, <1>7, <1>8, LoopInduction
<1>10. Sofar(n) = RangeOf(seq) \cap S
  BY <1>1 DEF RangeOf
<1> HIDE DEF Sofar
<1> QED BY <1>4, <1>6, <1>9, <1>10

LEMMA LineFacts ==
    ASSUME NEW r
    PROVE  /\ Line(r).type = r.type
           /\ \A line : LineContains(line, r) => line.type = r.type
BY DEF Line, LineContains

(* Exactly one of the lines contains the rule. *)
OneHas(lines, r) ==
    \E old \in RangeOf(lines) : /\ LineContains(old, r)
                                /\ \A line \in RangeOf(lines) : LineContains(line, r) => line = old

Once(seq) == \A i, j \in DOMAIN seq : i # j => seq[i] # seq[j]

(* ReplaceFirst puts the rule where the one line is that contains it. *)
LEMMA ReplaceFacts ==
    ASSUME NEW E, NEW lines \in Seq(E), NEW r, Line(r) \in E
    PROVE  /\ ReplaceFirst(lines, r) \in Seq(E)
           /\ Once(lines) /\ OneHas(lines, r) /\ LineContains(Line(r), r) =>
                /\ Once(ReplaceFirst(lines, r))
                /\ RangeOf(ReplaceFirst(lines, r)) =
                        {line \in RangeOf(lines) : ~LineContains(line, r)} \cup {Line(r)}
<1> DEFINE n == Len(lines)
           T == {i \in 1..n : LineContains(lines[i], r)}
           i == LeastOf(T)
           e == Line(r)
           new == IF i = 0 THEN lines ELSE [lines EXCEPT ![i] = e]
<1>1. n \in Nat /\ DOMAIN lines = 1..n /\ \A j \in 1..n : lines[j] \in E
  OBVIOUS
<1>2. ReplaceFirst(lines, r) = new
  BY DEF ReplaceFirst, SelectInSeq, LeastOf
<1>3. (T = {} /\ i = 0) \/ (i \in T /\ i # 0)
  <2>1. T \in SUBSET Nat /\ 0 \notin T
    OBVIOUS
  <2> HIDE DEF T
  <2> QED BY <2>1, LeastOfIs DEF LeastOf
<1>4. \A j \in 1..n : j \in T <=> LineContains(lines[j], r)
  OBVIOUS
<1>5. T \subseteq 1..n
  OBVIOUS
<1> HIDE DEF T, i, e, n
<1>6. new \in Seq(E)
  <2>1. CASE i = 0
    BY <2>1
  <2>2. CASE i # 0
    <3>1. i \in 1..Len(lines) /\ e \in E
      BY <1>3, <1>5, <2>2 DEF e, n
    <3>2. [lines EXCEPT ![i] = e] \in Seq(E)
      BY <3>1
    <3> QED BY <2>2, <3>2
  <2> QED BY <2>1, <2>2
<1>7. ASSUME Once(lines), OneHas(lines, r), LineContains(e, r)
      PROVE  Once(new) /\ RangeOf(new) = {line \in RangeOf(lines) : ~LineContains(line, r)} \cup {e}
  <2>1. PICK k \in 1..n : /\ LineContains(lines[k], r)
                          /\ \A j \in 1..n : LineContains(lines[j], r) => lines[j] = lines[k]
    BY <1>1, <1>7 DEF OneHas, RangeOf
  <2>2. \A j \in 1..n : LineContains(lines[j], r) => j = k
    BY <1>1, <1>7, <2>1 DEF Once
  <2>3. i = k
    BY <1>3, <1>4, <1>5, <2>1, <2>2
  <2>4. /\ DOMAIN new = 1..n /\ new[k] = e
        /\ \A j \in 1..n : j # k => new[j] = lines[j] /\ ~LineContains(new[j], r)
    BY <1>1, <1>3, <2>1, <2>2, <2>3
  <2> HIDE DEF new
  <2>5. Once(new)
    <3> SUFFICES ASSUME NEW a \in 1..n, NEW b \in 1..n, a # b
                 PROVE  new[a] # new[b]
      BY <2>4 DEF Once
    <3>1. CASE a # k /\ b # k
      BY <1>1, <1>7, <2>4, <3>1 DEF Once
    <3>2. CASE a = k \/ b = k
      BY <1>7, <2>4, <3>2
    <3> QED BY <3>1, <3>2
  <2>6. \A x : x \in RangeOf(new) <=> \E j \in 1..n : x = new[j]
    BY <2>4 DEF RangeOf
  <2>7. \A x : x \in RangeOf(lines) <=> \E j \in 1..n : x = lines[j]
    BY <1>1 DEF RangeOf
  <2> QED BY <2>1, <2>4, <2>5, <2>6, <2>7
<1> QED BY <1>2, <1>6, <1>7 DEF e

(* A pass over rules of which each has its line. *)
LEMMA ReplaceEachFacts ==
    ASSUME NEW E, NEW file \in Seq(E), NEW R, NEW rules \in Seq(R), \A r \in R : Line(r) \in E
    PROVE  /\ ReplaceEach(file, rules) \in Seq(E)
           /\ /\ Once(file)
              /\ \A i, j \in DOMAIN rules : i # j => rules[i].type # rules[j].type
              /\ \A i \in DOMAIN rules : OneHas(file, rules[i]) /\
                    LineContains(Line(rules[i]), rules[i])
              => /\ Once(ReplaceEach(file, rules))
                 /\ RangeOf(ReplaceEach(file, rules)) =
                        {line \in RangeOf(file) : \A r \in RangeOf(rules) : ~LineContains(line, r)}
                            \cup {Line(r) : r \in RangeOf(rules)}
<1> DEFINE n == Len(rules)
           V == Seq(E)
           After(r, f) == ReplaceFirst(f, r)
           step == [i \in 1..n |-> [f \in V |-> After(rules[i], f)]]
           lines == CHOOSE w : w = [i \in 0..n |-> IF i = 0 THEN file ELSE After(rules[i], w[i - 1])]
<1>1. n \in Nat /\ DOMAIN rules = 1..n /\ (\A i \in 1..n : rules[i] \in R) /\ file \in V
  OBVIOUS
<1>2. \A r \in R : \A f \in V : After(r, f) \in V
  BY ReplaceFacts
<1>3. step \in [1..n -> [V -> V]]
  <2> HIDE DEF V, After, n
  <2> QED BY <1>1, <1>2
<1>4. ReplaceEach(file, rules) = lines[n]
  BY DEF ReplaceEach
<1>5. /\ lines \in [0..n -> V] /\ lines[0] = file
      /\ \A i \in 1..n : lines[i] = After(rules[i], lines[i - 1])
  <2> HIDE DEF V, After, n, step
  <2>1. PICK f \in [0..n -> V] : f[0] = file /\ \A i \in 1..n : f[i] = step[i][f[i - 1]]
    <3>1. \E f : Passes(f, n, V, file, step)
      BY <1>1, <1>3, LoopExists
    <3> QED BY <3>1 DEF Passes
  <2>2. \A i \in 1..n : \A v \in V : step[i][v] = After(rules[i], v)
    BY DEF step
  <2>3. \A i \in 1..n : f[i - 1] \in V
    BY <1>1, <2>1
  <2>4. f = [i \in 0..n |-> IF i = 0 THEN file ELSE After(rules[i], f[i - 1])]
    <3>1. \A i \in 1..n : f[i] = After(rules[i], f[i - 1])
      BY <2>1, <2>2, <2>3
    <3>2. 0 \in 0..n /\ \A i \in 0..n : i # 0 => i \in 1..n
      BY <1>1
    <3> QED BY <2>1, <3>1, <3>2
  <2>5. lines = [i \in 0..n |-> IF i = 0 THEN file ELSE After(rules[i], lines[i - 1])]
    BY <2>4
  <2> HIDE DEF lines
  <2>6. DOMAIN lines = 0..n /\ lines[0] = file /\
          \A i \in 1..n : lines[i] = After(rules[i], lines[i - 1])
    BY <1>1, <2>5
  <2> DEFINE T == {i \in 0..n : lines[i] \in V}
  <2>7. 0 \in T /\ \A i \in 1..n : i - 1 \in T => i \in T
    BY <1>1, <1>2, <2>6
  <2>8. \A k \in 0..n : k \in T
    <3> SUFFICES ASSUME NEW k \in 0..n PROVE k \in T
      OBVIOUS
    <3>1. k \in Nat /\ \A i \in 1..k : i \in 1..n
      BY <1>1
    <3> HIDE DEF T
    <3> QED BY <2>7, <3>1, LoopInduction
  <2> QED BY <2>5, <2>6, <2>8
<1> HIDE DEF lines
<1>6. ReplaceEach(file, rules) \in V
  BY <1>1, <1>4, <1>5
<1>7. ASSUME Once(file), \A i, j \in 1..n : i # j => rules[i].type # rules[j].type,
             \A i \in 1..n : OneHas(file, rules[i]) /\ LineContains(Line(rules[i]), rules[i])
      PROVE  /\ Once(lines[n])
             /\ RangeOf(lines[n]) =
                    {line \in RangeOf(file) : \A j \in 1..n : ~LineContains(line, rules[j])}
                        \cup {Line(rules[j]) : j \in 1..n}
  <2> DEFINE Outcome(i) == {line \in RangeOf(file) : \A j \in 1..i : ~LineContains(line, rules[j])}
                                \cup {Line(rules[j]) : j \in 1..i}
             T == {i \in 0..n : Once(lines[i]) /\ RangeOf(lines[i]) = Outcome(i)}
  <2>1. 0 \in T
    <3>1. Outcome(0) = RangeOf(file)
      OBVIOUS
    <3> QED BY <1>1, <1>5, <1>7, <3>1
  <2>2. ASSUME NEW i \in 1..n, i - 1 \in T
        PROVE  i \in T
    <3> DEFINE r == rules[i]
    <3>1. r \in R /\ lines[i - 1] \in V /\ lines[i] = ReplaceFirst(lines[i - 1], r) /\
            i \in Nat \ {0}
      <4>1. i - 1 \in 0..n /\ i \in Nat \ {0}
        BY <1>1
      <4> HIDE DEF V, n
      <4> QED BY <1>1, <1>5, <4>1
    <3>2. Once(lines[i - 1]) /\ RangeOf(lines[i - 1]) = Outcome(i - 1)
      BY <2>2
    <3>3. \A j : j \in 1..i <=> j = i \/ j \in 1..(i - 1)
      BY <3>1
    <3>4. \A j \in 1..(i - 1) : j \in 1..n /\ rules[j].type # r.type
      <4>1. \A j \in 1..(i - 1) : j \in 1..n /\ j # i
        BY <1>1, <3>1
      <4> QED BY <1>7, <4>1
    <3>5. /\ \A j \in 1..(i - 1) : ~LineContains(Line(rules[j]), r)
          /\ \A line : LineContains(line, r) => \A j \in 1..(i - 1) : ~LineContains(line, rules[j])
      BY <3>4, LineFacts
    <3>6. OneHas(lines[i - 1], r)
      <4>1. PICK old \in RangeOf(file) :
                /\ LineContains(old, r)
                /\ \A line \in RangeOf(file) : LineContains(line, r) => line = old
        BY <1>7 DEF OneHas
      <4>2. old \in Outcome(i - 1)
        BY <3>5, <4>1
      <4>3. \A line \in Outcome(i - 1) : LineContains(line, r) => line = old
        BY <3>5, <4>1
      <4> HIDE DEF Outcome, r
      <4> QED BY <3>2, <4>1, <4>2, <4>3 DEF OneHas
    <3>7. /\ Once(lines[i])
          /\ RangeOf(lines[i]) = {line \in Outcome(i - 1) : ~LineContains(line, r)} \cup {Line(r)}
      <4>1. LineContains(Line(r), r) /\ Line(r) \in E /\ lines[i - 1] \in Seq(E)
        BY <1>7, <3>1
      <4> HIDE DEF Outcome, r, V, n
      <4>2. Once(lines[i - 1]) /\ OneHas(lines[i - 1], r)
        BY <3>2, <3>6
      <4>3. /\ Once(ReplaceFirst(lines[i - 1], r))
            /\ RangeOf(ReplaceFirst(lines[i - 1], r)) =
                    {line \in RangeOf(lines[i - 1]) : ~LineContains(line, r)} \cup {Line(r)}
        BY <4>1, <4>2, ReplaceFacts
      <4>4. lines[i] = ReplaceFirst(lines[i - 1], r) /\ RangeOf(lines[i - 1]) = Outcome(i - 1)
        BY <3>1, <3>2
      <4> QED BY <4>3, <4>4
    <3>8. {line \in Outcome(i - 1) : ~LineContains(line, r)} \cup {Line(r)} = Outcome(i)
      BY <3>3, <3>5
    <3>9. i \in 0..n
      BY <1>1
    <3> HIDE DEF Outcome
    <3> QED BY <3>7, <3>8, <3>9
  <2>3. n \in T
    <3> HIDE DEF T
    <3> QED BY <1>1, <2>1, <2>2, LoopInduction
  <2> QED BY <2>3
<1>8. RangeOf(rules) = {rules[j] : j \in 1..n}
  BY <1>1 DEF RangeOf
<1> HIDE DEF n
<1> QED BY <1>1, <1>4, <1>6, <1>7, <1>8

-----------------------------------------------------------------------------
(* What the rules of a policy come to. *)

LEMMA PolicyFacts ==
    ASSUME NEW p \in CachePolicies
    PROVE  /\ \A r \in CachedOf(p) : Line(r) \in CacheLines /\ LineContains(Line(r), r)
           /\ p.rules # NoRules =>
                /\ CompleteRules(p.rules) \in Seq(CompleteOf(p))
                /\ RangeOf(CompleteRules(p.rules)) = CompleteOf(p)
<1>1. ASSUME NEW r \in CachedOf(p)
      PROVE  Line(r) \in CacheLines /\ LineContains(Line(r), r)
  <2>1. p.rules # NoRules /\ r \in RangeOf(p.rules)
    BY DEF CachedOf
  <2>2. Line(r) \in CacheLines
    BY <2>1 DEF CacheLines
  <2>3. r.pattern \in Seq(RangeOf(r.pattern))
    BY <2>1, CachePoliciesAssumption
  <2>4. IsPrefix(r.pattern, r.pattern)
    BY <2>3 DEF IsPrefix
  <2> QED BY <2>2, <2>4 DEF Line, LineContains
<1>2. ASSUME p.rules # NoRules
      PROVE  /\ CompleteRules(p.rules) \in Seq(CompleteOf(p))
             /\ RangeOf(CompleteRules(p.rules)) = CompleteOf(p)
  <2> DEFINE rules == p.rules
             S == {r \in RangeOf(rules) : Complete(r)}
             E == RangeOf(rules)
  <2>1. rules \in Seq(E)
    BY <1>2, CachePoliciesAssumption
  <2>2. S = CompleteOf(p) /\ S \subseteq E
    BY <1>2 DEF CompleteOf, CachedOf, Complete
  <2>3. CompleteRules(rules) = Keep(rules, S)
    BY DEF CompleteRules
  <2> HIDE DEF rules, S, E
  <2>4. Keep(rules, S) \in Seq(E) /\ RangeOf(Keep(rules, S)) = RangeOf(rules) \cap S
    BY <2>1, KeepFacts
  <2>5. RangeOf(Keep(rules, S)) = S
    BY <2>2, <2>4 DEF E
  <2>6. Keep(rules, S) \in Seq(S)
    <3>1. \A i \in 1..Len(Keep(rules, S)) : Keep(rules, S)[i] \in S
      BY <2>4, <2>5 DEF RangeOf
    <3> QED BY <2>4, <3>1
  <2> QED BY <2>2, <2>3, <2>5, <2>6 DEF rules
<1> QED BY <1>1, <1>2

LEMMA OrderlyFacts ==
    ASSUME CacheOrderly(CachePolicies), NEW p \in CachePolicies
    PROVE  /\ \A r, s \in CachedOf(p) : r.type = s.type => r = s
           /\ p.rules # NoRules =>
                /\ ToDelete(p.rules) = CachedOf(p)
                /\ \A i, j \in DOMAIN CompleteRules(p.rules) :
                        i # j => CompleteRules(p.rules)[i].type # CompleteRules(p.rules)[j].type
<1> DEFINE rules == p.rules
           C == CachedOf(p)
           K == CompleteOf(p)
<1>1. CASE rules = NoRules
  BY <1>1 DEF CachedOf
<1>2. CASE rules # NoRules
  <2>1. rules \in Seq(RangeOf(rules)) /\ DOMAIN rules = 1..Len(rules) /\ Len(rules) \in Nat
    <3>1. rules \in Seq(RangeOf(rules))
      BY <1>2, CachePoliciesAssumption
    <3> HIDE DEF rules
    <3> QED BY <3>1
  <2>2. C = {r \in RangeOf(rules) : r.action = "cache"} /\ K = {r \in RangeOf(rules) : Complete(r)}
        /\ K \subseteq C
    BY <1>2 DEF CachedOf, CompleteOf, Complete
  <2>3. \A i, j \in DOMAIN rules : i # j /\ rules[i] \in C /\ rules[j] \in C =>
          rules[i].type # rules[j].type
    BY <1>2 DEF CacheOrderly
  <2> HIDE DEF rules, C, K
  <2>4. \A r, s \in C : r.type = s.type => r = s
    <3>1. \A r \in C : \E i \in DOMAIN rules : r = rules[i]
      BY <2>2 DEF RangeOf
    <3> QED BY <2>3, <3>1
  <2>5. \A i \in DOMAIN rules : rules[i] \in C <=> rules[i].action = "cache"
    BY <2>2 DEF RangeOf
  <2>6. ToDelete(rules) = C
    <3>1. ASSUME NEW i \in DOMAIN rules, rules[i] \in C
          PROVE  rules[i] \in ToDelete(rules)
      <4>1. \A j \in (i + 1)..Len(rules) : j \in DOMAIN rules /\ j # i
        BY <2>1
      <4>2. \A j \in (i + 1)..Len(rules) : rules[j].action = "cache" =>
              rules[j].type # rules[i].type
        BY <2>3, <2>5, <3>1, <4>1
      <4> QED BY <2>5, <3>1, <4>2 DEF ToDelete
    <3>2. \A r \in C : \E i \in DOMAIN rules : r = rules[i]
      BY <2>2 DEF RangeOf
    <3>3. C \subseteq ToDelete(rules)
      BY <3>1, <3>2
    <3>4. ToDelete(rules) \subseteq C
      BY <2>5 DEF ToDelete
    <3> QED BY <3>3, <3>4
  <2>7. \A i, j \in DOMAIN CompleteRules(rules) :
            i # j => CompleteRules(rules)[i].type # CompleteRules(rules)[j].type
    <3> DEFINE E == RangeOf(rules)
               key == [r \in E |-> r.type]
               kept == Keep(rules, K)
    <3>1. CompleteRules(rules) = kept
      BY <2>2 DEF CompleteRules
    <3>2. Apart(rules, K, key)
      BY <2>2, <2>3 DEF Apart
    <3>3. rules \in Seq(E)
      BY <2>1
    <3>4. K \subseteq E /\ \A r \in E : key[r] = r.type
      BY <2>2
    <3> HIDE DEF E, key
    <3>5. kept \in Seq(E) /\ RangeOf(kept) = RangeOf(rules) \cap K /\ Apart(kept, K, key)
      BY <3>2, <3>3, KeepFacts
    <3>6. \A i \in DOMAIN kept : kept[i] \in K
      BY <3>5 DEF RangeOf
    <3> HIDE DEF kept
    <3> QED BY <3>1, <3>4, <3>5, <3>6 DEF Apart
  <2> QED BY <2>4, <2>6, <2>7 DEF rules, C
<1> QED BY <1>1, <1>2

-----------------------------------------------------------------------------
(* What the callbacks of a policy do to a file that has what was asked for. *)

CacheStores == [CacheNames -> CachePolicies \cup {NoCachePolicy}]

CacheFiled(store) == \A n \in CacheNames : store[n] # NoCachePolicy => store[n].name = n

LinesOf(p) == IF p = NoCachePolicy THEN {} ELSE {Line(r) : r \in CompleteOf(p)}

LinesAsked(store) == UNION {LinesOf(store[n]) : n \in CacheNames}

(* The lines of the image and of the other names. *)
LinesBut(store, n) ==
    RangeOf(ImageLines) \cup UNION {LinesOf(store[m]) : m \in CacheNames \ {n}}

LEMMA AskedLinesIs ==
    /\ cacheStore \in CacheStores => AskedLines = LinesAsked(cacheStore)
    /\ cacheStore' \in CacheStores => AskedLines' = LinesAsked(cacheStore')
<1> DEFINE Asks(store, n) == store[n] # NoCachePolicy /\ store[n].rules # NoRules
           Lines(p) == {Line(r) : r \in RangeOf(CompleteRules(p.rules))}
           By(store) == UNION {Lines(p) : p \in {store[n] : n \in {n \in CacheNames : Asks(store, n)}}}
<1>1. AskedLines = By(cacheStore) /\ AskedLines' = By(cacheStore')
  BY DEF AskedLines, CacheHasWork
<1>2. ASSUME NEW store \in CacheStores
      PROVE  By(store) = LinesAsked(store)
  <2>1. \A n \in CacheNames : Asks(store, n) => Lines(store[n]) = LinesOf(store[n])
    <3> SUFFICES ASSUME NEW n \in CacheNames, Asks(store, n)
                 PROVE  Lines(store[n]) = LinesOf(store[n])
      OBVIOUS
    <3>1. store[n] \in CachePolicies /\ store[n] # NoCachePolicy /\ store[n].rules # NoRules
      BY DEF CacheStores
    <3>2. RangeOf(CompleteRules(store[n].rules)) = CompleteOf(store[n])
      BY <3>1, PolicyFacts
    <3> QED BY <3>1, <3>2 DEF LinesOf
  <2>2. \A n \in CacheNames : ~Asks(store, n) => LinesOf(store[n]) = {}
    BY DEF LinesOf, CompleteOf, CachedOf
  <2>3. \A x : x \in By(store) <=> \E n \in CacheNames : Asks(store, n) /\ x \in Lines(store[n])
    OBVIOUS
  <2>4. \A x : x \in LinesAsked(store) <=> \E n \in CacheNames : x \in LinesOf(store[n])
    BY DEF LinesAsked
  <2> HIDE DEF Asks, Lines, By
  <2>5. ASSUME NEW x
        PROVE  x \in By(store) <=> x \in LinesAsked(store)
    BY <2>1, <2>2, <2>3, <2>4
  <2> QED BY <2>5
<1> HIDE DEF By
<1> QED BY <1>1, <1>2

LEMMA LinesType ==
    ASSUME NEW store \in CacheStores
    PROVE  LinesAsked(store) \cup RangeOf(ImageLines) \in SUBSET CacheLines
<1>1. \A n \in CacheNames : LinesOf(store[n]) \subseteq CacheLines
  <2> SUFFICES ASSUME NEW n \in CacheNames
               PROVE  LinesOf(store[n]) \subseteq CacheLines
    OBVIOUS
  <2>1. CASE store[n] = NoCachePolicy
    BY <2>1 DEF LinesOf
  <2>2. CASE store[n] # NoCachePolicy
    <3>1. store[n] \in CachePolicies
      BY <2>2 DEF CacheStores
    <3>2. \A r \in CompleteOf(store[n]) : Line(r) \in CacheLines
      BY <3>1, PolicyFacts DEF CompleteOf
    <3> QED BY <3>2 DEF LinesOf
  <2> QED BY <2>1, <2>2
<1> QED BY <1>1 DEF LinesAsked, CacheLines

(* A store with another policy of a name, or none. *)
CacheFiles(new, store, n, p) == new = [store EXCEPT ![n] = p]

LEMMA LinesSplit ==
    ASSUME NEW store \in CacheStores, NEW n \in CacheNames
    PROVE  /\ LinesAsked(store) \cup RangeOf(ImageLines) = LinesBut(store, n) \cup LinesOf(store[n])
           /\ \A new, p : CacheFiles(new, store, n, p) =>
                LinesAsked(new) \cup RangeOf(ImageLines) = LinesBut(store, n) \cup LinesOf(p)
<1>1. LinesAsked(store) \cup RangeOf(ImageLines) = LinesBut(store, n) \cup LinesOf(store[n])
  BY DEF LinesAsked, LinesBut
<1>2. ASSUME NEW new, NEW p, CacheFiles(new, store, n, p)
      PROVE  LinesAsked(new) \cup RangeOf(ImageLines) = LinesBut(store, n) \cup LinesOf(p)
  <2>1. new[n] = p /\ \A m \in CacheNames : m # n => new[m] = store[m]
    BY <1>2 DEF CacheFiles, CacheStores
  <2>2. \A x : x \in LinesAsked(new) <=>
                    x \in LinesOf(p) \/ \E m \in CacheNames \ {n} : x \in LinesOf(store[m])
    BY <2>1 DEF LinesAsked
  <2> QED BY <2>2 DEF LinesBut
<1> QED BY <1>1, <1>2

(* No rule of a policy is in a line of the others. *)
LEMMA OthersHaveNone ==
    ASSUME CacheOrderly(CachePolicies), NEW store \in CacheStores, CacheFiled(store),
           NEW n \in CacheNames, NEW p \in CachePolicies, p.name = n
    PROVE  \A r \in CachedOf(p) : \A line \in LinesBut(store, n) : ~LineContains(line, r)
<1> SUFFICES ASSUME NEW r \in CachedOf(p), NEW line \in LinesBut(store, n)
             PROVE  ~LineContains(line, r)
  OBVIOUS
<1>1. CASE line \in RangeOf(ImageLines)
  BY <1>1 DEF CacheOrderly
<1>2. CASE line \notin RangeOf(ImageLines)
  <2>1. PICK m \in CacheNames \ {n} : line \in LinesOf(store[m])
    BY <1>2 DEF LinesBut
  <2>2. store[m] # NoCachePolicy /\ \E s \in CompleteOf(store[m]) : line = Line(s)
    BY <2>1 DEF LinesOf
  <2>3. store[m] \in CachePolicies /\ store[m].name # p.name
    BY <2>2 DEF CacheStores, CacheFiled
  <2> QED BY <2>2, <2>3 DEF CacheOrderly
<1> QED BY <1>1, <1>2

(* The file after an add. *)
Added(file, rules) == file \o [i \in DOMAIN CompleteRules(rules) |-> Line(CompleteRules(rules)[i])]

(* A file has the lines of a store, each once. *)
Holds(file, lines) == Once(file) /\ RangeOf(file) = lines

LEMMA AddHolds ==
    ASSUME CacheOrderly(CachePolicies), NEW store \in CacheStores, CacheFiled(store),
           NEW n \in CacheNames, NEW p \in CachePolicies, p.name = n, p.rules # NoRules,
           NEW file \in Seq(CacheLines), Holds(file, LinesBut(store, n))
    PROVE  Holds(Added(file, p.rules), LinesBut(store, n) \cup LinesOf(p))
<1> DEFINE C == CompleteRules(p.rules)
           K == CompleteOf(p)
           added == [i \in DOMAIN C |-> Line(C[i])]
           a == Len(file)
           b == Len(C)
           new == file \o added
           E == CacheLines
<1>1. /\ C \in Seq(K) /\ RangeOf(C) = K /\ p # NoCachePolicy
      /\ \A r \in K : Line(r) \in E /\ LineContains(Line(r), r)
  BY PolicyFacts, CachePoliciesAssumption DEF CompleteOf
<1>2. \A i, j \in DOMAIN C : i # j => C[i].type # C[j].type
  BY OrderlyFacts
<1>3. \A r \in K : \A line \in LinesBut(store, n) : ~LineContains(line, r)
  BY OthersHaveNone DEF CompleteOf
<1> HIDE DEF C, K, E
<1>4. b \in Nat /\ DOMAIN C = 1..b /\ (\A i \in 1..b : C[i] \in K) /\ added \in Seq(E) /\
        Len(added) = b
  <2>1. b \in Nat /\ DOMAIN C = 1..b /\ \A i \in 1..b : C[i] \in K
    BY <1>1
  <2>2. added \in [1..b -> E]
    BY <1>1, <2>1
  <2> HIDE DEF b, added
  <2> QED BY <2>1, <2>2
<1>5. a \in Nat /\ DOMAIN file = 1..a /\ file \in Seq(E)
  BY DEF E
<1>6. /\ DOMAIN new = 1..(a + b)
      /\ \A i \in 1..a : new[i] = file[i]
      /\ \A i \in 1..b : new[a + i] = Line(C[i])
  <2>1. \A i \in 1..b : added[i] = Line(C[i])
    BY <1>4
  <2> HIDE DEF added, b
  <2>2. /\ Len(new) = a + b /\ DOMAIN new = 1..Len(new)
        /\ (\A i \in 1..a : new[i] = file[i]) /\ (\A i \in 1..Len(added) : new[a + i] = added[i])
    BY <1>4, <1>5
  <2> HIDE DEF new, a
  <2> QED BY <1>4, <2>1, <2>2
<1>7. \A x \in 1..(a + b) : x \in 1..a \/ \E i \in 1..b : x = a + i
  <2> HIDE DEF a, b
  <2> SUFFICES ASSUME NEW x \in 1..(a + b), x \notin 1..a
               PROVE  \E i \in 1..b : x = a + i
    OBVIOUS
  <2>1. x - a \in 1..b /\ x = a + (x - a)
    BY <1>4, <1>5
  <2> QED BY <2>1
<1> HIDE DEF new, added, a, b
<1>8. \A i \in 1..a : file[i] \in LinesBut(store, n)
  BY <1>5 DEF Holds, RangeOf
<1>9. Once(new)
  <2> SUFFICES ASSUME NEW x \in 1..(a + b), NEW y \in 1..(a + b), x # y
               PROVE  new[x] # new[y]
    BY <1>6 DEF Once
  <2>1. CASE x \in 1..a /\ y \in 1..a
    BY <1>5, <1>6, <2>1 DEF Holds, Once
  <2>2. ASSUME x \in 1..a, NEW j \in 1..b, y = a + j
        PROVE  new[x] # new[y]
    BY <1>1, <1>3, <1>4, <1>6, <1>8, <2>2
  <2>3. ASSUME NEW i \in 1..b, x = a + i, y \in 1..a
        PROVE  new[x] # new[y]
    BY <1>1, <1>3, <1>4, <1>6, <1>8, <2>3
  <2>4. ASSUME NEW i \in 1..b, x = a + i, NEW j \in 1..b, y = a + j
        PROVE  new[x] # new[y]
    <3>1. i # j /\ new[x] = Line(C[i]) /\ new[y] = Line(C[j])
      BY <1>6, <2>4
    <3>2. C[i].type # C[j].type
      BY <1>2, <1>4, <3>1
    <3> QED BY <3>1, <3>2, LineFacts
  <2> QED BY <1>7, <2>1, <2>2, <2>3, <2>4
<1>10. RangeOf(new) = LinesBut(store, n) \cup LinesOf(p)
  <2>1. \A x : x \in RangeOf(new) <=> (\E i \in 1..a : x = file[i]) \/
          (\E i \in 1..b : x = Line(C[i]))
    <3>1. \A x : x \in RangeOf(new) <=> \E i \in 1..(a + b) : x = new[i]
      BY <1>6 DEF RangeOf
    <3>2. (\A i \in 1..a : i \in 1..(a + b)) /\ \A i \in 1..b : a + i \in 1..(a + b)
      BY <1>4, <1>5
    <3> QED BY <1>6, <1>7, <3>1, <3>2
  <2>2. \A x : x \in LinesBut(store, n) <=> \E i \in 1..a : x = file[i]
    BY <1>5 DEF Holds, RangeOf
  <2>3. \A x : x \in LinesOf(p) <=> \E r \in K : x = Line(r)
    BY <1>1 DEF LinesOf, K
  <2>4. \A r : r \in K <=> \E i \in 1..b : r = C[i]
    BY <1>1, <1>4 DEF RangeOf
  <2>5. ASSUME NEW x
        PROVE  x \in RangeOf(new) <=> x \in LinesBut(store, n) \/ x \in LinesOf(p)
    BY <2>1, <2>2, <2>3, <2>4
  <2> QED BY <2>5
<1> QED BY <1>9, <1>10 DEF Holds, Added, new, added, C

LEMMA UpdateHolds ==
    ASSUME CacheOrderly(CachePolicies), NEW store \in CacheStores, CacheFiled(store),
           NEW n \in CacheNames, store[n] # NoCachePolicy,
           NEW p \in CachePolicies, p.name = n, p.rules # NoRules,
           NEW file \in Seq(CacheLines), Holds(file, LinesBut(store, n) \cup LinesOf(store[n]))
    PROVE  Holds(ReplaceEach(file, CompleteRules(p.rules)), LinesBut(store, n) \cup LinesOf(p))
<1> DEFINE C == CompleteRules(p.rules)
           K == CompleteOf(p)
           q == store[n]
           Q == CompleteOf(q)
<1>1. /\ C \in Seq(K) /\ RangeOf(C) = K /\ p # NoCachePolicy
      /\ \A r \in K : Line(r) \in CacheLines /\ LineContains(Line(r), r)
  BY PolicyFacts, CachePoliciesAssumption DEF CompleteOf
<1>2. \A i, j \in DOMAIN C : i # j => C[i].type # C[j].type
  BY OrderlyFacts
<1>3. \A r \in K : \A line \in LinesBut(store, n) : ~LineContains(line, r)
  BY OthersHaveNone DEF CompleteOf
<1>4. q \in CachePolicies /\ q.name = n /\ LinesOf(q) = {Line(s) : s \in Q}
  BY DEF CacheStores, CacheFiled, LinesOf
<1>5. \A s, t \in Q : s.type = t.type => s = t
  BY <1>4, OrderlyFacts DEF CompleteOf
<1>6. \A s \in Q : LineContains(Line(s), s)
  BY <1>4, PolicyFacts DEF CompleteOf
<1>7. /\ \A r \in K : \E s \in Q : s.type = r.type /\ s.pattern = r.pattern
      /\ \A s \in Q : \E r \in K : r.type = s.type /\ r.pattern = s.pattern
  BY <1>4 DEF CacheOrderly
<1> HIDE DEF C, K, q, Q
<1>8. \A r, s : s.type = r.type /\ s.pattern = r.pattern =>
        \A line : LineContains(line, r) <=> LineContains(line, s)
  BY DEF LineContains
<1>9. ASSUME NEW r \in K
      PROVE  OneHas(file, r)
  <2>1. PICK s \in Q : s.type = r.type /\ s.pattern = r.pattern
    BY <1>7
  <2>2. LineContains(Line(s), r) /\ Line(s) \in RangeOf(file)
    BY <1>4, <1>6, <1>8, <2>1 DEF Holds, q
  <2>3. ASSUME NEW line \in RangeOf(file), LineContains(line, r)
        PROVE  line = Line(s)
    <3>1. line \notin LinesBut(store, n)
      BY <1>3, <2>3
    <3>2. PICK t \in Q : line = Line(t)
      BY <1>4, <2>3, <3>1 DEF Holds, q
    <3>3. t.type = s.type
      BY <2>1, <2>3, <3>2, LineFacts
    <3> QED BY <1>5, <3>2, <3>3
  <2> QED BY <2>2, <2>3 DEF OneHas
<1>10. \A i \in DOMAIN C : C[i] \in K
  BY <1>1 DEF RangeOf
<1> DEFINE new == ReplaceEach(file, C)
<1>11. /\ Once(new)
       /\ RangeOf(new) = {line \in RangeOf(file) : \A r \in K : ~LineContains(line, r)}
                            \cup {Line(r) : r \in K}
  <2>1. Once(file)
    BY DEF Holds
  <2>2. \A i \in DOMAIN C : OneHas(file, C[i]) /\ LineContains(Line(C[i]), C[i])
    BY <1>1, <1>9, <1>10
  <2>3. \A r \in K : Line(r) \in CacheLines
    BY <1>1
  <2> QED BY <1>1, <1>2, <2>1, <2>2, <2>3, ReplaceEachFacts
<1> HIDE DEF new
<1>12. RangeOf(file) = LinesBut(store, n) \cup {Line(s) : s \in Q}
  BY <1>4 DEF Holds, q
<1>13. \A s \in Q : \E r \in K : LineContains(Line(s), r)
  BY <1>6, <1>7, <1>8
<1>14. LinesOf(p) = {Line(r) : r \in K}
  BY <1>1 DEF LinesOf, K
<1>15. {line \in RangeOf(file) : \A r \in K : ~LineContains(line, r)} = LinesBut(store, n)
  BY <1>3, <1>12, <1>13
<1> QED BY <1>11, <1>14, <1>15 DEF Holds, new, C

LEMMA DeleteHolds ==
    ASSUME CacheOrderly(CachePolicies), NEW store \in CacheStores, CacheFiled(store),
           NEW n \in CacheNames, store[n] # NoCachePolicy, store[n].rules # NoRules,
           NEW file \in Seq(CacheLines), Holds(file, LinesBut(store, n) \cup LinesOf(store[n]))
    PROVE  Holds(Keep(file, {line \in RangeOf(file) :
                                \A r \in ToDelete(store[n].rules) : ~LineContains(line, r)}),
                 LinesBut(store, n))
<1> DEFINE q == store[n]
           C == CachedOf(q)
           S == {line \in RangeOf(file) : \A r \in ToDelete(q.rules) : ~LineContains(line, r)}
           key == [line \in CacheLines |-> line]
           kept == Keep(file, S)
<1>1. q \in CachePolicies /\ q.name = n /\ LinesOf(q) = {Line(s) : s \in CompleteOf(q)}
  BY DEF CacheStores, CacheFiled, LinesOf
<1>2. ToDelete(q.rules) = C
  BY <1>1, OrderlyFacts
<1>3. \A r \in C : \A line \in LinesBut(store, n) : ~LineContains(line, r)
  BY <1>1, OthersHaveNone
<1>4. \A s \in CompleteOf(q) : s \in C /\ LineContains(Line(s), s)
  BY <1>1, PolicyFacts DEF CompleteOf
<1> HIDE DEF q, C
<1>5. S = LinesBut(store, n)
  BY <1>1, <1>2, <1>3, <1>4 DEF Holds, q
<1>6. \A line \in CacheLines : key[line] = line
  OBVIOUS
<1>7. \A i \in DOMAIN file : file[i] \in CacheLines
  OBVIOUS
<1> HIDE DEF key, S, kept
<1>8. Apart(file, S, key)
  BY <1>6, <1>7 DEF Apart, Holds, Once
<1>9. kept \in Seq(CacheLines) /\ RangeOf(kept) = RangeOf(file) \cap S /\ Apart(kept, S, key)
  BY <1>8, KeepFacts DEF kept
<1>10. RangeOf(kept) = S
  BY <1>5, <1>9 DEF Holds
<1>11. \A i \in DOMAIN kept : kept[i] \in S /\ kept[i] \in CacheLines
  BY <1>9, <1>10 DEF RangeOf
<1>12. Once(kept)
  BY <1>6, <1>9, <1>11 DEF Apart, Once
<1> QED BY <1>5, <1>10, <1>12 DEF Holds, kept, S, q

-----------------------------------------------------------------------------
(* The operations of a callback, and the file they lead to. *)

CacheOps == [op : {"append", "truncate", "write", "reload"}, lines : Seq(CacheLines)]

LEMMA OpFacts ==
    /\ \A line \in CacheLines : AppendLine(line) \in CacheOps
    /\ \A line : AppendLine(line).op = "append" /\ AppendLine(line).lines = <<line>>
    /\ \A ls \in Seq(CacheLines) : WriteLines(ls) \in CacheOps
    /\ \A ls : WriteLines(ls).op = "write" /\ WriteLines(ls).lines = ls
    /\ Truncate \in CacheOps /\ Truncate.op = "truncate"
    /\ Reload \in CacheOps /\ Reload.op = "reload"
<1>1. <<>> \in Seq(CacheLines) /\ \A line \in CacheLines : <<line>> \in Seq(CacheLines)
  OBVIOUS
<1> QED BY <1>1 DEF CacheOps, AppendLine, WriteLines, Truncate, Reload

(* What is left of an add, which ends in ls ... *)
Appends(file, todo, ls) ==
    /\ Len(todo) # 0
    /\ Len(ls) = Len(file) + (Len(todo) - 1)
    /\ \A i \in 1..Len(file) : ls[i] = file[i]
    /\ \A i \in 1..(Len(todo) - 1) : todo[i] = AppendLine(ls[Len(file) + i])
    /\ todo[Len(todo)] = Reload

(* ... and of an update or a delete. *)
Rewrites(todo, ls) == todo = Rewrite(ls) \/ todo = <<WriteLines(ls), Reload>>

Leads(file, todo, ls) ==
    IF todo = <<>> THEN ls = file ELSE Appends(file, todo, ls) \/ Rewrites(todo, ls)

LEMMA AddProgram ==
    ASSUME NEW p \in CachePolicies, p.rules # NoRules, NEW file \in Seq(CacheLines)
    PROVE  /\ CacheAdd(p.rules) \in Seq(CacheOps) /\ CacheAdd(p.rules) # <<>>
           /\ Added(file, p.rules) \in Seq(CacheLines)
           /\ Appends(file, CacheAdd(p.rules), Added(file, p.rules))
<1> DEFINE C == CompleteRules(p.rules)
           ops == [i \in DOMAIN C |-> AppendLine(Line(C[i]))]
           lines == [i \in DOMAIN C |-> Line(C[i])]
           a == Len(file)
           b == Len(C)
           todo == ops \o <<Reload>>
           new == file \o lines
<1>1. b \in Nat /\ DOMAIN C = 1..b /\ \A i \in 1..b : Line(C[i]) \in CacheLines
  <2>1. C \in Seq(CompleteOf(p)) /\ \A r \in CompleteOf(p) : Line(r) \in CacheLines
    BY PolicyFacts DEF CompleteOf
  <2> HIDE DEF C
  <2> QED BY <2>1
<1> HIDE DEF C
<1>2. CacheAdd(p.rules) = todo /\ Added(file, p.rules) = new
  BY DEF CacheAdd, Added, C
<1>3. /\ lines \in Seq(CacheLines) /\ Len(lines) = b
      /\ \A i \in 1..b : lines[i] = Line(C[i])
  <2>1. lines \in [1..b -> CacheLines]
    BY <1>1
  <2> HIDE DEF b
  <2> QED BY <1>1, <2>1
<1>4. /\ ops \in Seq(CacheOps) /\ Len(ops) = b
      /\ \A i \in 1..b : ops[i] = AppendLine(Line(C[i]))
  <2>1. ops \in [1..b -> CacheOps]
    BY <1>1, OpFacts
  <2> HIDE DEF b
  <2> QED BY <1>1, <2>1
<1> HIDE DEF ops, lines
<1>5. /\ todo \in Seq(CacheOps) /\ Len(todo) = b + 1 /\ todo[b + 1] = Reload
      /\ \A i \in 1..b : todo[i] = ops[i]
  <2>1. Reload \in CacheOps
    BY OpFacts
  <2> HIDE DEF b
  <2> QED BY <1>1, <1>4, <2>1
<1>6. /\ new \in Seq(CacheLines) /\ Len(new) = a + b
      /\ (\A i \in 1..a : new[i] = file[i]) /\ \A i \in 1..b : new[a + i] = lines[i]
  <2> HIDE DEF b
  <2> QED BY <1>1, <1>3
<1>7. a \in Nat
  OBVIOUS
<1> HIDE DEF todo, new, a, b
<1>8. Len(todo) # 0 /\ Len(todo) - 1 = b
  BY <1>1, <1>5
<1>9. Appends(file, todo, new)
  BY <1>3, <1>4, <1>5, <1>6, <1>8 DEF Appends, a
<1>10. todo # <<>>
  BY <1>8
<1> QED BY <1>2, <1>5, <1>6, <1>9, <1>10

LEMMA RewriteProgram ==
    ASSUME NEW ls \in Seq(CacheLines)
    PROVE  Rewrite(ls) \in Seq(CacheOps) /\ Rewrite(ls) # <<>>
<1>1. WriteLines(ls) \in CacheOps /\ Truncate \in CacheOps /\ Reload \in CacheOps
  BY OpFacts
<1> QED BY <1>1 DEF Rewrite

(* The next operation of an add. *)
LEMMA AppendStep ==
    ASSUME NEW file \in Seq(CacheLines), NEW ls \in Seq(CacheLines), NEW todo \in Seq(CacheOps),
           Appends(file, todo, ls)
    PROVE  \/ /\ Head(todo) = Reload /\ Tail(todo) = <<>> /\ ls = file
           \/ /\ Head(todo).op = "append" /\ Tail(todo) # <<>>
              /\ Appends(file \o Head(todo).lines, Tail(todo), ls)
<1> DEFINE a == Len(file)
           n == Len(todo)
           rest == Tail(todo)
           x == ls[a + 1]
           new == file \o <<x>>
<1>1. a \in Nat /\ n \in Nat /\ n # 0 /\ Len(ls) = a + (n - 1)
  BY DEF Appends
<1>2. /\ \A i \in 1..a : ls[i] = file[i]
      /\ \A i \in 1..(n - 1) : todo[i] = AppendLine(ls[a + i])
      /\ todo[n] = Reload
  BY DEF Appends
<1>3. Head(todo) = todo[1] /\ rest \in Seq(CacheOps) /\ Len(rest) = n - 1
      /\ \A i \in 1..(n - 1) : rest[i] = todo[i + 1]
  BY <1>1
<1>4. CASE n = 1
  <2>1. Head(todo) = Reload /\ rest = <<>>
    <3> HIDE DEF n, rest, a
    <3>1. rest \in Seq(CacheOps) /\ Len(rest) = 0
      BY <1>3, <1>4
    <3> QED BY <1>2, <1>3, <1>4, <3>1
  <2>2. ls = file
    BY <1>1, <1>2, <1>4
  <2> QED BY <2>1, <2>2
<1>5. CASE n # 1
  <2>1. 1 \in 1..(n - 1) /\ a + 1 \in 1..Len(ls)
    <3> HIDE DEF n, a
    <3> QED BY <1>1, <1>5
  <2>2. todo[1] = AppendLine(x)
    BY <1>2, <2>1
  <2>3. Head(todo).op = "append" /\ Head(todo).lines = <<x>>
    BY <1>3, <2>2, OpFacts
  <2>4. x \in CacheLines
    BY <2>1
  <2>5. Len(new) = a + 1 /\ new[a + 1] = x /\ \A i \in 1..a : new[i] = file[i]
    BY <2>4
  <2> HIDE DEF a, n, rest, x, new
  <2>6. Len(rest) # 0 /\ Len(ls) = Len(new) + (Len(rest) - 1)
    BY <1>1, <1>3, <1>5, <2>5
  <2>7. \A i \in 1..Len(new) : ls[i] = new[i]
    <3>1. \A i \in 1..Len(new) : i \in 1..a \/ i = a + 1
      BY <1>1, <2>5
    <3> QED BY <1>2, <2>5, <3>1 DEF x
  <2>8. \A i \in 1..(Len(rest) - 1) : rest[i] = AppendLine(ls[Len(new) + i])
    <3> SUFFICES ASSUME NEW i \in 1..(Len(rest) - 1)
                 PROVE  rest[i] = AppendLine(ls[Len(new) + i])
      OBVIOUS
    <3>1. i + 1 \in 1..(n - 1) /\ i \in 1..(n - 1) /\ a + (i + 1) = Len(new) + i
      BY <1>1, <1>3, <1>5, <2>5
    <3>2. rest[i] = todo[i + 1] /\ todo[i + 1] = AppendLine(ls[a + (i + 1)])
      BY <1>2, <1>3, <3>1
    <3> QED BY <3>1, <3>2
  <2>9. rest[Len(rest)] = Reload
    <3>1. Len(rest) \in 1..(n - 1) /\ Len(rest) + 1 = n
      BY <1>1, <1>3, <1>5
    <3> QED BY <1>2, <1>3, <3>1
  <2>10. Appends(new, rest, ls)
    BY <2>6, <2>7, <2>8, <2>9 DEF Appends
  <2>11. rest # <<>>
    BY <2>6
  <2> QED BY <2>3, <2>10, <2>11 DEF new, rest
<1> QED BY <1>4, <1>5

(* The next operation of an update or a delete. *)
LEMMA RewriteStep ==
    ASSUME NEW ls \in Seq(CacheLines), NEW todo, Rewrites(todo, ls)
    PROVE  \/ Head(todo) = Truncate /\ Tail(todo) # <<>> /\ Rewrites(Tail(todo), ls)
           \/ Head(todo) = WriteLines(ls) /\ Tail(todo) # <<>> /\ Appends(ls, Tail(todo), ls)
<1>1. CASE todo = Rewrite(ls)
  <2>1. Head(todo) = Truncate /\ Tail(todo) = <<WriteLines(ls), Reload>> /\ Tail(todo) # <<>>
    BY <1>1 DEF Rewrite
  <2> QED BY <2>1 DEF Rewrites
<1>2. CASE todo = <<WriteLines(ls), Reload>>
  <2>1. Head(todo) = WriteLines(ls) /\ Tail(todo) = <<Reload>> /\ Tail(todo) # <<>>
    BY <1>2
  <2>2. Len(<<Reload>>) = 1 /\ <<Reload>>[1] = Reload
    OBVIOUS
  <2>3. Appends(ls, <<Reload>>, ls)
    BY <2>2 DEF Appends
  <2> QED BY <2>1, <2>3
<1> QED BY <1>1, <1>2 DEF Rewrites

-----------------------------------------------------------------------------
(* What holds all along. *)

(* What a callback plans for a store: with orderly policies, from a file   *)
(* that has what was asked for to one that has what is.                    *)
CachePlans(todo, store) ==
    /\ todo \in Seq(CacheOps) /\ todo # <<>>
    /\ \E ls \in Seq(CacheLines) :
        /\ Leads(cacheFile, todo, ls)
        /\ CacheOrderly(CachePolicies)
           /\ Holds(cacheFile, LinesAsked(cacheStore) \cup RangeOf(ImageLines))
           => Holds(ls, LinesAsked(store) \cup RangeOf(ImageLines))

LEMMA AddPlans ==
    ASSUME CacheTypeOK, CacheFiled(cacheStore), NEW p \in CachePolicies, p.rules # NoRules,
           cacheStore[p.name] = NoCachePolicy,
           NEW store, CacheFiles(store, cacheStore, p.name, p)
    PROVE  CachePlans(CacheAdd(p.rules), store)
<1>1. /\ cacheStore \in CacheStores /\ p.name \in CacheNames /\ cacheFile \in Seq(CacheLines)
      /\ LinesOf(cacheStore[p.name]) = {}
  BY DEF CacheTypeOK, CacheStores, CacheNames, LinesOf
<1>2. /\ CacheAdd(p.rules) \in Seq(CacheOps) /\ CacheAdd(p.rules) # <<>>
      /\ Added(cacheFile, p.rules) \in Seq(CacheLines)
      /\ Leads(cacheFile, CacheAdd(p.rules), Added(cacheFile, p.rules))
  BY <1>1, AddProgram DEF Leads
<1>3. ASSUME CacheOrderly(CachePolicies),
             Holds(cacheFile, LinesAsked(cacheStore) \cup RangeOf(ImageLines))
      PROVE  Holds(Added(cacheFile, p.rules), LinesAsked(store) \cup RangeOf(ImageLines))
  <2>1. Holds(cacheFile, LinesBut(cacheStore, p.name))
    BY <1>1, <1>3, LinesSplit
  <2>2. Holds(Added(cacheFile, p.rules), LinesBut(cacheStore, p.name) \cup LinesOf(p))
    BY <1>1, <1>3, <2>1, AddHolds
  <2>3. LinesAsked(store) \cup RangeOf(ImageLines) = LinesBut(cacheStore, p.name) \cup LinesOf(p)
    BY <1>1, LinesSplit
  <2> QED BY <2>2, <2>3
<1> QED BY <1>2, <1>3 DEF CachePlans

LEMMA RewritePlans ==
    ASSUME NEW ls \in Seq(CacheLines), NEW store,
           CacheOrderly(CachePolicies)
           /\ Holds(cacheFile, LinesAsked(cacheStore) \cup RangeOf(ImageLines))
           => Holds(ls, LinesAsked(store) \cup RangeOf(ImageLines))
    PROVE  CachePlans(Rewrite(ls), store)
<1>1. Rewrite(ls) \in Seq(CacheOps) /\ Rewrite(ls) # <<>>
  BY RewriteProgram
<1>2. Leads(cacheFile, Rewrite(ls), ls)
  BY <1>1 DEF Leads, Rewrites
<1> QED BY <1>1, <1>2 DEF CachePlans

LEMMA UpdatePlans ==
    ASSUME CacheTypeOK, CacheFiled(cacheStore), NEW p \in CachePolicies, p.rules # NoRules,
           cacheStore[p.name] # NoCachePolicy,
           NEW store, CacheFiles(store, cacheStore, p.name, p)
    PROVE  CachePlans(CacheUpdate(p.rules), store)
<1> DEFINE ls == ReplaceEach(cacheFile, CompleteRules(p.rules))
<1>1. cacheStore \in CacheStores /\ p.name \in CacheNames /\ cacheFile \in Seq(CacheLines)
  BY DEF CacheTypeOK, CacheStores, CacheNames
<1>2. ls \in Seq(CacheLines)
  <2>1. CompleteRules(p.rules) \in Seq(CompleteOf(p)) /\
          \A r \in CompleteOf(p) : Line(r) \in CacheLines
    BY PolicyFacts DEF CompleteOf
  <2> QED BY <1>1, <2>1, ReplaceEachFacts
<1>3. ASSUME CacheOrderly(CachePolicies),
             Holds(cacheFile, LinesAsked(cacheStore) \cup RangeOf(ImageLines))
      PROVE  Holds(ls, LinesAsked(store) \cup RangeOf(ImageLines))
  <2>1. Holds(cacheFile, LinesBut(cacheStore, p.name) \cup LinesOf(cacheStore[p.name]))
    BY <1>1, <1>3, LinesSplit
  <2>2. Holds(ls, LinesBut(cacheStore, p.name) \cup LinesOf(p))
    BY <1>1, <1>3, <2>1, UpdateHolds
  <2>3. LinesAsked(store) \cup RangeOf(ImageLines) = LinesBut(cacheStore, p.name) \cup LinesOf(p)
    BY <1>1, LinesSplit
  <2> QED BY <2>2, <2>3
<1>4. CacheUpdate(p.rules) = Rewrite(ls)
  BY DEF CacheUpdate
<1> HIDE DEF ls
<1> QED BY <1>2, <1>3, <1>4, RewritePlans

LEMMA DeletePlans ==
    ASSUME CacheTypeOK, CacheFiled(cacheStore), NEW n \in CacheNames,
           cacheStore[n] # NoCachePolicy, cacheStore[n].rules # NoRules,
           NEW store, CacheFiles(store, cacheStore, n, NoCachePolicy)
    PROVE  CachePlans(CacheDelete(cacheStore[n].rules), store)
<1> DEFINE S == {line \in RangeOf(cacheFile) :
                    \A r \in ToDelete(cacheStore[n].rules) : ~LineContains(line, r)}
           ls == Keep(cacheFile, S)
<1>1. cacheStore \in CacheStores /\ cacheFile \in Seq(CacheLines) /\ LinesOf(NoCachePolicy) = {}
  BY DEF CacheTypeOK, CacheStores, LinesOf
<1>2. ls \in Seq(CacheLines)
  <2> HIDE DEF S
  <2> QED BY <1>1, KeepFacts
<1>3. ASSUME CacheOrderly(CachePolicies),
             Holds(cacheFile, LinesAsked(cacheStore) \cup RangeOf(ImageLines))
      PROVE  Holds(ls, LinesAsked(store) \cup RangeOf(ImageLines))
  <2>1. Holds(cacheFile, LinesBut(cacheStore, n) \cup LinesOf(cacheStore[n]))
    BY <1>1, <1>3, LinesSplit
  <2>2. Holds(ls, LinesBut(cacheStore, n))
    BY <1>1, <1>3, <2>1, DeleteHolds
  <2>3. LinesAsked(store) \cup RangeOf(ImageLines) = LinesBut(cacheStore, n)
    BY <1>1, LinesSplit
  <2> QED BY <2>2, <2>3
<1>4. CacheDelete(cacheStore[n].rules) = Rewrite(ls)
  BY DEF CacheDelete
<1> HIDE DEF ls
<1> QED BY <1>2, <1>3, <1>4, RewritePlans

(* A callback about the policies of a name: it files p, and looks at q. *)
CacheTakes(n, p, q) ==
    /\ CacheFiles(cacheStore', cacheStore, n, p)
    /\ cacheFile' = cacheFile /\ atsCache' = atsCache
    /\ \/ /\ q.rules = NoRules
          /\ cacheTodo' = cacheTodo /\ cacheFaults' = cacheFaults
       \/ /\ cacheFaults < MaxCacheFaults /\ cacheFaults' = cacheFaults + 1
          /\ cacheTodo' = cacheTodo
       \/ /\ q.rules # NoRules
          /\ CachePlans(cacheTodo', cacheStore')
          /\ cacheFaults' = cacheFaults

LEMMA CacheEventTakes ==
    ASSUME CacheTypeOK, CacheFiled(cacheStore), CacheEvent
    PROVE  /\ CacheIdle
           /\ \E n \in CacheNames : \E q \in CachePolicies : \E p \in {q, NoCachePolicy} :
                q.name = n /\ CacheTakes(n, p, q)
<1>1. ASSUME NEW q \in CachePolicies, AddCachePolicy(q)
      PROVE  CacheTakes(q.name, q, q)
  <2>1. CacheFiles(cacheStore', cacheStore, q.name, q) /\ cacheStore[q.name] = NoCachePolicy
    BY <1>1 DEF AddCachePolicy, CacheFiles
  <2>2. CacheDeliver(q.rules, CacheAdd(q.rules))
    BY <1>1 DEF AddCachePolicy
  <2>3. q.rules # NoRules => CachePlans(CacheAdd(q.rules), cacheStore')
    BY <2>1, AddPlans
  <2> QED BY <2>1, <2>2, <2>3 DEF CacheDeliver, CacheTakes
<1>2. ASSUME NEW q \in CachePolicies, UpdateCachePolicy(q)
      PROVE  CacheTakes(q.name, q, q)
  <2>1. CacheFiles(cacheStore', cacheStore, q.name, q) /\ cacheStore[q.name] # NoCachePolicy
    BY <1>2 DEF UpdateCachePolicy, CacheFiles
  <2>2. CacheDeliver(q.rules, CacheUpdate(q.rules))
    BY <1>2 DEF UpdateCachePolicy
  <2>3. q.rules # NoRules => CachePlans(CacheUpdate(q.rules), cacheStore')
    BY <2>1, UpdatePlans
  <2> QED BY <2>1, <2>2, <2>3 DEF CacheDeliver, CacheTakes
<1>3. ASSUME NEW n \in CacheNames, DeleteCachePolicy(n)
      PROVE  /\ cacheStore[n] \in CachePolicies /\ cacheStore[n].name = n
             /\ CacheTakes(n, NoCachePolicy, cacheStore[n])
  <2>1. CacheFiles(cacheStore', cacheStore, n, NoCachePolicy) /\ cacheStore[n] # NoCachePolicy
    BY <1>3 DEF DeleteCachePolicy, CacheFiles
  <2>2. CacheDeliver(cacheStore[n].rules, CacheDelete(cacheStore[n].rules))
    BY <1>3 DEF DeleteCachePolicy
  <2>3. cacheStore[n].rules # NoRules => CachePlans(CacheDelete(cacheStore[n].rules), cacheStore')
    BY <2>1, DeletePlans
  <2>4. CacheTakes(n, NoCachePolicy, cacheStore[n])
    BY <2>1, <2>2, <2>3 DEF CacheDeliver, CacheTakes
  <2> QED BY <2>1, <2>4 DEF CacheTypeOK, CacheFiled
<1>4. CacheIdle
  BY DEF CacheEvent, AddCachePolicy, UpdateCachePolicy, DeleteCachePolicy, CacheDeliver
<1>5. \A q \in CachePolicies : q.name \in CacheNames
  BY DEF CacheNames
<1>6. CASE \E q \in CachePolicies : AddCachePolicy(q) \/ UpdateCachePolicy(q)
  BY <1>1, <1>2, <1>4, <1>5, <1>6
<1>7. CASE \E n \in CacheNames : DeleteCachePolicy(n)
  BY <1>3, <1>4, <1>7
<1> QED BY <1>6, <1>7 DEF CacheEvent

LEMMA CacheStoredTakes ==
    ASSUME cacheStore \in CacheStores, CacheFiled(cacheStore), NEW n \in CacheNames,
           NEW q \in CachePolicies, q.name = n, NEW p \in {q, NoCachePolicy}, CacheTakes(n, p, q)
    PROVE  cacheStore' \in CacheStores /\ CacheFiled(cacheStore')
<1>1. cacheStore' = [cacheStore EXCEPT ![n] = p]
  BY DEF CacheTakes, CacheFiles
<1> QED BY <1>1 DEF CacheStores, CacheFiled

LEMMA CacheStoredNothing ==
    ASSUME NEW store, store = [n \in CacheNames |-> NoCachePolicy]
    PROVE  store \in CacheStores /\ CacheFiled(store) /\ LinesAsked(store) = {}
<1>1. store \in CacheStores /\ \A n \in CacheNames : store[n] = NoCachePolicy
  BY DEF CacheStores
<1> QED BY <1>1 DEF CacheFiled, LinesAsked, LinesOf

CacheTyped == CacheTypeOK /\ CacheFiled(cacheStore)

LEMMA CacheTypedAlways == CacheSpec => []CacheTyped
<1>1. ImageLines \in Seq(CacheLines) /\ <<>> \in Seq(CacheOps) /\ <<>> \in Seq(CacheLines)
  <2>1. RangeOf(ImageLines) \subseteq CacheLines
    BY DEF CacheLines
  <2>2. \A S, T, s : S \subseteq T /\ s \in Seq(S) => s \in Seq(T)
    OBVIOUS
  <2> QED BY <2>1, <2>2, CachePoliciesAssumption
<1>2. CacheInit => CacheTyped
  <2> SUFFICES ASSUME CacheInit
               PROVE  CacheTyped
    OBVIOUS
  <2>1. cacheStore \in CacheStores /\ CacheFiled(cacheStore)
    BY CacheStoredNothing DEF CacheInit
  <2> QED BY <1>1, <2>1, CacheFaultsAssumption
          DEF CacheInit, CacheTyped, CacheTypeOK, CacheStores, CacheOps
<1>3. CacheTyped /\ [CacheNext]_cacheVars => CacheTyped'
  <2> SUFFICES ASSUME CacheTyped, [CacheNext]_cacheVars
               PROVE  CacheTyped'
    OBVIOUS
  <2>0. /\ cacheFile \in Seq(CacheLines) /\ atsCache \in Seq(CacheLines)
        /\ cacheStore \in CacheStores /\ CacheFiled(cacheStore)
        /\ cacheTodo \in Seq(CacheOps) /\ cacheFaults \in 0..MaxCacheFaults
    BY DEF CacheTyped, CacheTypeOK, CacheStores, CacheOps
  <2> SUFFICES /\ cacheFile' \in Seq(CacheLines) /\ atsCache' \in Seq(CacheLines)
               /\ cacheStore' \in CacheStores /\ CacheFiled(cacheStore')
               /\ cacheTodo' \in Seq(CacheOps) /\ cacheFaults' \in 0..MaxCacheFaults
    BY DEF CacheTyped, CacheTypeOK, CacheStores, CacheOps
  <2>1. CASE CacheEvent
    <3>1. PICK n \in CacheNames, q \in CachePolicies :
                \E p \in {q, NoCachePolicy} : q.name = n /\ CacheTakes(n, p, q)
      BY <2>1, CacheEventTakes DEF CacheTyped
    <3>2. PICK p \in {q, NoCachePolicy} : q.name = n /\ CacheTakes(n, p, q)
      BY <3>1
    <3>3. cacheStore' \in CacheStores /\ CacheFiled(cacheStore')
      BY <2>0, <3>2, CacheStoredTakes
    <3>4. cacheTodo' \in Seq(CacheOps) /\ cacheFaults' \in 0..MaxCacheFaults
      BY <2>0, <3>2, CacheFaultsAssumption DEF CacheTakes, CachePlans
    <3> QED BY <2>0, <3>2, <3>3, <3>4 DEF CacheTakes
  <2>2. CASE CacheExec
    <3>1. cacheTodo # <<>> /\ Head(cacheTodo) \in CacheOps /\ Tail(cacheTodo) \in Seq(CacheOps)
      BY <2>0, <2>2 DEF CacheExec, CacheIdle
    <3>2. /\ Head(cacheTodo).op \in {"append", "truncate", "write", "reload"}
          /\ Head(cacheTodo).lines \in Seq(CacheLines)
      BY <3>1 DEF CacheOps
    <3>3. cacheFile \o Head(cacheTodo).lines \in Seq(CacheLines)
      BY <2>0, <3>2
    <3>4. cacheFile' \in Seq(CacheLines) /\ atsCache' \in Seq(CacheLines)
      BY <1>1, <2>0, <2>2, <3>2, <3>3 DEF CacheExec
    <3> QED BY <2>0, <2>2, <3>1, <3>4 DEF CacheExec
  <2>3. CASE CacheFail
    <3>1. <<Reload>> \in Seq(CacheOps)
      BY OpFacts
    <3>2. cacheTodo # <<>> /\ Tail(cacheTodo) \in Seq(CacheOps)
      BY <2>0, <2>3 DEF CacheFail, CacheIdle
    <3>3. cacheTodo' \in Seq(CacheOps)
      BY <2>3, <3>1, <3>2 DEF CacheFail
    <3>4. cacheFaults' \in 0..MaxCacheFaults
      BY <2>0, <2>3, CacheFaultsAssumption DEF CacheFail
    <3> QED BY <2>0, <2>3, <3>3, <3>4 DEF CacheFail
  <2>4. CASE SniHandlerReloads
    BY <2>0, <2>4 DEF SniHandlerReloads
  <2>5. CASE CacheRestart
    <3>1. cacheStore' \in CacheStores /\ CacheFiled(cacheStore')
      BY <2>5, CacheStoredNothing DEF CacheRestart
    <3> QED BY <1>1, <2>0, <2>5, <3>1 DEF CacheRestart
  <2>6. CASE UNCHANGED cacheVars
    BY <2>0, <2>6 DEF cacheVars
  <2> QED BY <2>1, <2>2, <2>3, <2>4, <2>5, <2>6 DEF CacheNext, CacheOther
<1> QED BY <1>2, <1>3, PTL DEF CacheSpec

(* The type invariant: cache.config and what is to be written have lines   *)
(* of the image and of rules only, whatever fails and whoever reloads.     *)
THEOREM CacheTypeCorrect == CacheSpec => []CacheTypeOK
<1>1. CacheTyped => CacheTypeOK
  BY DEF CacheTyped
<1> QED BY <1>1, CacheTypedAlways, PTL

(* The file the callback ends with has what is asked for, and between      *)
(* callbacks Traffic Server has read it, while nothing has failed.         *)
CacheFollows ==
    /\ \E ls \in Seq(CacheLines) :
        /\ Leads(cacheFile, cacheTodo, ls)
        /\ Holds(ls, LinesAsked(cacheStore) \cup RangeOf(ImageLines))
    /\ CacheIdle => atsCache = cacheFile

CacheFaithful == CacheTyped /\ (cacheFaults = 0 => CacheFollows)

LEMMA CacheFollowsTakes ==
    ASSUME CacheOrderly(CachePolicies), CacheFaithful, CacheIdle, cacheFaults' = 0,
           NEW n \in CacheNames, NEW q \in CachePolicies, q.name = n,
           NEW p \in {q, NoCachePolicy}, CacheTakes(n, p, q)
    PROVE  CacheFollows'
<1>1. cacheFaults \in Nat /\ cacheStore \in CacheStores /\ CacheFiled(cacheStore)
  BY CacheFaultsAssumption DEF CacheFaithful, CacheTyped, CacheTypeOK, CacheStores
<1>2. cacheFaults = 0 /\ cacheFile' = cacheFile /\ atsCache' = atsCache
  BY <1>1 DEF CacheTakes
<1>3. atsCache = cacheFile /\ cacheTodo = <<>> /\ cacheFile \in Seq(CacheLines)
      /\ Holds(cacheFile, LinesAsked(cacheStore) \cup RangeOf(ImageLines))
  BY <1>2 DEF CacheFaithful, CacheFollows, CacheIdle, Leads, CacheTyped, CacheTypeOK
<1>4. CASE q.rules = NoRules /\ cacheTodo' = cacheTodo
  <2>1. LinesOf(p) = {} /\ LinesOf(cacheStore[n]) = {}
    <3>1. \A r \in CompleteOf(q) : FALSE
      BY <1>4 DEF CompleteOf, CachedOf
    <3>2. cacheStore[n] # NoCachePolicy => cacheStore[n] \in CachePolicies /\ cacheStore[n].name = n
      BY <1>1 DEF CacheStores, CacheFiled
    <3>3. cacheStore[n] # NoCachePolicy => CompleteOf(cacheStore[n]) = {}
      BY <3>1, <3>2 DEF CacheOrderly
    <3> QED BY <3>1, <3>3 DEF LinesOf
  <2>2. CacheFiles(cacheStore', cacheStore, n, p)
    BY DEF CacheTakes
  <2>3. LinesAsked(cacheStore') \cup RangeOf(ImageLines) = LinesBut(cacheStore, n) \cup LinesOf(p)
    BY <1>1, <2>2, LinesSplit
  <2>4. LinesAsked(cacheStore) \cup RangeOf(ImageLines)
            = LinesBut(cacheStore, n) \cup LinesOf(cacheStore[n])
    BY <1>1, LinesSplit
  <2>5. Holds(cacheFile, LinesAsked(cacheStore') \cup RangeOf(ImageLines))
    BY <1>3, <2>1, <2>3, <2>4
  <2> QED BY <1>2, <1>3, <1>4, <2>5 DEF CacheFollows, Leads
<1>5. CASE CachePlans(cacheTodo', cacheStore')
  <2>1. PICK ls \in Seq(CacheLines) :
            /\ Leads(cacheFile, cacheTodo', ls)
            /\ Holds(ls, LinesAsked(cacheStore') \cup RangeOf(ImageLines))
    BY <1>3, <1>5 DEF CachePlans
  <2>2. cacheTodo' # <<>>
    BY <1>5 DEF CachePlans
  <2> QED BY <1>2, <2>1, <2>2 DEF CacheFollows, CacheIdle
<1>6. cacheFaults' = cacheFaults
  BY <1>2
<1> QED BY <1>1, <1>2, <1>4, <1>5 DEF CacheTakes

LEMMA CacheFollowsExec ==
    ASSUME CacheFaithful, cacheFaults = 0, CacheExec
    PROVE  CacheFollows'
<1>1. /\ cacheFile \in Seq(CacheLines) /\ cacheTodo \in Seq(CacheOps) /\ cacheTodo # <<>>
      /\ cacheTodo' = Tail(cacheTodo) /\ cacheStore' = cacheStore
  BY DEF CacheFaithful, CacheTyped, CacheTypeOK, CacheOps, CacheExec, CacheIdle
<1>2. PICK ls \in Seq(CacheLines) :
            /\ Leads(cacheFile, cacheTodo, ls)
            /\ Holds(ls, LinesAsked(cacheStore) \cup RangeOf(ImageLines))
  BY DEF CacheFaithful, CacheFollows
<1> SUFFICES Leads(cacheFile', cacheTodo', ls) /\ (cacheTodo' = <<>> => atsCache' = cacheFile')
  BY <1>1, <1>2 DEF CacheFollows, CacheIdle
<1>3. CASE Appends(cacheFile, cacheTodo, ls)
  <2>1. CASE Head(cacheTodo) = Reload /\ Tail(cacheTodo) = <<>> /\ ls = cacheFile
    <3>1. cacheFile' = cacheFile /\ atsCache' = cacheFile
      BY <2>1, OpFacts DEF CacheExec
    <3> QED BY <1>1, <2>1, <3>1 DEF Leads
  <2>2. CASE /\ Head(cacheTodo).op = "append" /\ Tail(cacheTodo) # <<>>
             /\ Appends(cacheFile \o Head(cacheTodo).lines, Tail(cacheTodo), ls)
    <3>1. cacheFile' = cacheFile \o Head(cacheTodo).lines
      BY <2>2 DEF CacheExec
    <3> QED BY <1>1, <2>2, <3>1 DEF Leads
  <2> QED BY <1>1, <1>3, <2>1, <2>2, AppendStep
<1>4. CASE Rewrites(cacheTodo, ls)
  <2>1. CASE Head(cacheTodo) = Truncate /\ Tail(cacheTodo) # <<>> /\ Rewrites(Tail(cacheTodo), ls)
    BY <1>1, <2>1 DEF Leads
  <2>2. CASE Head(cacheTodo) = WriteLines(ls) /\ Tail(cacheTodo) # <<>> /\
          Appends(ls, Tail(cacheTodo), ls)
    <3>1. cacheFile' = ls
      BY <2>2, OpFacts DEF CacheExec
    <3> QED BY <1>1, <2>2, <3>1 DEF Leads
  <2> QED BY <1>4, <2>1, <2>2, RewriteStep
<1> QED BY <1>1, <1>2, <1>3, <1>4 DEF Leads

LEMMA CacheFaithfulAlways ==
    ASSUME CacheOrderly(CachePolicies)
    PROVE  CacheSpec => []CacheFaithful
<1>1. ASSUME NEW store, NEW file, NEW todo, store = [n \in CacheNames |-> NoCachePolicy],
             file = ImageLines, todo = <<>>
      PROVE  \E ls \in Seq(CacheLines) :
                Leads(file, todo, ls) /\ Holds(ls, LinesAsked(store) \cup RangeOf(ImageLines))
  <2>1. ImageLines \in Seq(CacheLines)
    <3>1. RangeOf(ImageLines) \subseteq CacheLines
      BY DEF CacheLines
    <3>2. \A S, T, s : S \subseteq T /\ s \in Seq(S) => s \in Seq(T)
      OBVIOUS
    <3> QED BY <3>1, <3>2, CachePoliciesAssumption
  <2>2. Once(ImageLines)
    BY DEF CacheOrderly, Once
  <2>3. LinesAsked(store) = {}
    BY <1>1, CacheStoredNothing
  <2>4. Leads(file, todo, ImageLines)
    BY <1>1 DEF Leads
  <2> QED BY <2>1, <2>2, <2>3, <2>4 DEF Holds
<1>2. CacheInit => (cacheFaults = 0 => CacheFollows)
  BY <1>1 DEF CacheInit, CacheFollows
<1>3. CacheFaithful /\ CacheTyped' /\ [CacheNext]_cacheVars => (cacheFaults = 0 => CacheFollows)'
  <2> SUFFICES ASSUME CacheFaithful, CacheTyped', [CacheNext]_cacheVars, cacheFaults' = 0
               PROVE  CacheFollows'
    OBVIOUS
  <2>1. CASE CacheEvent
    <3>1. CacheIdle /\ \E n \in CacheNames : \E q \in CachePolicies : \E p \in {q, NoCachePolicy} :
                            q.name = n /\ CacheTakes(n, p, q)
      BY <2>1, CacheEventTakes DEF CacheFaithful, CacheTyped
    <3>2. PICK n \in CacheNames, q \in CachePolicies :
                \E p \in {q, NoCachePolicy} : q.name = n /\ CacheTakes(n, p, q)
      BY <3>1
    <3>3. PICK p \in {q, NoCachePolicy} : q.name = n /\ CacheTakes(n, p, q)
      BY <3>2
    <3> QED BY <3>1, <3>3, CacheFollowsTakes
  <2>2. CASE CacheExec
    <3>1. cacheFaults = 0
      BY <2>2 DEF CacheExec
    <3> QED BY <2>2, <3>1, CacheFollowsExec
  <2>3. CASE CacheFail
    BY <2>3, CacheFaultsAssumption DEF CacheFail, CacheFaithful, CacheTyped, CacheTypeOK
  <2>4. CASE SniHandlerReloads
    <3>1. cacheFaults = 0 /\ CacheFollows
      BY <2>4 DEF SniHandlerReloads, CacheFaithful
    <3> QED BY <2>4, <3>1 DEF SniHandlerReloads, CacheFollows, CacheIdle
  <2>5. CASE CacheRestart
    <3>1. /\ cacheStore' = [n \in CacheNames |-> NoCachePolicy] /\ cacheFile' = ImageLines
          /\ cacheTodo' = <<>> /\ atsCache' = cacheFile'
      BY <2>5 DEF CacheRestart
    <3> QED BY <1>1, <3>1 DEF CacheFollows
  <2>6. CASE UNCHANGED cacheVars
    <3>1. cacheFaults = 0 /\ CacheFollows
      BY <2>6 DEF cacheVars, CacheFaithful
    <3> QED BY <2>6, <3>1 DEF cacheVars, CacheFollows, CacheIdle
  <2> QED BY <2>1, <2>2, <2>3, <2>4, <2>5, <2>6 DEF CacheNext, CacheOther
<1> QED BY <1>2, <1>3, CacheTypedAlways, PTL DEF CacheSpec, CacheFaithful

(* What is in a sequence once is counted by its length. *)
LEMMA OnceCounts ==
    ASSUME NEW E, NEW seq \in Seq(E), Once(seq)
    PROVE  Len(seq) = Cardinality(RangeOf(seq))
<1> DEFINE n == Len(seq)
           S == RangeOf(seq)
           f == [i \in 1..n |-> seq[i]]
<1>1. n \in Nat /\ DOMAIN seq = 1..n
  OBVIOUS
<1>2. f \in Bijection(1..n, S)
  BY <1>1 DEF Bijection, Injection, Surjection, IsInjective, RangeOf, Once
<1>3. ExistsBijection(1..n, S)
  BY <1>2 DEF ExistsBijection
<1> HIDE DEF n, S
<1> QED BY <1>1, <1>3, FS_CountingElements DEF n, S

(* Policies with one rule of a type that keep their patterns, none of      *)
(* which begins another's (handlerCache.go:37-204): between callbacks      *)
(* Traffic Server runs with the lines of the image and of the policies,    *)
(* each once, and with nothing else, whenever the SNI handler reloads it.  *)
THEOREM CacheSettles ==
    ASSUME CacheOrderly(CachePolicies)
    PROVE  CacheSpec => []CacheSettled
<1>1. CacheFaithful => CacheSettled
  <2> SUFFICES ASSUME CacheFaithful, CacheIdle, cacheFaults = 0
               PROVE  /\ RangeOf(atsCache) = AskedLines \cup RangeOf(ImageLines)
                      /\ Len(atsCache) = Cardinality(RangeOf(atsCache))
    BY DEF CacheSettled
  <2>1. /\ atsCache = cacheFile /\ cacheFile \in Seq(CacheLines)
        /\ Holds(cacheFile, LinesAsked(cacheStore) \cup RangeOf(ImageLines))
    BY DEF CacheFaithful, CacheTyped, CacheTypeOK, CacheFollows, CacheIdle, Leads
  <2>2. AskedLines = LinesAsked(cacheStore)
    BY AskedLinesIs DEF CacheFaithful, CacheTyped, CacheTypeOK, CacheStores
  <2> QED BY <2>1, <2>2, OnceCounts DEF Holds
<1> QED BY <1>1, CacheFaithfulAlways, PTL
==============================================================================
