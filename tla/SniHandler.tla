----------------------------- MODULE SniHandler -----------------------------
(***************************************************************************)
(* The SNI policy handler (watcher/handlerSni.go), its informer, sni.yaml  *)
(* and what Traffic Server has loaded of it.  The handler's mutex and the  *)
(* informer let one callback run at a time.                                *)
(*                                                                         *)
(* A policy is [name, sni]; sni is a sequence of entries [fqdn, setting],  *)
(* or NoSni when spec.sni is not there.  The contents of sni.yaml are a    *)
(* sequence of entries too, <<>> when the file is empty, not there, or     *)
(* only comments.                                                          *)
(***************************************************************************)
EXTENDS Integers, SequencesExt

CONSTANTS
    Policies,      \* the policies users may declare
    NoPolicy,      \* no policy of that name
    NoSni,         \* no spec.sni
    NoFqdn,        \* no fqdn in an entry
    ImageSni,      \* the sni.yaml of the container image
    MaxSniFaults   \* bound on the reads, writes and reloads that fail

Elements(entries) == {entries[i] : i \in DOMAIN entries}

ASSUME SniFaultsAssumption == MaxSniFaults \in Nat
ASSUME PoliciesAssumption ==
    /\ NoPolicy \notin Policies
    /\ ImageSni \in Seq(Elements(ImageSni))
    /\ \A p \in Policies : p.sni # NoSni => p.sni \in Seq(Elements(p.sni))

SniNames == {p.name : p \in Policies}

VARIABLES
    sniFile,    \* the entries in sni.yaml
    atsSni,     \* the entries Traffic Server has loaded
    sniStore,   \* the informer's store: the policy of each name
    sniPhase,   \* what the callback does next
    sniNext,    \* the entries it is about to write
    sniFaults   \* how many file operations and reloads failed

sniVars == <<sniFile, atsSni, sniStore, sniPhase, sniNext, sniFaults>>

SniIdle == sniPhase = "idle"

SniInit ==
    /\ sniFile = ImageSni
    /\ atsSni = ImageSni
    /\ sniStore = [n \in SniNames |-> NoPolicy]
    /\ sniPhase = "idle"
    /\ sniNext = <<>>
    /\ sniFaults = 0

-----------------------------------------------------------------------------
(* The fqdns of the entries the handlers look at. *)
Fqdns(sni) == {sni[i].fqdn : i \in DOMAIN sni} \ {NoFqdn}

(* The last entry of a policy with this fqdn. *)
EntryOf(sni, fqdn) == SelectLastInSeq(sni, LAMBDA e : e.fqdn = fqdn)

(* Wrong: an entry that is there already is added once more. *)
PutAtEnd(file, e) == Append(file, e)

(* An entry takes the place of the first with its fqdn, or goes last. *)
Put(file, e) ==
    LET i == SelectInSeq(file, LAMBDA f : f.fqdn = e.fqdn)
    IN  IF i = 0 THEN Append(file, e) ELSE [file EXCEPT ![i] = e]

(* The entries of a policy one by one; those without an fqdn are skipped.  *)
SniAdd(file, sni) ==
    LET added[i \in 0..Len(sni)] ==
            IF i = 0 THEN file
            ELSE IF sni[i].fqdn = NoFqdn THEN added[i - 1] ELSE Put(added[i - 1], sni[i])
    IN  added[Len(sni)]

(* Wrong: what is not in the file is not added. *)
SniUpdateReplacesOnly(file, sni, order) ==
    [i \in DOMAIN file |->
        IF file[i].fqdn \in Fqdns(sni) THEN sni[EntryOf(sni, file[i].fqdn)] ELSE file[i]]

(* Entries of the new object replace theirs; the fqdns that are new to the *)
(* file follow in an order the Go runtime picks.                           *)
SniUpdate(file, sni, order) ==
    [i \in DOMAIN file |->
        IF file[i].fqdn \in Fqdns(sni) THEN sni[EntryOf(sni, file[i].fqdn)] ELSE file[i]]
        \o [i \in DOMAIN order |-> sni[EntryOf(sni, order[i])]]

(* Wrong: the entries lose their fqdn only. *)
SniDeleteBlanks(file, sni) ==
    [i \in DOMAIN file |->
        IF file[i].fqdn \in Fqdns(sni) THEN [file[i] EXCEPT !.fqdn = NoFqdn] ELSE file[i]]

(* Wrong: only the first match goes. *)
SniDeleteFirst(file, sni) == RemoveFirstMatch(file, LAMBDA e : e.fqdn \in Fqdns(sni))

(* The entries of the policy go, the others stay in their order. *)
SniDelete(file, sni) ==
    LET kept[i \in 0..Len(file)] ==
            IF i = 0 THEN <<>>
            ELSE IF file[i].fqdn \in Fqdns(sni) THEN kept[i - 1] ELSE Append(kept[i - 1], file[i])
    IN  kept[Len(file)]

-----------------------------------------------------------------------------
(* The callback loads sni.yaml; a file that cannot be read or parsed loads *)
(* as empty.                                                               *)
Load(file) ==
    \/ file = sniFile /\ UNCHANGED sniFaults
    \/ file = <<>> /\ sniFaults < MaxSniFaults /\ sniFaults' = sniFaults + 1

(* Without spec.sni it returns at once; otherwise it goes on to write. *)
Returns(sni) == sni = NoSni /\ UNCHANGED <<sniPhase, sniNext, sniFaults>>

Goes(entries) == sniPhase' = "write" /\ sniNext' = entries

AddPolicy(p) ==
    /\ SniIdle
    /\ sniStore[p.name] = NoPolicy
    /\ sniStore' = [sniStore EXCEPT ![p.name] = p]
    /\ \/ Returns(p.sni)
       \/ /\ p.sni # NoSni
          /\ \E file \in {sniFile, <<>>} : Load(file) /\ Goes(SniAdd(file, p.sni))
    /\ UNCHANGED <<sniFile, atsSni>>

(* A change of the policy, or its resync: update looks at the new object   *)
(* only.                                                                   *)
UpdatePolicy(p) ==
    /\ SniIdle
    /\ sniStore[p.name] # NoPolicy
    /\ sniStore' = [sniStore EXCEPT ![p.name] = p]
    /\ \/ Returns(p.sni)
       \/ /\ p.sni # NoSni
          /\ \E file \in {sniFile, <<>>} :
                /\ Load(file)
                /\ \E order \in SetToSeqs(Fqdns(p.sni) \ Fqdns(file)) :
                        Goes(SniUpdate(file, p.sni, order))
    /\ UNCHANGED <<sniFile, atsSni>>

DeletePolicy(n) ==
    /\ SniIdle
    /\ sniStore[n] # NoPolicy
    /\ sniStore' = [sniStore EXCEPT ![n] = NoPolicy]
    /\ LET sni == sniStore[n].sni IN
       \/ Returns(sni)
       \/ /\ sni # NoSni
          /\ \E file \in {sniFile, <<>>} : Load(file) /\ Goes(SniDelete(file, sni))
    /\ UNCHANGED <<sniFile, atsSni>>

(* Wrong: sni.yaml is emptied and written in place. *)
SniWriteInPlace ==
    /\ sniPhase = "write"
    /\ sniFile' = <<>>
    /\ sniPhase' = IF sniNext = <<>> THEN "reload" ELSE "rename"
    /\ UNCHANGED <<atsSni, sniStore, sniNext, sniFaults>>

(* writeSniFile: nothing to write empties the file; otherwise the entries  *)
(* go to a file of their own, which nothing reads ...                      *)
SniWrite ==
    /\ sniPhase = "write"
    /\ IF sniNext = <<>>
       THEN sniFile' = <<>> /\ sniPhase' = "reload"
       ELSE sniPhase' = "rename" /\ UNCHANGED sniFile
    /\ UNCHANGED <<atsSni, sniStore, sniNext, sniFaults>>

(* ... and takes the place of sni.yaml. *)
SniRename ==
    /\ sniPhase = "rename"
    /\ sniFile' = sniNext
    /\ sniPhase' = "reload"
    /\ UNCHANGED <<atsSni, sniStore, sniNext, sniFaults>>

SniReload ==
    /\ sniPhase = "reload"
    /\ atsSni' = sniFile
    /\ sniPhase' = "idle"
    /\ UNCHANGED <<sniFile, sniStore, sniNext, sniFaults>>

(* A write, a rename or a reload fails: the handler logs it at most, and   *)
(* reloads all the same after a write that failed.                         *)
SniFail ==
    /\ sniPhase \in {"write", "rename", "reload"}
    /\ sniFaults < MaxSniFaults
    /\ sniFaults' = sniFaults + 1
    /\ sniPhase' = IF sniPhase = "reload" THEN "idle" ELSE "reload"
    /\ UNCHANGED <<sniFile, atsSni, sniStore, sniNext>>

(* The caching handler reloads Traffic Server whenever it likes, and       *)
(* Traffic Server then reads every file that changed.                      *)
CacheHandlerReloads ==
    /\ atsSni' = sniFile
    /\ UNCHANGED <<sniFile, sniStore, sniPhase, sniNext, sniFaults>>

(* The container starts again from its image.  A deletion the watch missed *)
(* comes to this as well: the cast of a DeletedFinalStateUnknown panics.   *)
SniRestart ==
    /\ sniFile' = ImageSni
    /\ atsSni' = ImageSni
    /\ sniStore' = [n \in SniNames |-> NoPolicy]
    /\ sniPhase' = "idle"
    /\ sniNext' = <<>>
    /\ UNCHANGED sniFaults

PolicyEvent ==
    \/ \E p \in Policies : AddPolicy(p) \/ UpdatePolicy(p)
    \/ \E n \in SniNames : DeletePolicy(n)

SniStep == SniWrite \/ SniRename \/ SniReload

SniOther == SniFail \/ CacheHandlerReloads \/ SniRestart

SniNextState == PolicyEvent \/ SniStep \/ SniOther

SniSpec == SniInit /\ [][SniNextState]_sniVars

(* The callback's goroutine keeps running. *)
SniFairness == WF_sniVars(SniStep)

(* With -resyncPeriod a policy that stays in the store is delivered again  *)
(* and again; one without spec.sni is not looked at.                       *)
SniHasWork(n) == sniStore[n] # NoPolicy /\ sniStore[n].sni # NoSni

SniResync(n) == SniHasWork(n) /\ UpdatePolicy(sniStore[n])

SniResyncs == \A n \in SniNames : <>[]SniHasWork(n) => []<><<SniResync(n)>>_sniVars

SniResyncSpec == SniSpec /\ SniFairness /\ SniResyncs

-----------------------------------------------------------------------------
(* What a policy asks for: the last entry of each fqdn it names. *)
PolicyAsks(p) ==
    IF p.sni = NoSni THEN {} ELSE {p.sni[EntryOf(p.sni, f)] : f \in Fqdns(p.sni)}

Asked == UNION {PolicyAsks(p) : p \in {sniStore[n] : n \in SniNames} \ {NoPolicy}}

SniEntries ==
    Elements(ImageSni) \cup UNION {Elements(p.sni) : p \in {p \in Policies : p.sni # NoSni}}

(* Every variable holds a value of its kind. *)
SniTypeOK ==
    /\ {sniFile, atsSni, sniNext} \subseteq Seq(SniEntries)
    /\ sniStore \in [SniNames -> Policies \cup {NoPolicy}]
    /\ sniPhase \in {"idle", "write", "rename", "reload"}
    /\ sniFaults \in 0..MaxSniFaults

(* Between callbacks Traffic Server runs with what the policies ask for    *)
(* and with what the image had, and with nothing else                      *)
(* (handlerSni_test.go:95 says that an update removes what it dropped),    *)
(* as long as no read, write or reload has failed.                         *)
SniSettled ==
    SniIdle /\ sniFaults = 0 => Elements(atsSni) = Asked \cup Elements(ImageSni)

(* The entries with an fqdn differ in it. *)
OneEach(file) ==
    \A i, j \in DOMAIN file :
        i # j => file[i].fqdn # file[j].fqdn \/ file[i].fqdn = NoFqdn

(* Policies that share no fqdn with one another or with the image and, of  *)
(* one name, keep theirs.                                                  *)
FqdnsOf(p) == IF p.sni = NoSni THEN {} ELSE Fqdns(p.sni)

SniOrderly(policies) ==
    /\ OneEach(ImageSni)
    /\ \A p \in policies : FqdnsOf(p) \cap Fqdns(ImageSni) = {}
    /\ \A p, q \in policies : IF p.name = q.name THEN FqdnsOf(p) = FqdnsOf(q)
                                                 ELSE FqdnsOf(p) \cap FqdnsOf(q) = {}

(* An fqdn has one entry: Traffic Server would use the first of two, which *)
(* is the stale one.  However policies share fqdns and whatever fails.     *)
OneEntryPerFqdn == OneEach(sniFile)

(* The handler keeps the promise of Snapshot: "writeSniFile writes         *)
(* sni.yaml atomically" (handlerSni.go:252), so that Traffic Server, whose *)
(* reloads another handler may start at any moment, goes from the entries  *)
(* of one declaration to those of the next in one step, and gets there     *)
(* before the next change, as long as nothing has failed.                  *)
SniPromise == INSTANCE Snapshot
    WITH Entries <- SniEntries, Initial <- Elements(ImageSni),
         want <- Asked \cup Elements(ImageSni), loaded <- Elements(atsSni), lost <- sniFaults > 0

SniKeepsPromise == SniPromise!Spec

(* With resyncs whatever a failed read, write or reload lost comes back:   *)
(* again and again Traffic Server runs with every entry asked for.         *)
SniHeals == []<>(SniIdle /\ Asked \subseteq Elements(atsSni))
=============================================================================
