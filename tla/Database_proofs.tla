---------------------------- MODULE Database_proofs ----------------------------
(***************************************************************************)
(* Theorems about the two models of what fills the database beside the     *)
(* gateway: PriceSync, for every history of the catalogue, every set of    *)
(* legacy prices, all lengths of the lease, the retry and the interval,    *)
(* and every bound on days, overrides, edits and losses; and DataPipeline, *)
(* for every bound, every overlap of the gateway load and every set of     *)
(* calls whose user is new or unknown.                                     *)
(***************************************************************************)
EXTENDS PriceSync, DataPipeline,
        TLAPS, WellFoundedInduction, FiniteSetTheorems, SequenceTheorems

-----------------------------------------------------------------------------
(* Prices. *)

Snapshots == {i \in DOMAIN versions : versions[i].source = "openrouter"}
Working(p) == prog[p].pc \in {"fetch", "commit"}

Attempt == [pc : {"idle", "start", "fetch", "commit"}, left : 0..Lease,
            day : 0..MaxDay, seen : 0..Len(PriceOf)]

(* What the types of the variables are, field by field.                     *)
FieldsOK ==
    /\ local \in [linked : BOOLEAN, available : BOOLEAN, revision : Nat]
    /\ external \in [exists : BOOLEAN, available : BOOLEAN, revision : Nat]
    /\ prog \in [Programs -> Attempt]
    /\ spent \in [saves : Nat, edits : Nat, failures : Nat, crashes : Nat]

(* The days of a version, and what it says.                                 *)
VersionsOK ==
    /\ \A i \in DOMAIN versions : versions[i].source = "manual" => versions[i].key = "local"
    /\ \A i \in Snapshots :
         /\ versions[i].seen \in 1..remote
         /\ versions[i].from <= day + 1
         /\ versions[i].price = PriceOf[versions[i].seen]
         /\ versions[i].key = Target

(* An attempt has the time that is left of its lease, or none; and as long  *)
(* as it is the holder, nothing newer than what it has read is stored.      *)
AttemptsOK ==
    \A p \in Programs : Working(p) =>
        /\ prog[p].day \in 1..day
        /\ prog[p].pc = "commit" => prog[p].seen \in 1..remote
        /\ prog[p].left > 0 => HoldsLease(p) /\ prog[p].left = sync.lease
        /\ HoldsLease(p) => \A i \in Snapshots :
             /\ versions[i].from <= prog[p].day + 1
             /\ prog[p].pc = "commit" => versions[i].seen <= prog[p].seen

LeaseInv == TypeOK /\ FieldsOK /\ CatalogMovesForward /\ VersionsOK /\ AttemptsOK

(* A preview that may still be saved shows what is there.                   *)
DraftOK ==
    /\ draft.pc \in {"none", "read", "shown"}
    /\ draft.pc # "none" => draft.revision \in Nat /\ draft.revision <= local.revision
    /\ draft.pc = "shown" /\ draft.revision = local.revision
         => draft.others = [d \in Days |-> SelectPrice(Of("local"), d)]

PriceInv == LeaseInv /\ DraftOK

-----------------------------------------------------------------------------
(* The operators. *)

(* A nonempty set of numbers has a least one.                               *)
LEMMA LeastOf ==
  ASSUME NEW T \in SUBSET Nat, T # {}
  PROVE  \E t \in T : \A u \in T : ~(u < t)
<1>1. PICK t \in T : \A u \in T : <<u, t>> \notin OpToRel(<, Nat)
  BY NatLessThanWellFounded, WFMin, Zenon
<1>2. \A u \in T : ~(u < t)
  BY <1>1 DEF OpToRel
<1> QED
  BY <1>2

(* A bounded, nonempty set of numbers has a largest one.                    *)
LEMMA MaxOf ==
  ASSUME NEW b \in Nat, NEW S \in SUBSET (0..b), S # {}
  PROVE  Max(S) \in S /\ \A x \in S : Max(S) >= x
<1> DEFINE T == {b - x : x \in S}
<1>1. T \subseteq Nat /\ T # {}
  <2>1. \A x \in S : b - x \in Nat
    OBVIOUS
  <2>2. PICK x \in S : TRUE
    OBVIOUS
  <2>3. b - x \in T
    BY <2>2
  <2> QED
    BY <2>1, <2>3
<1>2. PICK t \in T : \A u \in T : ~(u < t)
  <2> HIDE DEF T
  <2> QED
    BY <1>1, LeastOf
<1>3. PICK m \in S : t = b - m
  OBVIOUS
<1>4. \A x \in S : m >= x
  <2> SUFFICES ASSUME NEW x \in S PROVE m >= x
    OBVIOUS
  <2>1. b - x \in T /\ b - x \in Nat /\ t \in Nat
    BY <1>1
  <2>2. ~(b - x < t)
    BY <1>2, <2>1
  <2> QED
    BY <1>3, <2>2
<1> QED
  BY <1>4 DEF Max

(* What the type of the history says of each version.                       *)
LEMMA VersionFacts ==
  ASSUME TypeOK
  PROVE  /\ Len(versions) \in Nat /\ DOMAIN versions = 1..Len(versions)
         /\ \A i \in DOMAIN versions :
              /\ versions[i] \in Version
              /\ versions[i].key \in {"local", "external"}
              /\ versions[i].source \in {"openrouter", "manual"}
              /\ versions[i].from \in Nat /\ versions[i].to \in Nat /\ versions[i].seen \in Nat
<1>1. versions \in Seq(Version)
  BY DEF TypeOK
<1>2. \A v \in Version :
        /\ v.key \in {"local", "external"} /\ v.source \in {"openrouter", "manual"}
        /\ v.from \in Nat /\ v.to \in Nat /\ v.seen \in Nat
  BY PriceAssumption DEF Version
<1>3. \A i \in 1..Len(versions) : versions[i] \in Version
  BY <1>1
<1> QED
  BY <1>1, <1>2, <1>3

LEMMA AppendFacts ==
  ASSUME TypeOK, NEW v \in Version, versions' = Append(versions, v)
  PROVE  /\ versions' \in Seq(Version)
         /\ (DOMAIN versions)' = DOMAIN versions \cup {Len(versions) + 1}
         /\ Len(versions) + 1 \notin DOMAIN versions
         /\ versions'[Len(versions) + 1] = v
         /\ \A i \in DOMAIN versions : versions'[i] = versions[i] /\ i < Len(versions) + 1
<1>1. versions \in Seq(Version)
  BY DEF TypeOK
<1>2. /\ Len(versions) \in Nat /\ DOMAIN versions = 1..Len(versions)
      /\ Len(versions') = Len(versions) + 1 /\ DOMAIN versions' = 1..Len(versions')
      /\ versions' \in Seq(Version)
  BY <1>1
<1>3. \A i \in 1..(Len(versions) + 1) :
        versions'[i] = IF i <= Len(versions) THEN versions[i] ELSE v
  BY <1>1
<1> QED
  BY <1>2, <1>3

(* Both kinds of version that are appended are versions.                    *)
LEMMA SnapshotType ==
  ASSUME NEW key \in {"local", "external"}, NEW price \in Prices,
         NEW from \in 1..(MaxDay + 1), NEW seen \in 0..Len(PriceOf)
  PROVE  Snapshot(key, price, from, seen) \in Version
BY PriceAssumption DEF Snapshot, Version

LEMMA OverrideType ==
  ASSUME NEW mode \in {"price", "auto"}, NEW from \in Days, NEW to \in {0} \cup Days
  PROVE  Override(mode, from, to) \in Version
BY PriceAssumption DEF Override, Version, Days

(* The last snapshot of a row is the last one of all that was appended.     *)
LEMMA LastSnapshotIs ==
  ASSUME LeaseInv, NEW j \in Snapshots
  PROVE  /\ LastSnapshot(Target) \in Snapshots
         /\ \A i \in Snapshots : i <= LastSnapshot(Target)
<1> DEFINE own == {i \in Of(Target) : versions[i].source = "openrouter"}
           m == Max(Snapshots)
<1>1. TypeOK /\ CatalogMovesForward /\ VersionsOK
  BY DEF LeaseInv
<1>2. own = Snapshots
  BY <1>1 DEF Of, Snapshots, VersionsOK
<1>3. Snapshots \in SUBSET (0..Len(versions)) /\ Len(versions) \in Nat
  BY <1>1, VersionFacts DEF Snapshots
<1>4. m \in Snapshots /\ \A i \in Snapshots : m >= i
  BY <1>3, MaxOf
<1>5. \A i \in Snapshots : i \in DOMAIN versions /\ i \in Nat /\ versions[i].from \in Nat
  BY <1>1, VersionFacts DEF Snapshots
<1>6. \A i \in Snapshots : i # m => versions[i].from <= versions[m].from
  <2> SUFFICES ASSUME NEW i \in Snapshots, i # m PROVE versions[i].from <= versions[m].from
    OBVIOUS
  <2>1. i < m
    BY <1>4, <1>5
  <2> QED
    BY <1>1, <1>4, <1>5, <2>1 DEF CatalogMovesForward, Snapshots
<1>7. \A i \in Snapshots : \/ versions[m].from > versions[i].from
                           \/ versions[m].from = versions[i].from /\ m >= i
  BY <1>4, <1>5, <1>6
<1>8. \A k \in Snapshots :
        (\A i \in Snapshots : \/ versions[k].from > versions[i].from
                              \/ versions[k].from = versions[i].from /\ k >= i)
        => k = m
  BY <1>4, <1>5, <1>6
<1>9. LastSnapshot(Target) = m
  <2> DEFINE c == CHOOSE k \in own : \A i \in own :
                    \/ versions[k].from > versions[i].from
                    \/ versions[k].from = versions[i].from /\ k >= i
  <2>1. own # {}
    BY <1>2
  <2>2. LastSnapshot(Target) = c
    BY <2>1 DEF LastSnapshot
  <2>3. c \in own /\ \A i \in own : \/ versions[c].from > versions[i].from
                                    \/ versions[c].from = versions[i].from /\ c >= i
    BY <1>2, <1>4, <1>7
  <2> QED
    BY <1>2, <1>8, <2>2, <2>3
<1> QED
  BY <1>4, <1>9

-----------------------------------------------------------------------------
(* The types. *)

Statuses == {"disabled", "queued", "running", "success", "failed"}
SyncRow ==
    [enabled : BOOLEAN, requested : BOOLEAN, due : 0..(Interval + Retry),
     holder : Programs \cup {"none"}, lease : 0..Lease, status : Statuses]

LEMMA InitTypes == PriceInit => TypeOK /\ FieldsOK
<1> SUFFICES ASSUME PriceInit PROVE TypeOK /\ FieldsOK
  OBVIOUS
<1> USE PriceAssumption
<1>1. day \in Days /\ remote \in Remotes
  <2>1. PriceOf \in Seq(Prices \cup {"gone"}) /\ Len(PriceOf) > 0
    OBVIOUS
  <2>2. DOMAIN PriceOf = 1..Len(PriceOf) /\ Len(PriceOf) \in Nat
    BY <2>1
  <2> QED
    BY <2>1, <2>2 DEF PriceInit, Days, Remotes
<1>2. sync \in SyncRow
  BY DEF PriceInit, SyncRow, Statuses
<1>3. versions \in Seq(Version) /\ DOMAIN versions = {}
  BY DEF PriceInit
<1>4. FieldsOK
  <2>1. Len(PriceOf) \in Nat
    OBVIOUS
  <2>2. [pc |-> "idle", left |-> 0, day |-> 0, seen |-> 0] \in Attempt
    BY <2>1 DEF Attempt
  <2> QED
    BY <2>2 DEF PriceInit, FieldsOK
<1> QED
  BY <1>1, <1>2, <1>3, <1>4 DEF TypeOK, PriceInit, FieldsOK, Attempt, SyncRow, Statuses

LEMMA PriceOfFacts == Len(PriceOf) \in Nat /\ Remotes = 1..Len(PriceOf)
  /\ \A r \in Remotes : PriceOf[r] \in Prices \cup {"gone"}
<1>1. PriceOf \in Seq(Prices \cup {"gone"})
  BY PriceAssumption
<1> QED
  BY <1>1 DEF Remotes

(* What a sync writes of the two rows and the history.                      *)
LEMMA CatalogTypes ==
  ASSUME LeaseInv, NEW p \in Programs, prog[p].pc = "commit", SyncCatalog(p)
  PROVE  /\ local' \in [linked : BOOLEAN, available : BOOLEAN, revision : Nat]
         /\ external' \in [exists : BOOLEAN, available : BOOLEAN, revision : Nat]
         /\ versions' \in Seq(Version)
         /\ \A i \in DOMAIN versions' :
              versions'[i].source = "openrouter" => versions'[i].mode = "price"
         /\ ~(local'.linked /\ external'.exists)
<1> DEFINE price == PriceOf[prog[p].seen]
           new == IF Changed(Target, price) THEN 1 ELSE 0
           v == Snapshot(Target, price, prog[p].day + 1, prog[p].seen)
<1>1. TypeOK /\ FieldsOK /\ AttemptsOK
  BY DEF LeaseInv
<1>2. prog[p].day \in 1..day /\ prog[p].seen \in 1..remote
  BY <1>1 DEF AttemptsOK, Working
<1>3. day \in 1..MaxDay /\ MaxDay \in Nat /\ remote \in 1..Len(PriceOf) /\ Len(PriceOf) \in Nat
  BY <1>1, PriceOfFacts, PriceAssumption DEF TypeOK, Days
<1>4. prog[p].seen \in Remotes /\ prog[p].day + 1 \in 1..(MaxDay + 1) /\ prog[p].seen \in 0..Len(PriceOf)
  BY <1>2, <1>3, PriceOfFacts
<1>5. Target \in {"local", "external"} /\ new \in {0, 1}
  BY DEF Target
<1>6. local.revision + new \in Nat /\ local.revision + 1 \in Nat /\ external.revision + new \in Nat
      /\ external.revision + 1 \in Nat
  BY <1>1, <1>5 DEF FieldsOK
<1>7. price # "gone" => v \in Version
  BY <1>4, <1>5, PriceOfFacts, SnapshotType
<1>8. /\ versions \in Seq(Version)
      /\ \A i \in DOMAIN versions : versions[i].source = "openrouter" => versions[i].mode = "price"
  BY <1>1 DEF TypeOK
<1>9. ASSUME price # "gone", versions' = Append(versions, v)
      PROVE  /\ versions' \in Seq(Version)
             /\ \A i \in DOMAIN versions' :
                  versions'[i].source = "openrouter" => versions'[i].mode = "price"
  <2>1. v.mode = "price"
    BY DEF Snapshot
  <2> HIDE DEF v
  <2> QED
    BY <1>1, <1>7, <1>8, <1>9, <2>1, AppendFacts
<1>10. CASE price = "gone"
  <2>1. UNCHANGED versions
    BY <1>10 DEF SyncCatalog
  <2>2. local' = local \/ local' = [local EXCEPT !.available = FALSE, !.revision = @ + 1]
    BY <1>10 DEF SyncCatalog
  <2>3. external' = external \/ external' = [external EXCEPT !.available = FALSE, !.revision = @ + 1]
    BY <1>10 DEF SyncCatalog
  <2> QED
    BY <1>1, <1>6, <1>8, <2>1, <2>2, <2>3 DEF FieldsOK, TypeOK
<1>11. CASE price # "gone"
  <2>1. \/ versions' = Append(versions, v) \/ UNCHANGED versions
    BY <1>11 DEF SyncCatalog
  <2>2. \/ /\ Target = "local" /\ external' = external
           /\ local' = [linked |-> TRUE, available |-> TRUE, revision |-> local.revision + new]
        \/ /\ Target = "external" /\ local' = local
           /\ external' = [exists |-> TRUE, available |-> TRUE, revision |-> external.revision + new]
    BY <1>5, <1>11 DEF SyncCatalog
  <2>3. Target = "local" => ~external.exists
    BY <1>1 DEF Target, TypeOK
  <2>4. Target = "external" => ~local.linked
    BY DEF Target
  <2>5. /\ versions' \in Seq(Version)
        /\ \A i \in DOMAIN versions' :
             versions'[i].source = "openrouter" => versions'[i].mode = "price"
    BY <1>8, <1>9, <1>11, <2>1
  <2>6. /\ local' \in [linked : BOOLEAN, available : BOOLEAN, revision : Nat]
        /\ external' \in [exists : BOOLEAN, available : BOOLEAN, revision : Nat]
    <3>1. /\ local \in [linked : BOOLEAN, available : BOOLEAN, revision : Nat]
          /\ external \in [exists : BOOLEAN, available : BOOLEAN, revision : Nat]
      BY <1>1 DEF FieldsOK
    <3>2. PICK m \in Nat, n \in Nat : m = local.revision + new /\ n = external.revision + new
      BY <1>6
    <3>3. \/ external' = external /\ local' = [linked |-> TRUE, available |-> TRUE, revision |-> m]
          \/ local' = local /\ external' = [exists |-> TRUE, available |-> TRUE, revision |-> n]
      BY <2>2, <3>2
    <3>4. /\ [linked |-> TRUE, available |-> TRUE, revision |-> m]
                \in [linked : BOOLEAN, available : BOOLEAN, revision : Nat]
          /\ [exists |-> TRUE, available |-> TRUE, revision |-> n]
                \in [exists : BOOLEAN, available : BOOLEAN, revision : Nat]
      OBVIOUS
    <3> QED
      BY <3>1, <3>3, <3>4, Zenon
  <2>7. ~(local'.linked /\ external'.exists)
    BY <2>2, <2>3, <2>4
  <2> QED
    BY <2>5, <2>6, <2>7
<1> QED
  BY <1>10, <1>11

LEMMA LessType == ASSUME NEW b \in Nat, NEW n \in 0..b PROVE Less(n) \in 0..b
BY DEF Less

(* A worker's or an administrator's step on the row of the sync.            *)
LEMMA SyncTypes ==
  ASSUME LeaseInv, PriceNext
  PROVE  sync' \in SyncRow
<1>1. sync \in SyncRow
  BY DEF LeaseInv, TypeOK, SyncRow, Statuses
<1>2. {Lease, Retry, Interval} \subseteq Nat
  BY PriceAssumption
<1>3. /\ Lease \in 0..Lease /\ 0 \in 0..Lease
      /\ {0, Interval, Retry} \subseteq 0..(Interval + Retry)
  BY <1>2
<1>4. CASE Tick
  <2>1. Less(sync.due) \in 0..(Interval + Retry) /\ Less(sync.lease) \in 0..Lease
    BY <1>1, <1>2, LessType DEF SyncRow
  <2> QED
    BY <1>1, <1>4, <2>1 DEF Tick, SyncRow
<1>5. ASSUME NEW p \in Programs, Request(p) \/ Work(p) \/ Crash(p) PROVE sync' \in SyncRow
  BY <1>1, <1>3, <1>5 DEF Request, Work, GoAway, Acquire, FetchCatalog, Superseded, Commit, AttemptFails,
                          Crash, SyncRow, Statuses
<1>6. CASE Enqueue \/ Settings
  BY <1>1, <1>3, <1>6 DEF Enqueue, Settings, SyncRow, Statuses
<1>7. CASE NextDay \/ CatalogChanges \/ Preview \/ PreviewPrices \/ Save \/ LinkModel
  BY <1>1, <1>7 DEF NextDay, CatalogChanges, Preview, PreviewPrices, Save, LinkModel
<1> QED
  BY <1>4, <1>5, <1>6, <1>7 DEF PriceNext

LEMMA ProgTypes ==
  ASSUME LeaseInv, PriceNext
  PROVE  prog' \in [Programs -> Attempt]
<1>1. prog \in [Programs -> Attempt]
  BY DEF LeaseInv, FieldsOK
<1>2. day \in 0..MaxDay /\ remote \in 0..Len(PriceOf) /\ 0 \in 0..Len(PriceOf) /\ Lease \in 0..Lease
      /\ Lease \in Nat
  BY PriceOfFacts, PriceAssumption DEF LeaseInv, TypeOK, Days
<1>3. CASE Tick
  <2>1. \A p \in Programs : [prog[p] EXCEPT !.left = Less(@)] \in Attempt
    BY <1>1, <1>2, LessType DEF Attempt
  <2> QED
    BY <1>3, <2>1 DEF Tick
<1>4. ASSUME NEW p \in Programs, Request(p) \/ Work(p) \/ Crash(p)
      PROVE  prog' \in [Programs -> Attempt]
  <2>1. \E a \in Attempt : prog' = [prog EXCEPT ![p] = a]
    <3>1. prog[p] \in Attempt
      BY <1>1
    <3>2. CASE Request(p)
      <4>1. [prog[p] EXCEPT !.pc = "start"] \in Attempt
        BY <3>1 DEF Attempt
      <4> QED
        BY <3>2, <4>1 DEF Request
    <3>3. CASE Acquire(p)
      <4>1. [pc |-> "fetch", left |-> Lease, day |-> day, seen |-> 0] \in Attempt
        BY <1>2 DEF Attempt
      <4> QED
        BY <3>3, <4>1 DEF Acquire
    <3>4. CASE FetchCatalog(p)
      <4>1. [prog[p] EXCEPT !.pc = "commit", !.seen = remote] \in Attempt
        BY <1>2, <3>1 DEF Attempt
      <4>2. prog' = [prog EXCEPT ![p] = [prog[p] EXCEPT !.pc = "commit", !.seen = remote]]
        BY <1>1, <3>4 DEF FetchCatalog
      <4> QED
        BY <4>1, <4>2
    <3>5. CASE GoAway(p) \/ Superseded(p) \/ Commit(p) \/ AttemptFails(p) \/ Crash(p)
      <4>1. [prog[p] EXCEPT !.pc = "idle"] \in Attempt
        BY <3>1 DEF Attempt
      <4>2. prog' = [prog EXCEPT ![p] = [prog[p] EXCEPT !.pc = "idle"]]
        BY <1>1, <3>5 DEF GoAway, Superseded, Commit, AttemptFails, Crash
      <4> QED
        BY <4>1, <4>2
    <3> QED
      BY <1>4, <3>2, <3>3, <3>4, <3>5 DEF Work
  <2> QED
    BY <1>1, <2>1
<1>5. CASE NextDay \/ CatalogChanges \/ Enqueue \/ Settings \/ Preview \/ PreviewPrices \/ Save \/ LinkModel
  BY <1>1, <1>5 DEF NextDay, CatalogChanges, Enqueue, Settings, Preview, PreviewPrices, Save, LinkModel
<1> QED
  BY <1>3, <1>4, <1>5 DEF PriceNext

Quiet == UNCHANGED <<local, external, versions>>

(* Only a sync, a save and a link write the catalogue and the history.      *)
LEMMA QuietSteps ==
  ASSUME PriceNext
  PROVE  \/ Quiet
         \/ \E p \in Programs : Commit(p)
         \/ Save
         \/ LinkModel
BY DEF PriceNext, Work, Quiet, Tick, NextDay, CatalogChanges, Request, GoAway, Acquire, FetchCatalog,
       Superseded, AttemptFails, Crash, Enqueue, Settings, Preview, PreviewPrices

LEMMA SpentTypes ==
  ASSUME FieldsOK, PriceNext
  PROVE  spent' \in [saves : Nat, edits : Nat, failures : Nat, crashes : Nat]
<1>1. spent \in [saves : Nat, edits : Nat, failures : Nat, crashes : Nat]
  BY DEF FieldsOK
<1>2. ASSUME NEW what \in {"saves", "edits", "failures", "crashes"},
             spent' = [spent EXCEPT ![what] = @ + 1]
      PROVE  spent' \in [saves : Nat, edits : Nat, failures : Nat, crashes : Nat]
  BY <1>1, <1>2
<1>3. \/ UNCHANGED spent
      \/ \E what \in {"saves", "edits", "failures", "crashes"} :
           spent' = [spent EXCEPT ![what] = @ + 1]
  BY DEF PriceNext, Work, Tick, NextDay, CatalogChanges, Request, GoAway, Acquire, FetchCatalog, Superseded,
         Commit, AttemptFails, Crash, Enqueue, Settings, Preview, PreviewPrices, Save, LinkModel,
         Spend, Lose
<1> QED
  BY <1>1, <1>2, <1>3

(* A link moves the snapshots to the local row and changes nothing else.    *)
LEMMA LinkFacts ==
  ASSUME TypeOK, LinkModel
  PROVE  /\ versions' \in Seq(Version) /\ DOMAIN versions' = DOMAIN versions
         /\ \A i \in DOMAIN versions : versions'[i] = [versions[i] EXCEPT !.key = "local"]
<1>1. versions' = [i \in DOMAIN versions |-> [versions[i] EXCEPT !.key = "local"]]
  BY DEF LinkModel
<1>2. Len(versions) \in Nat /\ DOMAIN versions = 1..Len(versions)
      /\ \A i \in DOMAIN versions : versions[i] \in Version
  BY VersionFacts
<1>3. \A v \in Version : [v EXCEPT !.key = "local"] \in Version
  BY DEF Version
<1>4. \A i \in 1..Len(versions) : [versions[i] EXCEPT !.key = "local"] \in Version
  BY <1>2, <1>3
<1>5. versions' \in [1..Len(versions) -> Version]
  BY <1>1, <1>2, <1>4
<1>6. versions' \in Seq(Version)
  BY <1>2, <1>5, SeqDef
<1> QED
  BY <1>1, <1>6

(* What is written of the two rows and the history has its type.            *)
LEMMA RowTypes ==
  ASSUME LeaseInv, PriceNext
  PROVE  /\ local' \in [linked : BOOLEAN, available : BOOLEAN, revision : Nat]
         /\ external' \in [exists : BOOLEAN, available : BOOLEAN, revision : Nat]
         /\ versions' \in Seq(Version)
         /\ \A i \in DOMAIN versions' :
              versions'[i].source = "openrouter" => versions'[i].mode = "price"
         /\ ~(local'.linked /\ external'.exists)
<1>1. TypeOK /\ FieldsOK
  BY DEF LeaseInv
<1>2. CASE Quiet
  BY <1>1, <1>2 DEF TypeOK, FieldsOK, Quiet
<1>3. CASE \E p \in Programs : Commit(p)
  <2>1. PICK p \in Programs : prog[p].pc = "commit" /\ SyncCatalog(p)
    BY <1>3 DEF Commit
  <2> QED
    BY <2>1, CatalogTypes
<1>4. CASE Save
  <2>1. CASE draft.revision = local.revision
    <3>1. PICK mode \in {"price", "auto"}, from \in Days, to \in {0} \cup Days :
            versions' = Append(versions, Override(mode, from, to))
      BY <1>4, <2>1 DEF Save
    <3>2. Override(mode, from, to) \in Version
      BY OverrideType
    <3>3. Override(mode, from, to).source = "manual"
      BY DEF Override
    <3>4. /\ versions' \in Seq(Version)
          /\ \A i \in DOMAIN versions' :
               versions'[i].source = "openrouter" => versions'[i].mode = "price"
      BY <1>1, <3>1, <3>2, <3>3, AppendFacts DEF TypeOK
    <3>5. local' = [local EXCEPT !.revision = @ + 1] /\ external' = external
      BY <1>4, <2>1 DEF Save
    <3> QED
      BY <1>1, <3>4, <3>5 DEF TypeOK, FieldsOK
  <2>2. CASE draft.revision # local.revision
    BY <1>1, <1>4, <2>2 DEF Save, TypeOK, FieldsOK
  <2> QED
    BY <2>1, <2>2
<1>5. CASE LinkModel
  <2>1. /\ local' = [linked |-> TRUE, available |-> external.available,
                     revision |-> local.revision + 1]
        /\ external' = [external EXCEPT !.exists = FALSE]
    BY <1>5 DEF LinkModel
  <2>2. /\ local.revision + 1 \in Nat /\ external.available \in BOOLEAN
        /\ external \in [exists : BOOLEAN, available : BOOLEAN, revision : Nat]
    BY <1>1 DEF FieldsOK
  <2>3. /\ versions' \in Seq(Version)
        /\ \A i \in DOMAIN versions' :
             versions'[i].source = "openrouter" => versions'[i].mode = "price"
    <3>1. \A i \in DOMAIN versions : versions[i] \in Version
      BY <1>1, VersionFacts
    <3>2. \A v \in Version : /\ [v EXCEPT !.key = "local"].source = v.source
                             /\ [v EXCEPT !.key = "local"].mode = v.mode
      BY DEF Version
    <3>3. \A i \in DOMAIN versions :
            versions'[i].source = versions[i].source /\ versions'[i].mode = versions[i].mode
      BY <1>1, <1>5, <3>1, <3>2, LinkFacts
    <3>4. versions' \in Seq(Version) /\ DOMAIN versions' = DOMAIN versions
      BY <1>1, <1>5, LinkFacts
    <3>5. \A i \in DOMAIN versions : versions[i].source = "openrouter" => versions[i].mode = "price"
      BY <1>1 DEF TypeOK
    <3> QED
      BY <3>3, <3>4, <3>5
  <2>4. local' \in [linked : BOOLEAN, available : BOOLEAN, revision : Nat]
    BY <2>1, <2>2
  <2>5. external' \in [exists : BOOLEAN, available : BOOLEAN, revision : Nat] /\ ~external'.exists
    BY <2>1, <2>2
  <2> QED
    BY <2>3, <2>4, <2>5
<1> QED
  BY <1>2, <1>3, <1>4, <1>5, QuietSteps

LEMMA TypesStep ==
  ASSUME LeaseInv, PriceNext
  PROVE  TypeOK' /\ FieldsOK'
<1>1. TypeOK /\ FieldsOK
  BY DEF LeaseInv
<1>2. day' \in Days /\ remote' \in Remotes
  <2>1. day' = day \/ (day < MaxDay /\ day' = day + 1)
    BY DEF PriceNext, Work, Tick, NextDay, CatalogChanges, Request, GoAway, Acquire, FetchCatalog, Superseded,
           Commit, AttemptFails, Crash, Enqueue, Settings, Preview, PreviewPrices, Save, LinkModel
  <2>2. remote' = remote \/ (remote < Len(PriceOf) /\ remote' = remote + 1)
    BY DEF PriceNext, Work, Tick, NextDay, CatalogChanges, Request, GoAway, Acquire, FetchCatalog, Superseded,
           Commit, AttemptFails, Crash, Enqueue, Settings, Preview, PreviewPrices, Save, LinkModel
  <2>3. MaxDay \in Nat /\ Len(PriceOf) \in Nat /\ Remotes = 1..Len(PriceOf)
    BY PriceOfFacts, PriceAssumption
  <2>4. day \in 1..MaxDay /\ remote \in 1..Len(PriceOf)
    BY <1>1, <2>3 DEF TypeOK, Days
  <2>5. day' \in 1..MaxDay
    BY <2>1, <2>3, <2>4
  <2>6. remote' \in 1..Len(PriceOf)
    BY <2>2, <2>3, <2>4
  <2> QED
    BY <2>3, <2>5, <2>6 DEF Days
<1>3. sync' \in SyncRow
  BY SyncTypes
<1>4. prog' \in [Programs -> Attempt]
  BY ProgTypes
<1>5. \A p \in Programs : prog'[p].pc \in {"idle", "start", "fetch", "commit"}
  BY <1>4 DEF Attempt
<1>6. TypeOK'
  BY <1>2, <1>3, <1>5, RowTypes DEF TypeOK, SyncRow, Statuses
<1>7. FieldsOK'
  BY <1>1, <1>4, RowTypes, SpentTypes DEF FieldsOK
<1> QED
  BY <1>6, <1>7

-----------------------------------------------------------------------------
(* The history. *)

TimePasses == day' >= day /\ remote' >= remote

LEMMA TimeGoesOn ==
  ASSUME TypeOK, PriceNext
  PROVE  /\ TimePasses
         /\ day \in Nat /\ day' \in Nat /\ remote \in Nat /\ remote' \in Nat
<1>1. day' = day \/ day' = day + 1
  BY DEF PriceNext, Work, Tick, NextDay, CatalogChanges, Request, GoAway, Acquire, FetchCatalog, Superseded,
         Commit, AttemptFails, Crash, Enqueue, Settings, Preview, PreviewPrices, Save, LinkModel
<1>2. remote' = remote \/ remote' = remote + 1
  BY DEF PriceNext, Work, Tick, NextDay, CatalogChanges, Request, GoAway, Acquire, FetchCatalog, Superseded,
         Commit, AttemptFails, Crash, Enqueue, Settings, Preview, PreviewPrices, Save, LinkModel
<1>3. day \in Nat /\ remote \in Nat
  BY PriceOfFacts, PriceAssumption DEF TypeOK, Days
<1> QED
  BY <1>1, <1>2, <1>3 DEF TimePasses

(* Steps that add no snapshot and change none but for its key.              *)
SnapshotsKept ==
    /\ Snapshots' = Snapshots
    /\ \A i \in Snapshots : /\ versions'[i].seen = versions[i].seen
                            /\ versions'[i].from = versions[i].from
                            /\ versions'[i].price = versions[i].price

LEMMA HistoryKept ==
  ASSUME LeaseInv, PriceNext, SnapshotsKept,
         \A i \in Snapshots : versions'[i].key = Target',
         \A i \in DOMAIN versions' : versions'[i].source = "manual" => versions'[i].key = "local"
  PROVE  CatalogMovesForward' /\ VersionsOK'
<1>1. TypeOK /\ CatalogMovesForward /\ VersionsOK
  BY DEF LeaseInv
<1>2. CatalogMovesForward'
  <2>1. \A i, j \in Snapshots :
          i < j => versions[i].seen < versions[j].seen /\ versions[i].from <= versions[j].from
    BY <1>1 DEF CatalogMovesForward, Snapshots
  <2>2. \A i, j \in Snapshots' :
          i < j => versions'[i].seen < versions'[j].seen /\ versions'[i].from <= versions'[j].from
    BY <2>1 DEF SnapshotsKept
  <2> QED
    BY <2>2 DEF CatalogMovesForward, Snapshots
<1>3. VersionsOK'
  <2> SUFFICES ASSUME NEW i \in Snapshots
               PROVE  /\ versions'[i].seen \in 1..remote' /\ versions'[i].from <= day' + 1
                      /\ versions'[i].price = PriceOf[versions'[i].seen]
    BY DEF VersionsOK, SnapshotsKept
  <2>1. /\ versions[i].seen \in 1..remote /\ versions[i].from <= day + 1
        /\ versions[i].price = PriceOf[versions[i].seen] /\ versions[i].from \in Nat
    BY <1>1, VersionFacts DEF VersionsOK, Snapshots
  <2> QED
    BY <1>1, <2>1, TimeGoesOn DEF SnapshotsKept, TimePasses
<1> QED
  BY <1>2, <1>3

(* A sync goes on writing the row that has the history.                     *)
LEMMA TargetStays ==
  ASSUME LeaseInv, NEW p \in Programs, SyncCatalog(p)
  PROVE  Target' = Target
<1>1. FieldsOK
  BY DEF LeaseInv
<1>2. CASE PriceOf[prog[p].seen] = "gone"
  BY <1>1, <1>2 DEF SyncCatalog, Target, FieldsOK
<1>3. CASE PriceOf[prog[p].seen] # "gone"
  <2>1. CASE Target = "local"
    <3>1. local'.linked
      BY <1>3, <2>1 DEF SyncCatalog
    <3> QED
      BY <2>1, <3>1 DEF Target
  <2>2. CASE Target # "local"
    <3>1. local' = local /\ external'.exists
      BY <1>3, <2>2 DEF SyncCatalog
    <3> QED
      BY <2>2, <3>1 DEF Target
  <2> QED
    BY <2>1, <2>2
<1> QED
  BY <1>2, <1>3

(* The step that adds a snapshot: what it saw is newer than what any other  *)
(* saw, since whoever stored that had the lease before.                     *)
LEMMA CommitHistory ==
  ASSUME LeaseInv, PriceNext, NEW p \in Programs, Commit(p)
  PROVE  CatalogMovesForward' /\ VersionsOK'
<1> DEFINE s == prog[p].seen
           v == Snapshot(Target, PriceOf[s], prog[p].day + 1, s)
           new == Len(versions) + 1
<1>1. TypeOK /\ CatalogMovesForward /\ VersionsOK /\ AttemptsOK
  BY DEF LeaseInv
<1>2. prog[p].pc = "commit" /\ HoldsLease(p) /\ SyncCatalog(p) /\ day' = day /\ remote' = remote
  BY DEF Commit
<1>3. Target' = Target
  BY <1>2, TargetStays
<1>4. /\ prog[p].day \in 1..day /\ s \in 1..remote
      /\ \A i \in Snapshots : versions[i].from <= prog[p].day + 1 /\ versions[i].seen <= s
  BY <1>1, <1>2 DEF AttemptsOK, Working
<1>5. day \in 1..MaxDay /\ MaxDay \in Nat /\ remote \in 1..Len(PriceOf) /\ Len(PriceOf) \in Nat
  BY <1>1, PriceOfFacts, PriceAssumption DEF TypeOK, Days
<1>6. CASE UNCHANGED versions
  <2>1. SnapshotsKept
    BY <1>6 DEF SnapshotsKept, Snapshots
  <2>2. /\ \A i \in Snapshots : versions'[i].key = Target'
        /\ \A i \in DOMAIN versions' : versions'[i].source = "manual" => versions'[i].key = "local"
    BY <1>1, <1>3, <1>6 DEF VersionsOK
  <2> QED
    BY <2>1, <2>2, HistoryKept
<1>7. CASE versions' # versions
  <2>1. PriceOf[s] # "gone" /\ versions' = Append(versions, v) /\ Changed(Target, PriceOf[s])
    BY <1>2, <1>7 DEF SyncCatalog
  <2>2. v \in Version
    <3>1. s \in Remotes /\ PriceOf[s] \in Prices
      BY <1>4, <1>5, <2>1, PriceOfFacts
    <3>2. Target \in {"local", "external"} /\ prog[p].day + 1 \in 1..(MaxDay + 1)
          /\ s \in 0..Len(PriceOf)
      BY <1>4, <1>5 DEF Target
    <3> QED
      BY <3>1, <3>2, SnapshotType
  <2>3. /\ v.key = Target /\ v.source = "openrouter" /\ v.from = prog[p].day + 1
        /\ v.price = PriceOf[s] /\ v.seen = s
    BY DEF Snapshot
  <2> HIDE DEF v
  <2>4. /\ (DOMAIN versions)' = DOMAIN versions \cup {new} /\ new \notin DOMAIN versions
        /\ versions'[new] = v /\ \A i \in DOMAIN versions : versions'[i] = versions[i] /\ i < new
    BY <1>1, <2>1, <2>2, AppendFacts
  <2>5. Snapshots' = Snapshots \cup {new} /\ Snapshots \subseteq DOMAIN versions
    BY <2>3, <2>4 DEF Snapshots
  <2>6. \A i \in Snapshots : versions[i].seen # s
    <3> SUFFICES ASSUME NEW i \in Snapshots, versions[i].seen = s PROVE FALSE
      OBVIOUS
    <3> DEFINE l == LastSnapshot(Target)
    <3>1. l \in Snapshots /\ i <= l
      BY LastSnapshotIs
    <3>2. i \in Nat /\ l \in Nat /\ i \in DOMAIN versions /\ l \in DOMAIN versions
          /\ versions[l].seen \in Nat
      BY <1>1, <3>1, VersionFacts DEF Snapshots
    <3>3. versions[l].seen <= s
      BY <1>4, <3>1
    <3>4. i < l => versions[i].seen < versions[l].seen
      BY <1>1, <3>1, <3>2 DEF CatalogMovesForward, Snapshots
    <3>5. i = l
      BY <1>4, <3>1, <3>2, <3>3, <3>4
    <3>6. versions[l].price = PriceOf[s] /\ l # 0
      BY <1>1, <3>1, <3>2, <3>5, VersionFacts DEF VersionsOK
    <3> QED
      BY <2>1, <3>6 DEF Changed
  <2>7. \A i \in Snapshots : /\ versions[i].seen < s /\ versions[i].from <= v.from
                             /\ i \in Nat /\ i < new
    BY <1>1, <1>4, <2>3, <2>4, <2>5, <2>6, VersionFacts
  <2>8. CatalogMovesForward'
    <3> SUFFICES ASSUME NEW i \in Snapshots', NEW j \in Snapshots', i < j
                 PROVE  versions'[i].seen < versions'[j].seen /\ versions'[i].from <= versions'[j].from
      BY DEF CatalogMovesForward, Snapshots
    <3>1. i # new
      <4>1. Len(versions) \in Nat
        BY <1>1, VersionFacts
      <4> QED
        BY <2>5, <2>7, <4>1
    <3>2. i \in Snapshots /\ versions'[i] = versions[i]
      BY <2>4, <2>5, <3>1
    <3>3. CASE j = new
      BY <2>3, <2>4, <2>7, <3>2, <3>3
    <3>4. CASE j # new
      BY <1>1, <2>4, <2>5, <3>2, <3>4 DEF CatalogMovesForward, Snapshots
    <3> QED
      BY <3>3, <3>4
  <2>9. VersionsOK'
    <3>1. \A i \in DOMAIN versions' : versions'[i].source = "manual" => versions'[i].key = "local"
      BY <1>1, <2>3, <2>4 DEF VersionsOK
    <3>2. ASSUME NEW i \in Snapshots
          PROVE  /\ versions'[i].seen \in 1..remote' /\ versions'[i].from <= day' + 1
                 /\ versions'[i].price = PriceOf[versions'[i].seen] /\ versions'[i].key = Target'
      BY <1>1, <1>2, <1>3, <2>4, <2>5 DEF VersionsOK
    <3>3. /\ v.seen \in 1..remote' /\ v.from <= day' + 1 /\ v.price = PriceOf[v.seen] /\ v.key = Target'
      BY <1>2, <1>3, <1>4, <1>5, <2>3
    <3> QED
      BY <2>4, <2>5, <3>1, <3>2, <3>3 DEF VersionsOK
  <2> QED
    BY <2>8, <2>9
<1> QED
  BY <1>6, <1>7

LEMMA SaveFacts ==
  ASSUME TypeOK, Save, versions' # versions
  PROVE  \E v \in Version :
           /\ v.source = "manual" /\ v.key = "local"
           /\ versions' = Append(versions, v)
           /\ draft.revision = local.revision
<1>1. draft.revision = local.revision
  BY DEF Save
<1>2. PICK mode \in {"price", "auto"}, from \in Days, to \in {0} \cup Days :
        versions' = Append(versions, Override(mode, from, to))
  BY <1>1 DEF Save
<1>3. Override(mode, from, to) \in Version
  BY OverrideType
<1>4. Override(mode, from, to).source = "manual" /\ Override(mode, from, to).key = "local"
  BY DEF Override
<1> QED
  BY <1>1, <1>2, <1>3, <1>4

LEMMA HistoryStep ==
  ASSUME LeaseInv, PriceNext
  PROVE  /\ CatalogMovesForward' /\ VersionsOK'
         /\ ~(\E p \in Programs : Commit(p)) => SnapshotsKept
<1>1. TypeOK /\ FieldsOK /\ VersionsOK
  BY DEF LeaseInv
<1>2. CASE Quiet
  <2>1. SnapshotsKept /\ Target' = Target
    BY <1>2 DEF Quiet, SnapshotsKept, Snapshots, Target
  <2> QED
    BY <1>1, <1>2, <2>1, HistoryKept DEF VersionsOK, Quiet
<1>3. CASE \E p \in Programs : Commit(p)
  BY <1>3, CommitHistory
<1>4. CASE Save
  <2>1. Target' = Target
    BY <1>1, <1>4 DEF Save, Target, FieldsOK
  <2>2. CASE versions' = versions
    <3>1. SnapshotsKept
      BY <2>2 DEF SnapshotsKept, Snapshots
    <3> QED
      BY <1>1, <2>1, <2>2, <3>1, HistoryKept DEF VersionsOK
  <2>3. CASE versions' # versions
    <3>1. PICK v \in Version : /\ v.source = "manual" /\ v.key = "local"
                               /\ versions' = Append(versions, v)
      BY <1>1, <1>4, <2>3, SaveFacts
    <3>2. /\ (DOMAIN versions)' = DOMAIN versions \cup {Len(versions) + 1}
          /\ Len(versions) + 1 \notin DOMAIN versions
          /\ versions'[Len(versions) + 1] = v
          /\ \A i \in DOMAIN versions : versions'[i] = versions[i]
      BY <1>1, <3>1, AppendFacts
    <3>3. SnapshotsKept
      BY <3>1, <3>2 DEF SnapshotsKept, Snapshots
    <3>4. \A i \in DOMAIN versions' : versions'[i].source = "manual" => versions'[i].key = "local"
      BY <1>1, <3>1, <3>2 DEF VersionsOK
    <3>5. \A i \in Snapshots : versions'[i].key = Target'
      BY <1>1, <2>1, <3>2 DEF VersionsOK, Snapshots
    <3> QED
      BY <3>3, <3>4, <3>5, HistoryKept
  <2> QED
    BY <2>2, <2>3
<1>5. CASE LinkModel
  <2>1. /\ DOMAIN versions' = DOMAIN versions
        /\ \A i \in DOMAIN versions : /\ versions'[i] = [versions[i] EXCEPT !.key = "local"]
                                      /\ versions[i] \in Version
    BY <1>1, <1>5, LinkFacts, VersionFacts
  <2>2. ASSUME NEW w \in Version, NEW x, x = [w EXCEPT !.key = "local"]
        PROVE  /\ x.key = "local" /\ x.source = w.source /\ x.seen = w.seen /\ x.from = w.from
               /\ x.price = w.price
    BY <2>2 DEF Version
  <2>3. \A i \in DOMAIN versions :
          /\ versions'[i].key = "local" /\ versions'[i].source = versions[i].source
          /\ versions'[i].seen = versions[i].seen /\ versions'[i].from = versions[i].from
          /\ versions'[i].price = versions[i].price
    BY <2>1, <2>2
  <2>4. SnapshotsKept
    BY <2>1, <2>3 DEF SnapshotsKept, Snapshots
  <2>5. Target' = "local"
    BY <1>5 DEF LinkModel, Target
  <2> QED
    BY <2>1, <2>3, <2>4, <2>5, HistoryKept DEF Snapshots
<1> QED
  BY <1>2, <1>3, <1>4, <1>5, QuietSteps

-----------------------------------------------------------------------------
(* The attempts. *)

LEMMA AttemptsStep ==
  ASSUME LeaseInv, PriceNext
  PROVE  AttemptsOK'
<1>1. /\ TypeOK /\ FieldsOK /\ VersionsOK /\ AttemptsOK
      /\ prog \in [Programs -> Attempt] /\ sync \in SyncRow
  BY DEF LeaseInv, TypeOK, FieldsOK, SyncRow, Statuses
<1>2. /\ day' >= day /\ remote' >= remote
      /\ day \in Nat /\ day' \in Nat /\ remote \in Nat /\ remote' \in Nat
      /\ day \in 1..day /\ remote \in 1..remote
  <2>1. day >= 1 /\ remote >= 1
    BY <1>1, PriceOfFacts DEF TypeOK, Days
  <2> QED
    BY <1>1, <2>1, TimeGoesOn DEF TimePasses
<1>3. \A p \in Programs :
        /\ prog[p].pc \in {"idle", "start", "fetch", "commit"} /\ prog[p].left \in 0..Lease
        /\ prog[p].left \in Nat /\ prog[p].day \in Nat /\ prog[p].seen \in Nat
  BY <1>1, PriceOfFacts, PriceAssumption DEF Attempt
<1>4. /\ sync.lease \in Nat /\ Lease \in Nat /\ "none" \notin Programs
  BY <1>1, PriceAssumption DEF SyncRow, Programs
<1>5. CASE \E p \in Programs : Commit(p)
  <2>1. PICK p \in Programs : Commit(p)
    BY <1>5
  <2>2. /\ HoldsLease(p) /\ day' = day /\ remote' = remote
        /\ sync'.holder = "none" /\ prog' = [prog EXCEPT ![p].pc = "idle"]
    BY <1>1, <2>1 DEF Commit, SyncRow
  <2>3. \A q \in Programs : Working(q)' => q # p /\ prog'[q] = prog[q] /\ Working(q)
    BY <1>1, <2>2 DEF Working, Attempt
  <2>4. \A q \in Programs : ~HoldsLease(q)'
    BY <1>4, <2>2 DEF HoldsLease
  <2>5. \A q \in Programs : q # p => ~HoldsLease(q)
    BY <2>2 DEF HoldsLease
  <2>6. \A q \in Programs : Working(q)' => ~(prog[q].left > 0)
    BY <1>1, <2>3, <2>5 DEF AttemptsOK
  <2> QED
    BY <1>1, <2>2, <2>3, <2>4, <2>6 DEF AttemptsOK
<1>6. CASE ~(\E p \in Programs : Commit(p))
  <2>1. SnapshotsKept
    BY <1>6, HistoryStep
  <2>2. \A i \in Snapshots : /\ versions[i].from \in Nat /\ versions[i].seen \in Nat
                             /\ versions[i].from <= day + 1 /\ versions[i].seen <= remote
    BY <1>1, VersionFacts DEF VersionsOK, Snapshots
  <2>3. ASSUME NEW q \in Programs, Working(q)', Working(q),
               prog'[q].day = prog[q].day,
               prog'[q].pc = "commit" => prog[q].pc = "commit" /\ prog'[q].seen = prog[q].seen,
               prog'[q].left > 0 =>
                 /\ HoldsLease(q) /\ prog[q].left = sync.lease => HoldsLease(q)' /\ prog'[q].left = sync'.lease
                 /\ prog[q].left > 0,
               HoldsLease(q)' => HoldsLease(q)
        PROVE  /\ prog'[q].day \in 1..day'
               /\ prog'[q].pc = "commit" => prog'[q].seen \in 1..remote'
               /\ prog'[q].left > 0 => HoldsLease(q)' /\ prog'[q].left = sync'.lease
               /\ HoldsLease(q)' => \A i \in Snapshots' :
                    /\ versions'[i].from <= prog'[q].day + 1
                    /\ prog'[q].pc = "commit" => versions'[i].seen <= prog'[q].seen
    <3>1. /\ prog[q].day \in 1..day
          /\ prog[q].pc = "commit" => prog[q].seen \in 1..remote
          /\ prog[q].left > 0 => HoldsLease(q) /\ prog[q].left = sync.lease
          /\ HoldsLease(q) => \A i \in Snapshots :
               /\ versions[i].from <= prog[q].day + 1
               /\ prog[q].pc = "commit" => versions[i].seen <= prog[q].seen
      BY <1>1, <2>3 DEF AttemptsOK
    <3>2. prog'[q].day \in 1..day' /\ (prog'[q].pc = "commit" => prog'[q].seen \in 1..remote')
      BY <1>2, <2>3, <3>1
    <3> QED
      BY <2>1, <2>3, <3>1, <3>2 DEF SnapshotsKept
  \* An attempt that the step does not touch, nor the lease, is as it was.
  <2>4. ASSUME NEW q \in Programs, Working(q)', prog'[q] = prog[q],
               sync'.holder = sync.holder, sync'.lease = sync.lease
        PROVE  /\ Working(q) /\ prog'[q].day = prog[q].day /\ prog'[q].seen = prog[q].seen
               /\ prog'[q].pc = prog[q].pc /\ prog'[q].left = prog[q].left
               /\ HoldsLease(q)' <=> HoldsLease(q)
    BY <2>4 DEF Working, HoldsLease
  <2>5. ASSUME UNCHANGED prog, sync'.holder = sync.holder, sync'.lease = sync.lease
        PROVE  AttemptsOK'
    BY <2>3, <2>4, <2>5 DEF AttemptsOK
  <2>6. CASE Tick
    <3>1. /\ sync'.holder = sync.holder /\ sync'.lease = Less(sync.lease)
          /\ \A q \in Programs : /\ prog'[q].pc = prog[q].pc /\ prog'[q].day = prog[q].day
                                 /\ prog'[q].seen = prog[q].seen /\ prog'[q].left = Less(prog[q].left)
      BY <1>1, <2>6 DEF Tick, SyncRow, Attempt
    <3>2. \A q \in Programs : prog'[q].left > 0 => prog[q].left > 0
      BY <1>3, <3>1 DEF Less
    <3> QED
      BY <2>3, <3>1, <3>2 DEF AttemptsOK, Working, HoldsLease
  <2>7. CASE NextDay \/ CatalogChanges \/ Preview \/ PreviewPrices \/ Save \/ LinkModel
    BY <2>5, <2>7 DEF NextDay, CatalogChanges, Preview, PreviewPrices, Save, LinkModel
  <2>8. CASE Enqueue \/ Settings
    BY <1>1, <2>5, <2>8 DEF Enqueue, Settings, SyncRow
  <2>9. ASSUME NEW p \in Programs, Request(p) \/ Work(p) \/ Crash(p) PROVE AttemptsOK'
    <3>1. ASSUME prog'[p].pc \in {"idle", "start"},
                 \A q \in Programs : q # p => prog'[q] = prog[q],
                 sync'.holder = sync.holder /\ sync'.lease = sync.lease
          PROVE  AttemptsOK'
      <4>1. ~Working(p)'
        BY <3>1 DEF Working
      <4> QED
        BY <2>3, <2>4, <3>1, <4>1 DEF AttemptsOK
    <3>2. CASE Request(p) \/ GoAway(p) \/ Superseded(p) \/ Crash(p)
      <4>1. CASE Request(p)
        BY <1>1, <3>1, <4>1 DEF Request, SyncRow, Attempt
      <4>2. CASE GoAway(p) \/ Superseded(p) \/ Crash(p)
        BY <1>1, <3>1, <4>2 DEF GoAway, Superseded, Crash, Attempt
      <4> QED
        BY <3>2, <4>1, <4>2
    <3>3. CASE Acquire(p)
      <4>1. /\ ~(sync.lease > 0) /\ sync'.holder = p /\ sync'.lease = Lease
            /\ prog' = [prog EXCEPT ![p] = [pc |-> "fetch", left |-> Lease, day |-> day, seen |-> 0]]
            /\ day' = day
        BY <1>1, <3>3 DEF Acquire, MayNotRun, SyncRow
      <4>2. \A q \in Programs : Working(q) => ~(prog[q].left > 0)
        BY <1>1, <1>3, <1>4, <4>1 DEF AttemptsOK
      <4>3. \A q \in Programs : q # p => prog'[q] = prog[q] /\ ~HoldsLease(q)'
        BY <1>1, <4>1 DEF HoldsLease
      <4>4. ASSUME NEW q \in Programs, q # p, Working(q)'
            PROVE  /\ prog'[q].day \in 1..day'
                   /\ prog'[q].pc = "commit" => prog'[q].seen \in 1..remote'
                   /\ ~(prog'[q].left > 0) /\ ~HoldsLease(q)'
        BY <1>1, <1>2, <4>1, <4>2, <4>3, <4>4 DEF AttemptsOK, Working
      <4>5. /\ prog'[p].pc = "fetch" /\ prog'[p].day = day /\ prog'[p].left = sync'.lease /\ HoldsLease(p)'
        BY <1>1, <4>1 DEF HoldsLease
      <4>6. \A i \in Snapshots' : versions'[i].from <= day + 1
        BY <2>1, <2>2 DEF SnapshotsKept
      <4> QED
        BY <1>2, <4>1, <4>4, <4>5, <4>6 DEF AttemptsOK
    <3>4. CASE FetchCatalog(p)
      <4>1. /\ prog[p].pc = "fetch" /\ UNCHANGED <<sync, day, remote, versions>>
            /\ \A q \in Programs : q # p => prog'[q] = prog[q]
            /\ prog'[p].pc = "commit" /\ prog'[p].seen = remote
            /\ prog'[p].left = prog[p].left /\ prog'[p].day = prog[p].day
        BY <1>1, <3>4 DEF FetchCatalog, Attempt
      <4>2. /\ prog[p].day \in 1..day
            /\ prog[p].left > 0 => HoldsLease(p) /\ prog[p].left = sync.lease
            /\ HoldsLease(p) => \A i \in Snapshots : versions[i].from <= prog[p].day + 1
        BY <1>1, <4>1 DEF AttemptsOK, Working
      <4>3. /\ prog'[p].day \in 1..day' /\ prog'[p].seen \in 1..remote'
            /\ prog'[p].left > 0 => HoldsLease(p)' /\ prog'[p].left = sync'.lease
            /\ HoldsLease(p)' => \A i \in Snapshots' :
                 versions'[i].from <= prog'[p].day + 1 /\ versions'[i].seen <= prog'[p].seen
        BY <1>2, <2>1, <2>2, <4>1, <4>2 DEF SnapshotsKept, HoldsLease
      <4>4. /\ sync'.holder = sync.holder /\ sync'.lease = sync.lease
        BY <4>1
      <4> QED
        BY <2>3, <2>4, <4>1, <4>3, <4>4 DEF AttemptsOK
    <3>5. CASE AttemptFails(p)
      <4>1. /\ prog'[p].pc = "idle" /\ \A q \in Programs : q # p => prog'[q] = prog[q]
        BY <1>1, <3>5 DEF AttemptFails, Attempt
      <4>2. CASE ~HoldsLease(p)
        <5>1. sync' = sync
          BY <3>5, <4>2 DEF AttemptFails
        <5> QED
          BY <3>1, <4>1, <5>1
      <4>3. CASE HoldsLease(p)
        <5>1. sync'.holder = "none"
          BY <1>1, <3>5, <4>3 DEF AttemptFails, SyncRow
        <5>2. \A q \in Programs : ~HoldsLease(q)' /\ (q # p => ~HoldsLease(q))
          BY <1>4, <4>3, <5>1 DEF HoldsLease
        <5>3. \A q \in Programs : Working(q)' => q # p /\ prog'[q] = prog[q] /\ Working(q)
          BY <4>1 DEF Working
        <5>4. \A q \in Programs : Working(q)' => ~(prog[q].left > 0)
          BY <1>1, <5>2, <5>3 DEF AttemptsOK
        <5> QED
          BY <2>3, <5>2, <5>3, <5>4
             DEF AttemptsOK
      <4> QED
        BY <4>2, <4>3
    <3> QED
      BY <1>6, <2>9, <3>2, <3>3, <3>4, <3>5 DEF Work
  <2> QED
    BY <2>6, <2>7, <2>8, <2>9 DEF PriceNext
<1> QED
  BY <1>5, <1>6

LEMMA LeaseStep ==
  ASSUME LeaseInv, PriceNext
  PROVE  LeaseInv'
BY TypesStep, HistoryStep, AttemptsStep DEF LeaseInv

LEMMA LeaseStutter ==
  ASSUME LeaseInv, UNCHANGED priceVars
  PROVE  LeaseInv'
BY DEF LeaseInv, TypeOK, FieldsOK, CatalogMovesForward, VersionsOK, AttemptsOK, priceVars,
       Snapshots, Working, Target, HoldsLease, Of

LEMMA InitLease == PriceInit => LeaseInv
<1> SUFFICES ASSUME PriceInit PROVE LeaseInv
  OBVIOUS
<1>1. DOMAIN versions = {}
  BY DEF PriceInit
<1>2. \A p \in Programs : ~Working(p)
  BY DEF PriceInit, Working
<1> QED
  BY <1>1, <1>2, InitTypes DEF LeaseInv, CatalogMovesForward, VersionsOK, AttemptsOK, Snapshots

LEMMA LeaseAlways == PriceSpec => []LeaseInv
BY InitLease, LeaseStep, LeaseStutter, PTL DEF PriceSpec

(* Whoever works with time left holds the lease, and one holds it.          *)
LEMMA LeaseWorks == LeaseInv => LeaseHolds
<1> SUFFICES ASSUME LeaseInv PROVE LeaseHolds
  OBVIOUS
<1> DEFINE S == {p \in Programs : prog[p].pc \in {"fetch", "commit"} /\ prog[p].left > 0}
<1>1. TypeOK /\ CatalogMovesForward /\ AttemptsOK
  BY DEF LeaseInv
<1>2. S \subseteq {sync.holder}
  BY <1>1 DEF AttemptsOK, Working, HoldsLease
<1>3. IsFiniteSet({sync.holder}) /\ Cardinality({sync.holder}) = 1
  BY FS_Singleton
<1>4. IsFiniteSet(S) /\ Cardinality(S) <= 1
  <2> HIDE DEF S
  <2> QED
    BY <1>2, <1>3, FS_Subset
<1> QED
  BY <1>1, <1>4 DEF LeaseHolds, OneFetchAtATime

-----------------------------------------------------------------------------
(* The price of a day. *)

Manual(d) == {i \in Of("local") : Covers(versions[i], d) /\ versions[i].source = "manual"}
Catalog(d) == {i \in Of("local") : Covers(versions[i], d) /\ versions[i].source = "openrouter"}

\* The price, by the last version of each kind in the order of the history.
Picked(d) ==
    IF Manual(d) # {} /\ versions[Max(Manual(d))].mode = "price" THEN <<"manual", Max(Manual(d))>>
    ELSE IF LegacyOn(d) # {} THEN <<"official", Max(LegacyOn(d))>>
    ELSE IF Catalog(d) # {} THEN <<"openrouter", Max(Catalog(d))>>
    ELSE <<>>

LEMMA LastOf ==
  ASSUME TypeOK, NEW S \in SUBSET DOMAIN versions, S # {}
  PROVE  Max(S) \in S /\ \A i \in S : Max(S) >= i
<1>1. Len(versions) \in Nat /\ S \in SUBSET (0..Len(versions))
  BY VersionFacts
<1> QED
  BY <1>1, MaxOf

(* Since the catalogue moves forward, the snapshot that counts from the     *)
(* latest day is the last one.                                              *)
LEMMA SelectsPicked ==
  ASSUME LeaseInv, NEW d
  PROVE  SelectPrice(Of("local"), d) = Picked(d)
<1> DEFINE active == {i \in Of("local") : Covers(versions[i], d)}
           manual == {i \in active : versions[i].source = "manual"}
           snapshots == active \ manual
           later(i, j) == \/ versions[i].from > versions[j].from
                          \/ versions[i].from = versions[j].from /\ i >= j
           c == CHOOSE i \in snapshots : \A j \in snapshots : later(i, j)
           m == Max(Catalog(d))
<1>1. TypeOK /\ CatalogMovesForward
  BY DEF LeaseInv
<1>2. manual = Manual(d)
  BY DEF Manual
<1>3. snapshots = Catalog(d)
  BY <1>1, VersionFacts DEF Catalog, Of
<1>4. Catalog(d) # {} => c = m
  <2> SUFFICES ASSUME Catalog(d) # {} PROVE c = m
    OBVIOUS
  <2>1. Catalog(d) \in SUBSET DOMAIN versions
    BY DEF Catalog, Of
  <2>2. m \in Catalog(d) /\ \A i \in Catalog(d) : m >= i
    BY <2>1, <1>1, LastOf
  <2>3. \A i \in Catalog(d) : /\ i \in Nat /\ i \in DOMAIN versions /\ versions[i].from \in Nat
                              /\ versions[i].source = "openrouter"
    BY <1>1, <2>1, VersionFacts DEF Catalog
  <2>4. \A i \in Catalog(d) : i # m => versions[i].from <= versions[m].from
    <3> SUFFICES ASSUME NEW i \in Catalog(d), i # m PROVE versions[i].from <= versions[m].from
      OBVIOUS
    <3>1. i < m
      BY <2>2, <2>3
    <3> QED
      BY <1>1, <2>2, <2>3, <3>1 DEF CatalogMovesForward
  <2>5. \A j \in Catalog(d) : later(m, j)
    BY <2>2, <2>3, <2>4
  <2>6. \A i \in Catalog(d) : (\A j \in Catalog(d) : later(i, j)) => i = m
    BY <2>2, <2>3, <2>4
  <2>7. c \in Catalog(d) /\ \A j \in Catalog(d) : later(c, j)
    BY <1>3, <2>2, <2>5
  <2> QED
    BY <2>6, <2>7
<1>5. SelectPrice(Of("local"), d) =
        IF manual # {} /\ versions[Max(manual)].mode = "price" THEN <<"manual", Max(manual)>>
        ELSE IF LegacyOn(d) # {} THEN <<"official", Max(LegacyOn(d))>>
        ELSE IF snapshots # {} THEN <<"openrouter", c>>
        ELSE <<>>
  BY DEF SelectPrice
<1> HIDE DEF manual, snapshots, c
<1>6. CASE Catalog(d) = {}
  BY <1>2, <1>3, <1>5, <1>6 DEF Picked
<1>7. CASE Catalog(d) # {}
  BY <1>2, <1>3, <1>4, <1>5, <1>7 DEF Picked
<1> QED
  BY <1>6, <1>7

AllPicked == \A d \in Days : SelectPrice(Of("local"), d) = Picked(d)

LEMMA SelectsAll == LeaseInv => AllPicked
BY SelectsPicked DEF AllPicked

(* The largest number of a set up to n, 0 when there is none.               *)
LastUpTo(S, n) == LET upTo == {i \in S : i <= n} IN IF upTo = {} THEN 0 ELSE Max(upTo)

LEMMA LastUpToStep ==
  ASSUME NEW b \in Nat, NEW S \in SUBSET (1..b), NEW n \in 1..b
  PROVE  LastUpTo(S, n) = IF n \in S THEN n ELSE LastUpTo(S, n - 1)
<1> DEFINE upTo == {i \in S : i <= n}
<1>1. n \in Nat /\ S \in SUBSET (0..b) /\ \A i \in S : i \in Nat
  OBVIOUS
<1>2. CASE n \in S
  <2>1. n <= n
    BY <1>1
  <2>2. n \in upTo /\ upTo \in SUBSET (0..b)
    BY <1>1, <1>2, <2>1, Zenon
  <2>3. Max(upTo) \in upTo /\ \A i \in upTo : Max(upTo) >= i
    <3> HIDE DEF upTo
    <3> QED
      BY <2>2, MaxOf
  <2>4. \A m \in upTo : m >= n => m = n
    BY <1>1
  <2>5. Max(upTo) = n
    <3> HIDE DEF upTo
    <3> QED
      BY <2>2, <2>3, <2>4
  <2> QED
    BY <1>2, <2>2, <2>5 DEF LastUpTo
<1>3. CASE n \notin S
  <2>1. \A i \in S : i <= n <=> i <= n - 1
    BY <1>1, <1>3
  <2>2. upTo = {i \in S : i <= n - 1}
    BY <2>1
  <2> QED
    BY <1>3, <2>2 DEF LastUpTo
<1> QED
  BY <1>2, <1>3

(* After all versions the last ones that cover the day lie on top.          *)
LEMMA ReplaysPicked ==
  ASSUME TypeOK, NEW d
  PROVE  Replay(d) = Picked(d)
<1> DEFINE b == Len(versions)
           laid(i, under) ==
             IF versions[i].key # "local" \/ ~Covers(versions[i], d) THEN under
             ELSE IF versions[i].source = "manual" THEN [under EXCEPT !.manual = i]
             ELSE [under EXCEPT !.snapshot = i]
           layers[n \in 0..Len(versions)] ==
             IF n = 0 THEN [manual |-> 0, snapshot |-> 0] ELSE laid(n, layers[n - 1])
           last == [n \in 0..b |-> [manual |-> LastUpTo(Manual(d), n),
                                    snapshot |-> LastUpTo(Catalog(d), n)]]
<1>1. /\ b \in Nat /\ DOMAIN versions = 1..b
      /\ \A i \in 1..b : versions[i].source \in {"openrouter", "manual"}
  BY VersionFacts
<1>2. Manual(d) \in SUBSET (1..b) /\ Catalog(d) \in SUBSET (1..b)
  BY <1>1 DEF Manual, Catalog, Of
<1>3. last[0] = [manual |-> 0, snapshot |-> 0]
  <2>1. LastUpTo(Manual(d), 0) = 0 /\ LastUpTo(Catalog(d), 0) = 0
    <3>1. {i \in Manual(d) : i <= 0} = {} /\ {i \in Catalog(d) : i <= 0} = {}
      BY <1>2
    <3> QED
      BY <3>1 DEF LastUpTo
  <2> QED
    BY <1>1, <2>1
<1>4. \A n \in 1..b : last[n] = laid(n, last[n - 1])
  <2> SUFFICES ASSUME NEW n \in 1..b PROVE last[n] = laid(n, last[n - 1])
    OBVIOUS
  <2>1. n \in 0..b /\ n - 1 \in 0..b
    BY <1>1
  <2> DEFINE m0 == LastUpTo(Manual(d), n - 1)
             s0 == LastUpTo(Catalog(d), n - 1)
             u == [manual |-> m0, snapshot |-> s0]
  <2>2. /\ last[n] = [manual |-> IF n \in Manual(d) THEN n ELSE m0,
                      snapshot |-> IF n \in Catalog(d) THEN n ELSE s0]
        /\ last[n - 1] = u
    <3>1. /\ LastUpTo(Manual(d), n) = IF n \in Manual(d) THEN n ELSE m0
          /\ LastUpTo(Catalog(d), n) = IF n \in Catalog(d) THEN n ELSE s0
      <4>1. ASSUME NEW S \in SUBSET (1..b)
            PROVE  LastUpTo(S, n) = IF n \in S THEN n ELSE LastUpTo(S, n - 1)
        <5>1. b \in Nat
          BY <1>1
        <5> HIDE DEF b
        <5> QED
          BY <4>1, <5>1, LastUpToStep
      <4> QED
        BY <1>2, <4>1
    <3>2. /\ last[n] = [manual |-> LastUpTo(Manual(d), n), snapshot |-> LastUpTo(Catalog(d), n)]
          /\ last[n - 1] = u
      BY <2>1
    <3> HIDE DEF last, m0, s0
    <3> QED
      BY <3>1, <3>2
  <2> HIDE DEF last, m0, s0
  <2>3. CASE versions[n].key # "local" \/ ~Covers(versions[n], d)
    <3>1. n \notin Manual(d) /\ n \notin Catalog(d)
      BY <2>3 DEF Manual, Catalog, Of
    <3> QED
      BY <2>2, <2>3, <3>1
  <2>4. CASE versions[n].key = "local" /\ Covers(versions[n], d) /\ versions[n].source = "manual"
    <3>1. n \in Manual(d) /\ n \notin Catalog(d)
      BY <1>1, <2>4 DEF Manual, Catalog, Of
    <3> QED
      BY <2>2, <2>4, <3>1
  <2>5. CASE versions[n].key = "local" /\ Covers(versions[n], d) /\ versions[n].source # "manual"
    <3>1. n \in Catalog(d) /\ n \notin Manual(d)
      BY <1>1, <2>5 DEF Manual, Catalog, Of
    <3> QED
      BY <2>2, <2>5, <3>1
  <2> QED
    BY <2>3, <2>4, <2>5
<1>5. last = [n \in 0..Len(versions) |->
                IF n = 0 THEN [manual |-> 0, snapshot |-> 0] ELSE laid(n, last[n - 1])]
  <2>1. \A n \in 0..b : last[n] = IF n = 0 THEN [manual |-> 0, snapshot |-> 0] ELSE laid(n, last[n - 1])
    <3> HIDE DEF last, laid
    <3> QED
      BY <1>1, <1>3, <1>4
  <2>2. last = [n \in 0..b |-> last[n]]
    OBVIOUS
  <2> HIDE DEF last, laid
  <2> QED
    BY <2>1, <2>2
<1>6. layers = [n \in 0..Len(versions) |->
                IF n = 0 THEN [manual |-> 0, snapshot |-> 0] ELSE laid(n, layers[n - 1])]
  <2> HIDE DEF last, laid
  <2> QED
    BY <1>5
<1>7. \A n \in 0..b : layers[n] = last[n]
  <2> HIDE DEF layers, last, laid
  <2>1. layers[0] = last[0]
    BY <1>1, <1>3, <1>6
  <2>2. \A n \in 1..b : layers[n] = laid(n, layers[n - 1])
    BY <1>1, <1>6
  <2> DEFINE T == {n \in 0..b : layers[n] # last[n]}
  <2> SUFFICES ASSUME T # {} PROVE FALSE
    OBVIOUS
  <2>3. PICK t \in T : \A u \in T : ~(u < t)
    <3>1. T \in SUBSET Nat
      OBVIOUS
    <3> HIDE DEF T
    <3> QED
      BY <3>1, LeastOf
  <2>4. t \in 0..b /\ layers[t] # last[t]
    OBVIOUS
  <2>5. t \in 1..b /\ t - 1 \in 0..b /\ t - 1 < t
    BY <1>1, <2>1, <2>4
  <2>6. layers[t - 1] = last[t - 1]
    BY <2>3, <2>5
  <2> QED
    BY <1>4, <2>2, <2>4, <2>5, <2>6
<1> DEFINE top == layers[Len(versions)]
<1>8. Replay(d) =
        IF top.manual # 0 /\ versions[top.manual].mode = "price" THEN <<"manual", top.manual>>
        ELSE IF LegacyOn(d) # {} THEN <<"official", Max(LegacyOn(d))>>
        ELSE IF top.snapshot # 0 THEN <<"openrouter", top.snapshot>>
        ELSE <<>>
  BY DEF Replay
<1>9. /\ top.manual = IF Manual(d) = {} THEN 0 ELSE Max(Manual(d))
      /\ top.snapshot = IF Catalog(d) = {} THEN 0 ELSE Max(Catalog(d))
  <2>1. {i \in Manual(d) : i <= b} = Manual(d) /\ {i \in Catalog(d) : i <= b} = Catalog(d)
    BY <1>1, <1>2
  <2>2. top = [manual |-> LastUpTo(Manual(d), b), snapshot |-> LastUpTo(Catalog(d), b)]
    <3> HIDE DEF layers
    <3> QED
      BY <1>1, <1>7
  <2> HIDE DEF top
  <2> QED
    BY <2>1, <2>2 DEF LastUpTo
<1>10. /\ Manual(d) # {} => Max(Manual(d)) # 0
       /\ Catalog(d) # {} => Max(Catalog(d)) # 0
  BY <1>1, <1>2, LastOf
<1> HIDE DEF top
<1> QED
  BY <1>8, <1>9, <1>10 DEF Picked

LEMMA PricesFollow == LeaseInv => PricesFollowHistory
<1> SUFFICES ASSUME LeaseInv PROVE PricesFollowHistory
  OBVIOUS
<1>1. TypeOK
  BY DEF LeaseInv
<1>2. \A d \in Days : SelectPrice(Of("local"), d) = Replay(d)
  BY <1>1, SelectsPicked, ReplaysPicked
<1> QED
  BY <1>2, LeaseWorks DEF PricesFollowHistory, HistoryReplays

-----------------------------------------------------------------------------
(* Overrides and previews. *)

(* A step that leaves the local row's versions alone, but for snapshots, or *)
(* saves nothing, leaves the overrides alone.                               *)
OverridesKept ==
    \A d \in Days : /\ Manual(d)' = Manual(d)
                    /\ \A i \in Manual(d) : versions'[i].mode = versions[i].mode

LocalKept ==
    \A d \in Days : /\ Manual(d)' = Manual(d) /\ Catalog(d)' = Catalog(d)
                    /\ \A i \in Manual(d) : versions'[i].mode = versions[i].mode

LEMMA PickedKept ==
  ASSUME TypeOK, LocalKept, NEW d \in Days
  PROVE  Picked(d)' = Picked(d)
<1>1. Manual(d) # {} => Max(Manual(d)) \in Manual(d)
  <2>1. Manual(d) \in SUBSET DOMAIN versions
    BY DEF Manual, Of
  <2> QED
    BY <2>1, LastOf
<1>2. Manual(d)' = Manual(d) /\ Catalog(d)' = Catalog(d)
  BY DEF LocalKept
<1>3. Manual(d) # {} => versions'[Max(Manual(d))].mode = versions[Max(Manual(d))].mode
  BY <1>1 DEF LocalKept
<1>4. LegacyOn(d)' = LegacyOn(d)
  BY DEF LegacyOn
<1> QED
  BY <1>2, <1>3, <1>4 DEF Picked

\* An appended version is all that may be new on a day.
LEMMA AppendKeeps ==
  ASSUME TypeOK, NEW v \in Version, versions' = Append(versions, v), NEW d \in Days
  PROVE  /\ v.source # "manual" =>
              /\ Manual(d)' = Manual(d)
              /\ \A i \in Manual(d) : versions'[i].mode = versions[i].mode
         /\ v.key # "local" => Manual(d)' = Manual(d) /\ Catalog(d)' = Catalog(d)
<1> DEFINE n == Len(versions) + 1
<1>1. /\ (DOMAIN versions)' = DOMAIN versions \cup {n} /\ n \notin DOMAIN versions
      /\ versions'[n] = v /\ \A i \in DOMAIN versions : versions'[i] = versions[i]
  BY AppendFacts
<1>2. \A i \in DOMAIN versions : Covers(versions'[i], d) <=> Covers(versions[i], d)
  BY <1>1
<1> HIDE DEF n
<1>3. v.key # "local" => Of("local")' = Of("local")
  BY <1>1 DEF Of
<1>4. Of("local")' \subseteq Of("local") \cup {n} /\ Of("local") \subseteq Of("local")'
      /\ Of("local") \subseteq DOMAIN versions
  BY <1>1 DEF Of
<1>5. v.source # "manual" => Manual(d)' = Manual(d)
  <2> SUFFICES ASSUME v.source # "manual" PROVE Manual(d)' = Manual(d)
    OBVIOUS
  <2>1. Manual(d)' \subseteq Manual(d)
    BY <1>1, <1>2, <1>4 DEF Manual
  <2>2. Manual(d) \subseteq Manual(d)'
    BY <1>1, <1>2, <1>4 DEF Manual
  <2> QED
    BY <2>1, <2>2
<1>6. v.key # "local" => Manual(d)' = Manual(d) /\ Catalog(d)' = Catalog(d)
  BY <1>1, <1>2, <1>3, <1>4 DEF Manual, Catalog
<1>7. \A i \in Manual(d) : versions'[i].mode = versions[i].mode
  BY <1>1 DEF Manual, Of
<1> QED
  BY <1>5, <1>6, <1>7

(* A step that changes what any day costs moves the revision of the row.    *)
LEMMA RevisionTells ==
  ASSUME LeaseInv, PriceNext
  PROVE  /\ local'.revision >= local.revision
         /\ local'.revision = local.revision => LocalKept
<1>1. TypeOK /\ FieldsOK /\ AttemptsOK
  BY DEF LeaseInv
<1>2. local.revision \in Nat
  BY <1>1 DEF FieldsOK
<1>3. UNCHANGED versions => LocalKept
  BY DEF LocalKept, Manual, Catalog, Of
<1>4. CASE Quiet
  BY <1>2, <1>3, <1>4 DEF Quiet
<1>5. CASE \E p \in Programs : Commit(p)
  <2>1. PICK p \in Programs : Commit(p)
    BY <1>5
  <2> DEFINE price == PriceOf[prog[p].seen]
             v == Snapshot(Target, price, prog[p].day + 1, prog[p].seen)
  <2>2. prog[p].pc = "commit" /\ SyncCatalog(p)
    BY <2>1 DEF Commit
  <2>3. CASE price = "gone"
    <3>1. UNCHANGED versions
      BY <2>2, <2>3 DEF SyncCatalog
    <3>2. local' = local \/ local' = [local EXCEPT !.available = FALSE, !.revision = @ + 1]
      BY <2>2, <2>3 DEF SyncCatalog
    <3>3. local'.revision = local.revision \/ local'.revision = local.revision + 1
      BY <1>1, <3>2 DEF FieldsOK
    <3> QED
      BY <1>2, <1>3, <3>1, <3>3
  <2>4. CASE price # "gone" /\ ~Changed(Target, price)
    <3>1. UNCHANGED versions
      BY <2>2, <2>4 DEF SyncCatalog
    <3>2. local' = local \/ local'.revision = local.revision + 0
      BY <2>2, <2>4 DEF SyncCatalog
    <3> QED
      BY <1>2, <1>3, <3>1, <3>2
  <2>5. CASE price # "gone" /\ Changed(Target, price) /\ Target = "local"
    <3>1. local'.revision = local.revision + 1
      BY <2>2, <2>5 DEF SyncCatalog
    <3> QED
      BY <1>2, <3>1
  <2>6. CASE price # "gone" /\ Changed(Target, price) /\ Target # "local"
    <3>1. local' = local /\ versions' = Append(versions, v)
      BY <2>2, <2>6 DEF SyncCatalog
    <3>2. v \in Version /\ v.key # "local"
      <4>1. /\ prog[p].day \in 1..day /\ prog[p].seen \in 1..remote
        BY <1>1, <2>2 DEF AttemptsOK, Working
      <4>2. /\ day \in 1..MaxDay /\ MaxDay \in Nat
            /\ remote \in 1..Len(PriceOf) /\ Len(PriceOf) \in Nat
        BY <1>1, PriceOfFacts, PriceAssumption DEF TypeOK, Days
      <4>3. prog[p].seen \in Remotes /\ prog[p].seen \in 0..Len(PriceOf)
            /\ prog[p].day + 1 \in 1..(MaxDay + 1)
        BY <4>1, <4>2, PriceOfFacts
      <4>4. price \in Prices /\ Target \in {"local", "external"}
        BY <2>6, <4>3, PriceOfFacts DEF Target
      <4>5. v.key = Target
        BY DEF Snapshot
      <4> QED
        BY <2>6, <4>3, <4>4, <4>5, SnapshotType
    <3>3. LocalKept
      <4>1. \A i \in DOMAIN versions : versions'[i] = versions[i]
        BY <1>1, <3>1, <3>2, AppendFacts
      <4> HIDE DEF v
      <4> SUFFICES ASSUME NEW d \in Days
                   PROVE  /\ Manual(d)' = Manual(d) /\ Catalog(d)' = Catalog(d)
                          /\ \A i \in Manual(d) : versions'[i].mode = versions[i].mode
        BY DEF LocalKept
      <4>2. Manual(d)' = Manual(d) /\ Catalog(d)' = Catalog(d)
        BY <1>1, <3>1, <3>2, AppendKeeps
      <4> QED
        BY <4>1, <4>2 DEF Manual, Of
    <3> QED
      BY <1>2, <3>1, <3>3
  <2> QED
    BY <2>3, <2>4, <2>5, <2>6
<1>6. CASE Save
  <2>1. CASE draft.revision = local.revision
    <3>1. local'.revision = local.revision + 1
      BY <1>1, <1>6, <2>1 DEF Save, FieldsOK
    <3> QED
      BY <1>2, <3>1
  <2>2. CASE draft.revision # local.revision
    BY <1>2, <1>3, <1>6, <2>2 DEF Save
  <2> QED
    BY <2>1, <2>2
<1>7. CASE LinkModel
  <2>1. local'.revision = local.revision + 1
    BY <1>7 DEF LinkModel
  <2> QED
    BY <1>2, <2>1
<1> QED
  BY <1>4, <1>5, <1>6, <1>7, QuietSteps

LEMMA DraftStep ==
  ASSUME PriceInv, PriceNext
  PROVE  DraftOK'
<1>1. LeaseInv /\ DraftOK /\ TypeOK /\ FieldsOK /\ LeaseInv'
  BY LeaseStep DEF PriceInv, LeaseInv
<1>2. /\ local'.revision >= local.revision
      /\ local'.revision = local.revision => LocalKept
      /\ local.revision \in Nat /\ local'.revision \in Nat
  BY <1>1, RevisionTells DEF LeaseInv, FieldsOK
<1>3. LocalKept => [d \in Days |-> SelectPrice(Of("local"), d)]'
                     = [d \in Days |-> SelectPrice(Of("local"), d)]
  <2> SUFFICES ASSUME LocalKept
               PROVE  \A d \in Days : SelectPrice(Of("local"), d)' = SelectPrice(Of("local"), d)
    BY DEF Days
  <2> TAKE d \in Days
  <2>1. SelectPrice(Of("local"), d) = Picked(d)
    BY <1>1, SelectsPicked
  <2>2. SelectPrice(Of("local"), d)' = Picked(d)'
    <3>1. LeaseInv' => AllPicked'
      BY SelectsAll, PTL
    <3> QED
      BY <1>1, <3>1 DEF AllPicked
  <2>3. Picked(d)' = Picked(d)
    BY <1>1, PickedKept
  <2> QED
    BY <1>1, <2>1, <2>2, <2>3
<1>4. CASE UNCHANGED draft
  <2>1. ASSUME draft.pc = "shown", draft.revision = local'.revision
        PROVE  draft.others = [d \in Days |-> SelectPrice(Of("local"), d)]'
    <3>1. draft.revision = local.revision /\ LocalKept
      BY <1>1, <1>2, <2>1 DEF DraftOK
    <3> QED
      BY <1>1, <1>3, <2>1, <3>1 DEF DraftOK
  <2> QED
    BY <1>1, <1>2, <1>4, <2>1 DEF DraftOK
<1>5. CASE Preview
  BY <1>2, <1>5 DEF Preview, DraftOK
<1>6. CASE PreviewPrices
  <2>1. /\ draft'.pc = "shown" /\ draft'.revision = draft.revision
        /\ draft'.others = [d \in Days |-> SelectPrice(Of("local"), d)]
        /\ UNCHANGED <<local, versions>> /\ draft.pc = "read"
    BY <1>6 DEF PreviewPrices
  <2>2. [d \in Days |-> SelectPrice(Of("local"), d)]' = [d \in Days |-> SelectPrice(Of("local"), d)]
    BY <1>2, <1>3, <2>1
  <2> QED
    BY <1>1, <2>1, <2>2 DEF DraftOK
<1>7. CASE Save
  BY <1>7 DEF Save, DraftOK
<1>8. UNCHANGED draft \/ Preview \/ PreviewPrices \/ Save
  BY DEF PriceNext, Work, Tick, NextDay, CatalogChanges, Request, GoAway, Acquire, FetchCatalog, Superseded,
         Commit, AttemptFails, Crash, Enqueue, Settings, LinkModel
<1> QED
  BY <1>4, <1>5, <1>6, <1>7, <1>8

LEMMA PriceStutter ==
  ASSUME PriceInv, UNCHANGED priceVars
  PROVE  PriceInv'
<1>1. LeaseInv'
  BY LeaseStutter DEF PriceInv
<1>2. DraftOK'
  BY DEF PriceInv, DraftOK, priceVars, SelectPrice, Of, Covers, LegacyOn
<1> QED
  BY <1>1, <1>2 DEF PriceInv

LEMMA InitPrice == PriceInit => PriceInv
<1> SUFFICES ASSUME PriceInit PROVE PriceInv
  OBVIOUS
<1>1. draft = [pc |-> "none"]
  BY DEF PriceInit
<1>2. DraftOK
  BY <1>1 DEF DraftOK
<1> QED
  BY <1>2, InitLease DEF PriceInv

LEMMA PriceStep == PriceInv /\ [PriceNext]_priceVars => PriceInv'
BY LeaseStep, DraftStep, PriceStutter DEF PriceInv

LEMMA PriceAlways == PriceSpec => []PriceInv
BY InitPrice, PriceStep, PTL DEF PriceSpec

(* A save takes what was shown, and what was shown is what is there.        *)
LEMMA SaveReviewed ==
  ASSUME PriceInv, PriceNext
  PROVE  SavesWhatWasReviewed
<1>1. spent \in [saves : Nat, edits : Nat, failures : Nat, crashes : Nat]
  BY DEF PriceInv, LeaseInv, FieldsOK
<1>2. spent'.saves = spent.saves \/ Save
  BY <1>1 DEF PriceNext, Work, Tick, NextDay, CatalogChanges, Request, GoAway, Acquire, FetchCatalog, Superseded,
         Commit, AttemptFails, Crash, Enqueue, Settings, Preview, PreviewPrices, LinkModel, Spend, Lose
<1>3. ASSUME Save, spent'.saves > spent.saves
      PROVE  draft.pc = "shown" /\ draft.revision = local.revision
  BY <1>1, <1>3 DEF Save
<1> QED
  BY <1>1, <1>2, <1>3 DEF SavesWhatWasReviewed, PriceInv, DraftOK

(* An override that decides a day decides it after every step that saves    *)
(* nothing.                                                                 *)
LEMMA StepKeepsOverrides ==
  ASSUME PriceInv, PriceNext
  PROVE  KeepsOverrides
<1>1. LeaseInv /\ TypeOK /\ FieldsOK /\ VersionsOK /\ AttemptsOK /\ LeaseInv'
  BY LeaseStep DEF PriceInv, LeaseInv
<1>2. ASSUME spent'.saves = spent.saves PROVE OverridesKept
  <2>1. UNCHANGED versions => OverridesKept
    BY DEF OverridesKept, Manual, Of
  <2>2. CASE Quiet
    BY <2>1, <2>2 DEF Quiet
  <2>3. CASE \E p \in Programs : Commit(p)
    <3>1. PICK p \in Programs : Commit(p)
      BY <2>3
    <3> DEFINE v == Snapshot(Target, PriceOf[prog[p].seen], prog[p].day + 1, prog[p].seen)
    <3>2. SyncCatalog(p) /\ prog[p].pc = "commit"
      BY <3>1 DEF Commit
    <3>3. CASE versions' # versions
      <4>1. versions' = Append(versions, v) /\ PriceOf[prog[p].seen] # "gone"
        BY <3>2, <3>3 DEF SyncCatalog
      <4>2. v \in Version /\ v.source # "manual"
        <5>1. /\ prog[p].day \in 1..day /\ prog[p].seen \in 1..remote
          BY <1>1, <3>2 DEF AttemptsOK, Working
        <5>2. /\ day \in 1..MaxDay /\ MaxDay \in Nat
              /\ remote \in 1..Len(PriceOf) /\ Len(PriceOf) \in Nat
          BY <1>1, PriceOfFacts, PriceAssumption DEF TypeOK, Days
        <5>3. prog[p].seen \in Remotes /\ prog[p].seen \in 0..Len(PriceOf)
              /\ prog[p].day + 1 \in 1..(MaxDay + 1)
          BY <5>1, <5>2, PriceOfFacts
        <5>4. PriceOf[prog[p].seen] \in Prices /\ Target \in {"local", "external"}
          BY <4>1, <5>3, PriceOfFacts DEF Target
        <5>5. v.source = "openrouter"
          BY DEF Snapshot
        <5> QED
          BY <5>3, <5>4, <5>5, SnapshotType
      <4> HIDE DEF v
      <4> QED
        BY <1>1, <4>1, <4>2, AppendKeeps DEF OverridesKept
    <3> QED
      BY <2>1, <3>3
  <2>4. CASE Save
    <3>1. spent.saves \in Nat /\ spent \in [saves : Nat, edits : Nat, failures : Nat, crashes : Nat]
      BY <1>1 DEF FieldsOK
    <3>2. UNCHANGED versions
      BY <1>2, <2>4, <3>1 DEF Save, Spend
    <3> QED
      BY <2>1, <3>2
  <2>5. CASE LinkModel
    <3>1. /\ DOMAIN versions' = DOMAIN versions
          /\ \A i \in DOMAIN versions : /\ versions'[i] = [versions[i] EXCEPT !.key = "local"]
                                        /\ versions[i] \in Version
      BY <1>1, <2>5, LinkFacts, VersionFacts
    <3>2. ASSUME NEW w \in Version, NEW x, x = [w EXCEPT !.key = "local"]
          PROVE  /\ x.key = "local" /\ x.source = w.source /\ x.mode = w.mode
                 /\ x.from = w.from /\ x.to = w.to
      BY <3>2 DEF Version
    <3>3. \A i \in DOMAIN versions :
            /\ versions'[i].key = "local" /\ versions'[i].source = versions[i].source
            /\ versions'[i].mode = versions[i].mode
            /\ versions'[i].from = versions[i].from /\ versions'[i].to = versions[i].to
      BY <3>1, <3>2
    <3>4. \A i \in DOMAIN versions : versions[i].source = "manual" => versions[i].key = "local"
      BY <1>1 DEF VersionsOK
    <3>5. \A d \in Days : Manual(d)' = Manual(d)
      BY <3>1, <3>3, <3>4 DEF Manual, Of, Covers
    <3> QED
      BY <3>3, <3>5 DEF OverridesKept, Manual, Of
  <2> QED
    BY <2>2, <2>3, <2>4, <2>5, QuietSteps
<1>3. ASSUME NEW d \in Days, spent'.saves = spent.saves,
             SelectPrice(Of("local"), d) # <<>>, SelectPrice(Of("local"), d)[1] = "manual"
      PROVE  SelectPrice(Of("local"), d)' = SelectPrice(Of("local"), d)
  <2> DEFINE m == Max(Manual(d))
  <2>1. SelectPrice(Of("local"), d) = Picked(d)
    BY <1>1, SelectsPicked
  <2>2. SelectPrice(Of("local"), d)' = Picked(d)'
    <3>1. LeaseInv' => AllPicked'
      BY SelectsAll, PTL
    <3> QED
      BY <1>1, <3>1 DEF AllPicked
  <2>3. Manual(d) # {} /\ versions[m].mode = "price"
    <3>1. <<"official", Max(LegacyOn(d))>>[1] # "manual"
      OBVIOUS
    <3>2. <<"openrouter", Max(Catalog(d))>>[1] # "manual"
      OBVIOUS
    <3> QED
      BY <1>3, <2>1, <3>1, <3>2 DEF Picked
  <2>4. m \in Manual(d)
    <3>1. Manual(d) \in SUBSET DOMAIN versions
      BY DEF Manual, Of
    <3> QED
      BY <1>1, <2>3, <3>1, LastOf
  <2>5. Manual(d)' = Manual(d) /\ versions'[m].mode = "price"
    BY <1>2, <1>3, <2>3, <2>4 DEF OverridesKept
  <2>6. Picked(d) = <<"manual", m>> /\ Picked(d)' = <<"manual", m>>
    BY <2>3, <2>5 DEF Picked
  <2> QED
    BY <1>1, <2>1, <2>2, <2>6
<1> QED
  BY <1>3 DEF KeepsOverrides

-----------------------------------------------------------------------------
(* The theorems. *)

(* What select_price answers for a day is what replaying the decisions in   *)
(* their order leaves; what is stored of the catalogue follows the order it *)
(* was read in, whichever program was overtaken; and no two programs fetch  *)
(* on a lease that has time left.  (run_if_due, sync_catalog, link_model)   *)
THEOREM PricesAreTheirHistory == PriceSpec => []PricesFollowHistory
BY LeaseAlways, PricesFollow, PTL

(* An override is saved over the prices its preview showed, and neither a   *)
(* sync nor a link takes a day from the override that decides it.           *)
(* (save_price_version, sync_catalog, link_model)                           *)
THEOREM OverridesAlwaysHold == PriceSpec => OverridesHold
<1>1. ASSUME PriceInv, [PriceNext]_priceVars PROVE [SavesWhatWasReviewed /\ KeepsOverrides]_priceVars
  BY <1>1, SaveReviewed, StepKeepsOverrides
<1> QED
  BY <1>1, PriceAlways, PTL DEF PriceSpec, OverridesHold

(* Where a requested synchronisation is while no worker dies: still         *)
(* requested, or under way by the holder of the lease, or done.             *)
AtWork(p) == sync.holder = p /\ Working(p)

RequestIsKept ==
    spent.crashes = 0 =>
        \/ sync.requested
        \/ sync.status \in {"disabled", "success"}
        \/ \E p \in Programs : AtWork(p)

StatusOK ==
    /\ sync.status \in {"queued", "failed"} => sync.requested
    /\ sync.status = "running" /\ spent.crashes = 0 => \E p \in Programs : AtWork(p)

LEMMA StatusStep ==
  ASSUME TypeOK, FieldsOK, StatusOK, PriceNext
  PROVE  StatusOK'
<1>1. spent.crashes \in Nat /\ Programs = {"loop", "cli"} /\ prog \in [Programs -> Attempt]
  BY DEF FieldsOK, Programs
<1>2. ASSUME sync'.status = sync.status, sync'.requested = sync.requested, sync'.holder = sync.holder,
             spent'.crashes = spent.crashes,
             \A p \in Programs : AtWork(p) => prog'[p].pc \in {"fetch", "commit"}
      PROVE  StatusOK'
  BY <1>2 DEF StatusOK, AtWork, Working
<1>3. CASE Tick
  <2>1. \A p \in Programs : prog'[p].pc = prog[p].pc
    BY <1>1, <1>3 DEF Tick, Attempt
  <2>2. sync' = [sync EXCEPT !.due = Less(@), !.lease = Less(@)] /\ spent' = spent
    BY <1>3 DEF Tick
  <2> QED
    BY <1>2, <2>1, <2>2 DEF TypeOK, AtWork, Working
<1>4. CASE NextDay \/ CatalogChanges \/ Preview \/ PreviewPrices \/ LinkModel
  BY <1>2, <1>4 DEF NextDay, CatalogChanges, Preview, PreviewPrices, LinkModel, AtWork, Working
<1>5. CASE Save
  <2>1. sync' = sync /\ prog' = prog /\ spent'.crashes = spent.crashes
    BY <1>5 DEF Save, Spend, FieldsOK
  <2> QED
    BY <1>2, <2>1 DEF AtWork, Working
<1>6. CASE Enqueue \/ \E p \in Programs : Request(p)
  <2>1. sync'.requested /\ sync'.holder = sync.holder /\ spent'.crashes = spent.crashes
        /\ sync'.status \in {"queued", sync.status}
    BY <1>6 DEF Enqueue, Request, Spend, FieldsOK, TypeOK
  <2>2. \A p \in Programs : AtWork(p) => prog'[p].pc = prog[p].pc
    BY <1>1, <1>6 DEF Enqueue, Request, AtWork, Working, Attempt
  <2> QED
    BY <2>1, <2>2 DEF StatusOK, AtWork, Working
<1>7. CASE Settings
  <2>1. sync'.status = sync.status /\ sync'.requested = sync.requested /\ sync'.holder = sync.holder
        /\ spent'.crashes = spent.crashes /\ prog' = prog
    BY <1>7 DEF Settings, Spend, FieldsOK, TypeOK
  <2> QED
    BY <1>2, <2>1 DEF AtWork, Working
<1>8. ASSUME NEW p \in Programs, Work(p) \/ Crash(p) PROVE StatusOK'
  <2>1. CASE GoAway(p)
    <3>1. sync' = sync /\ spent' = spent /\ prog[p].pc = "start" /\ \A q \in Programs \ {p} : prog'[q] = prog[q]
      BY <1>1, <2>1 DEF GoAway, Ready
    <3> QED
      BY <1>2, <3>1 DEF AtWork, Working
  <2>2. CASE Acquire(p)
    <3>1. sync'.status = "running" /\ sync'.holder = p /\ prog'[p].pc = "fetch"
      BY <1>1, <2>2 DEF Acquire, TypeOK
    <3> QED
      BY <3>1 DEF StatusOK, AtWork, Working
  <2>3. CASE FetchCatalog(p)
    <3>1. sync' = sync /\ spent' = spent /\ prog'[p].pc = "commit" /\ \A q \in Programs \ {p} : prog'[q] = prog[q]
      BY <1>1, <2>3 DEF FetchCatalog, Attempt
    <3> QED
      BY <1>2, <3>1 DEF AtWork, Working
  <2>4. CASE Superseded(p)
    <3>1. sync' = sync /\ spent' = spent /\ sync.holder # p /\ \A q \in Programs \ {p} : prog'[q] = prog[q]
      BY <1>1, <2>4 DEF Superseded, HoldsLease
    <3> QED
      BY <1>2, <3>1 DEF AtWork, Working
  <2>5. CASE Commit(p)
    <3>1. sync'.status = "success"
      BY <2>5 DEF Commit, TypeOK
    <3> QED
      BY <3>1 DEF StatusOK
  <2>6. CASE AttemptFails(p)
    <3>1. spent'.crashes = spent.crashes
      BY <2>6 DEF AttemptFails, Lose, Spend, FieldsOK
    <3>2. CASE HoldsLease(p)
      <4>1. sync'.status = "failed" /\ sync'.requested
        BY <2>6, <3>2 DEF AttemptFails, TypeOK
      <4> QED
        BY <4>1 DEF StatusOK
    <3>3. CASE ~HoldsLease(p)
      <4>1. sync' = sync /\ sync.holder # p /\ \A q \in Programs \ {p} : prog'[q] = prog[q]
        BY <1>1, <2>6, <3>3 DEF AttemptFails, HoldsLease
      <4> QED
        BY <1>2, <3>1, <4>1 DEF AtWork, Working
    <3> QED
      BY <3>2, <3>3
  <2>7. CASE Crash(p)
    <3>1. sync' = sync /\ spent'.crashes # 0
      BY <1>1, <2>7 DEF Crash, Lose, Spend, FieldsOK
    <3> QED
      BY <3>1 DEF StatusOK
  <2> QED
    BY <1>8, <2>1, <2>2, <2>3, <2>4, <2>5, <2>6, <2>7 DEF Work
<1> QED
  BY <1>3, <1>4, <1>5, <1>6, <1>7, <1>8 DEF PriceNext

(* While no worker dies, a request for a synchronisation is never dropped:  *)
(* neither by a failed fetch, nor by a program that was overtaken, nor by   *)
(* another request or a change of the schedule in between.  This is what    *)
(* RequestIsServed rests on beside the scheduling.  (run_if_due, enqueue)   *)
THEOREM RequestsAreKept == PriceSpec => []RequestIsKept
<1>1. PriceInit => StatusOK
  BY DEF PriceInit, StatusOK
<1>2. ASSUME LeaseInv, StatusOK, [PriceNext]_priceVars PROVE StatusOK'
  <2>1. CASE PriceNext
    BY <1>2, <2>1, StatusStep DEF LeaseInv
  <2>2. CASE UNCHANGED priceVars
    BY <1>2, <2>2 DEF priceVars, StatusOK, AtWork, Working
  <2> QED
    BY <1>2, <2>1, <2>2
<1>3. ASSUME LeaseInv, StatusOK PROVE RequestIsKept
  BY <1>3 DEF LeaseInv, TypeOK, StatusOK, RequestIsKept
<1> QED
  BY <1>1, <1>2, <1>3, LeaseAlways, PTL DEF PriceSpec

-----------------------------------------------------------------------------
(* Pipelines: the types, the rollups, and the pulls of an update. *)

RunSteps == {"idle", "billing", "org", "ralli", "replace", "contract", "monitoring", "gateway",
             "insert", "compare", "daily", "commit", "hourly",
             "token", "series", "merge", "apps", "usage", "rebuild"}
UpdateSteps == {"token", "series", "merge", "apps", "usage", "rebuild"}
DailyTable == [app : Nat, contract : Nat, gw : SUBSET Nat]

JobRow == [pc : RunSteps, rows : SUBSET Nat, seen : DailyTable,
           from : RunSteps \cup {"none", "alone"},
           at : [served : Nat, today : Nat, pulled : BOOLEAN],
           ended : {"no", "stopped", "done"}]

JobsOK == job \in [{"run", "loop"} -> JobRow]

DatabaseOK ==
    /\ ledger \in Nat /\ gw \subseteq Nat /\ contract \in Nat
    /\ org \in [users : Nat, members : Nat, torn : BOOLEAN]
    /\ app \in [calls : Nat, stats : Nat, allowed : BOOLEAN]
    /\ daily \in DailyTable /\ hourly \in [app : Nat, gw : SUBSET Nat]

\* The last n items of a pull.
Suffix(kind, n) == SubSeq(Items[kind], Len(Items[kind]) - n + 1, Len(Items[kind]))

Todos == UNION {{Suffix(k, n) : n \in 0..Len(Items[k])} : k \in Kinds}

PullRow == [kind : Kinds \cup {"none"}, todo : Todos,
            bad : BOOLEAN, thin : BOOLEAN, day : Nat \ {0}, seen : Nat,
            code : {"running", "ok", "failed"}]

FoldersOK ==
    /\ served \in Nat \ {0} /\ today \in Nat \ {0}
    /\ tree = [t \in Trees |-> tree[t]]
    /\ \A t \in Trees : /\ DOMAIN tree[t] \subseteq 1..today
                        /\ tree[t] \in [DOMAIN tree[t] -> [FilesOf[t] -> Nat]]
    /\ pull \in PullRow /\ pull.day <= today
    /\ Running => /\ pull.kind \in Kinds
                  /\ Len(pull.todo) \in 0..Len(Items[pull.kind])
                  /\ pull.todo = Suffix(pull.kind, Len(pull.todo))

\* What is in the tables when a run that went through the rollups ends.
RollupsOK ==
    LET run == job["run"]
        loop == job["loop"]
        Shows(row) == row.app = app.calls /\ row.contract = contract
    IN /\ run.ended = "done" => run.pc = "idle"
       /\ run.pc = "commit" => loop.pc # "commit" /\ Shows(run.seen)
       /\ \/ run.pc = "hourly" /\ run.from # "hourly"
          \/ run.ended = "done" /\ run.from \notin {"alone", "hourly"}
          => Shows(daily) /\ (loop.pc = "commit" => Shows(loop.seen))
       /\ run.ended = "done" /\ run.from # "alone" => hourly.app = app.calls

-----------------------------------------------------------------------------
Since == job["run"].at
Fresh(v) == v >= Since.served
Today(v) == v >= Since.today
Pulls(kind) == At("run", kind) /\ Since.pulled

OwnPull ==
    /\ job["run"].pc \in UpdateSteps => Since.served \in 1..served /\ Since.today \in 1..today
    /\ At("run", "merge") => ~Since.pulled
    /\ Running /\ ~Free("run") =>
          job["run"].pc \in PullSteps /\ Pulls(pull.kind) /\ ~pull.thin

\* How far the update's pull of the two applications has come.
AppsSoFar ==
    LET n == Len(pull.todo)
        d == pull.day
    IN Running /\ Pulls("apps") =>
        /\ d >= Since.today
        /\ \A e \in DOMAIN tree["ralli"] \cup DOMAIN tree["tla"] : e <= d
        /\ ~pull.bad =>
            /\ n <= 6 => d \in DOMAIN tree["ralli"] /\ Fresh(tree["ralli"][d]["collections"])
            /\ n <= 5 => Fresh(tree["ralli"][d]["stats"])
            /\ n <= 4 => Fresh(tree["ralli"][d]["users"])
            /\ n <= 3 => Fresh(tree["ralli"][d]["raw"])
            /\ n <= 2 => tree["ralli"][d]["raw"] = tree["ralli"][d]["collections"]
            /\ n <= 1 => d \in DOMAIN tree["tla"] /\ Fresh(tree["tla"][d]["units"])
            /\ n = 0 => Fresh(tree["tla"][d]["members"]) /\ d \notin torn

\* The folders of day d are the ones the loads of both applications take.
AppsHere(d) ==
    /\ d \in DOMAIN tree["ralli"] /\ d \in DOMAIN tree["tla"] /\ d >= Since.today
    /\ \A f \in FilesOf["ralli"] : Fresh(tree["ralli"][d][f])
    /\ tree["ralli"][d]["raw"] = tree["ralli"][d]["collections"]
    /\ \A e \in DOMAIN tree["ralli"] : e <= d
    /\ \A f \in {"units", "members"} : Fresh(tree["tla"][d][f])
    /\ d \notin torn
    /\ \A e \in DOMAIN tree["tla"] : e > d => tree["tla"][e]["units"] = 0

UsageHere(d) ==
    /\ d \in DOMAIN tree["tla"] /\ Fresh(tree["tla"][d]["usage"])
    /\ \A e \in DOMAIN tree["tla"] : e <= d

AppsDone ==
    \/ Pulls("apps") /\ pull.code = "ok"
    \/ At("run", "usage") \/ At("run", "rebuild")
    => \E d \in DOMAIN tree["ralli"] : AppsHere(d)

UsageDone ==
    \/ Pulls("usage") /\ (pull.code = "ok" \/ (Running /\ pull.todo = <<>>))
    \/ At("run", "rebuild")
    => \E d \in DOMAIN tree["tla"] : UsageHere(d)

PullsOK == OwnPull /\ AppsSoFar /\ AppsDone /\ UsageDone

TypesOK == JobsOK /\ DatabaseOK
PipelineInv == FoldersOK /\ TypesOK /\ PullsOK /\ RollupsOK /\ EveryCallHasItsUnit

-----------------------------------------------------------------------------
(* What a pull has left to do.                                              *)
LEMMA KindsAre ==
  /\ Kinds = {"apps", "token", "usage", "series"}
  /\ Len(Items["apps"]) = 7 /\ Len(Items["token"]) = 0
  /\ Len(Items["usage"]) = 2 /\ Len(Items["series"]) = 2
  /\ \A k \in Kinds : Len(Items[k]) \in Nat
BY DEF Kinds, Items

LEMMA ItemsAre ==
  /\ Items["apps"][1] = <<"ralli", "collections">>
  /\ Items["apps"][2] = <<"ralli", "stats">>
  /\ Items["apps"][3] = <<"ralli", "users">>
  /\ Items["apps"][4] = <<"ralli", "raw">>
  /\ Items["apps"][5] = <<"ralli", "crosscheck">>
  /\ Items["apps"][6] = <<"tla", "units">>
  /\ Items["apps"][7] = <<"tla", "members">>
  /\ Items["usage"][1] = <<"tla", "days">>
  /\ Items["usage"][2] = <<"tla", "usage">>
  /\ Items["series"][1] = <<"series", "p">>
  /\ Items["series"][2] = <<"series", "q">>
BY DEF Items

LEMMA TreesAre ==
  /\ Trees = {"ralli", "tla", "series"}
  /\ FilesOf["ralli"] = {"collections", "stats", "users", "raw"}
  /\ FilesOf["tla"] = {"units", "members", "usage"}
  /\ FilesOf["series"] = {"p", "q"}
BY DEF Trees, FilesOf, Projects

LEMMA ItemsAreSeqs ==
  \A k \in Kinds : Items[k] \in Seq(UNION {{t} \X {"p", "q", "collections", "stats", "users", "raw", "crosscheck",
                                           "units", "members", "days", "usage"} : t \in Trees})
<1> DEFINE N == {"p", "q", "collections", "stats", "users", "raw", "crosscheck",
                 "units", "members", "days", "usage"}
           P == UNION {{t} \X N : t \in Trees}
<1>1. \A t \in Trees, f \in N : <<t, f>> \in P
  OBVIOUS
<1>2. Items["apps"] \in Seq(P) /\ Items["token"] \in Seq(P)
  BY <1>1, TreesAre DEF Items
<1>3. Items["usage"] \in Seq(P) /\ Items["series"] \in Seq(P)
  BY <1>1, TreesAre DEF Items
<1> QED
  BY <1>2, <1>3, KindsAre

(* A pull that has n items left has done the others, and takes the next.    *)
LEMMA SuffixStep ==
  ASSUME NEW kind \in Kinds, NEW n \in 1..Len(Items[kind])
  PROVE  /\ Suffix(kind, n) # <<>> /\ Len(Suffix(kind, n)) = n
         /\ Head(Suffix(kind, n)) = Items[kind][Len(Items[kind]) - n + 1]
         /\ Tail(Suffix(kind, n)) = Suffix(kind, n - 1)
         /\ Len(Suffix(kind, n - 1)) = n - 1
<1> DEFINE I == Items[kind]
           l == Len(I)
<1>1. PICK P : I \in Seq(P)
  BY ItemsAreSeqs
<1>2. n \in Nat /\ n >= 1 /\ l \in Nat /\ n <= l
  BY KindsAre
<1>3. l - n + 1 \in 1..l /\ l \in (l - n + 1)..l /\ l - (n - 1) + 1 = l - n + 1 + 1
  BY <1>2
<1> HIDE DEF I, l
<1>4. /\ Head(SubSeq(I, l - n + 1, l)) = I[l - n + 1]
      /\ Tail(SubSeq(I, l - n + 1, l)) = SubSeq(I, l - n + 1 + 1, l)
  BY <1>1, <1>3, HeadTailOfSubSeq DEF l
<1>5. \A i \in 1..l : I[i] \in P
  BY <1>1, ElementOfSeq DEF l
<1>6. /\ Len(SubSeq(I, l - n + 1, l)) = IF l - n + 1 <= l THEN l - (l - n + 1) + 1 ELSE 0
      /\ SubSeq(I, l - n + 1, l) \in Seq(P)
  BY <1>2, <1>5, SubSeqProperties
<1>7. Len(SubSeq(I, l - (n - 1) + 1, l)) = IF l - (n - 1) + 1 <= l THEN l - (l - (n - 1) + 1) + 1 ELSE 0
  BY <1>2, <1>5, SubSeqProperties
<1>8. Len(SubSeq(I, l - n + 1, l)) = n /\ Len(SubSeq(I, l - (n - 1) + 1, l)) = n - 1
  BY <1>2, <1>6, <1>7
<1>9. SubSeq(I, l - n + 1, l) # <<>>
  <2> SUFFICES ASSUME SubSeq(I, l - n + 1, l) = <<>> PROVE FALSE
    OBVIOUS
  <2>1. Len(SubSeq(I, l - n + 1, l)) = 0
    BY EmptySeq, Zenon
  <2> QED
    BY <1>2, <1>8, <2>1
<1> QED
  BY <1>3, <1>4, <1>8, <1>9 DEF Suffix, I, l

LEMMA SuffixIsTodo ==
  ASSUME NEW kind \in Kinds, NEW n \in 0..Len(Items[kind])
  PROVE  Suffix(kind, n) \in Todos
<1>1. Suffix(kind, n) \in {Suffix(kind, m) : m \in 0..Len(Items[kind])}
  OBVIOUS
<1> QED
  BY <1>1 DEF Todos

LEMMA SuffixEnds ==
  ASSUME NEW kind \in Kinds
  PROVE  /\ Suffix(kind, 0) = <<>>
         /\ Suffix(kind, Len(Items[kind])) = Items[kind]
<1>1. Len(Items[kind]) \in Nat
  BY KindsAre
<1>2. PICK P : Items[kind] \in Seq(P)
  BY ItemsAreSeqs
<1>3. Suffix(kind, 0) = <<>>
  BY <1>1, SubSeqEmpty DEF Suffix
<1>4. Len(Items[kind]) - Len(Items[kind]) + 1 = 1
  BY <1>1
<1> QED
  BY <1>2, <1>3, <1>4, SubSeqFull DEF Suffix

(* The item a pull comes to, for each program.                              *)
LEMMA ItemCases ==
  ASSUME FoldersOK, Running, pull.todo # <<>>
  PROVE  LET n == Len(pull.todo)
         IN /\ n \in 1..Len(Items[pull.kind])
            /\ Tail(pull.todo) = Suffix(pull.kind, n - 1) /\ Len(Tail(pull.todo)) = n - 1
            /\ \/ pull.kind = "apps" /\ n = 7 /\ Item = <<"ralli", "collections">>
               \/ pull.kind = "apps" /\ n = 6 /\ Item = <<"ralli", "stats">>
               \/ pull.kind = "apps" /\ n = 5 /\ Item = <<"ralli", "users">>
               \/ pull.kind = "apps" /\ n = 4 /\ Item = <<"ralli", "raw">>
               \/ pull.kind = "apps" /\ n = 3 /\ Item = <<"ralli", "crosscheck">>
               \/ pull.kind = "apps" /\ n = 2 /\ Item = <<"tla", "units">>
               \/ pull.kind = "apps" /\ n = 1 /\ Item = <<"tla", "members">>
               \/ pull.kind = "usage" /\ n = 2 /\ Item = <<"tla", "days">>
               \/ pull.kind = "usage" /\ n = 1 /\ Item = <<"tla", "usage">>
               \/ pull.kind = "series" /\ n = 2 /\ Item = <<"series", "p">>
               \/ pull.kind = "series" /\ n = 1 /\ Item = <<"series", "q">>
<1> DEFINE k == pull.kind
           n == Len(pull.todo)
<1>1. k \in Kinds /\ n \in 0..Len(Items[k]) /\ pull.todo = Suffix(k, n)
  BY DEF FoldersOK
<1>2. n # 0
  BY <1>1, SuffixEnds
<1>3. n \in 1..Len(Items[k])
  BY <1>1, <1>2, KindsAre
<1> HIDE DEF n, k
<1>4. /\ Item = Items[k][Len(Items[k]) - n + 1]
      /\ Tail(pull.todo) = Suffix(k, n - 1) /\ Len(Tail(pull.todo)) = n - 1
  BY <1>1, <1>3, SuffixStep DEF Item
<1>5. \/ k = "apps" /\ n = 7 /\ Item = Items["apps"][1]
      \/ k = "apps" /\ n = 6 /\ Item = Items["apps"][2]
      \/ k = "apps" /\ n = 5 /\ Item = Items["apps"][3]
      \/ k = "apps" /\ n = 4 /\ Item = Items["apps"][4]
      \/ k = "apps" /\ n = 3 /\ Item = Items["apps"][5]
      \/ k = "apps" /\ n = 2 /\ Item = Items["apps"][6]
      \/ k = "apps" /\ n = 1 /\ Item = Items["apps"][7]
      \/ k = "usage" /\ n = 2 /\ Item = Items["usage"][1]
      \/ k = "usage" /\ n = 1 /\ Item = Items["usage"][2]
      \/ k = "series" /\ n = 2 /\ Item = Items["series"][1]
      \/ k = "series" /\ n = 1 /\ Item = Items["series"][2]
  <2>1. CASE k = "apps"
    BY <1>3, <1>4, <2>1, KindsAre
  <2>2. CASE k = "usage"
    BY <1>3, <1>4, <2>2, KindsAre
  <2>3. CASE k = "series"
    BY <1>3, <1>4, <2>3, KindsAre
  <2>4. CASE k = "token"
    BY <1>3, <2>4, KindsAre
  <2> QED
    BY <1>1, <2>1, <2>2, <2>3, <2>4, KindsAre
<1> QED
  BY <1>3, <1>4, <1>5, ItemsAre DEF k, n

(* Only six items are pages of the applications.                            *)
LEMMA PageCases ==
  ASSUME FoldersOK, Running, pull.todo # <<>>, IsPage
  PROVE  LET n == Len(pull.todo)
         IN pull.kind = "apps" /\ (\/ n = 7 /\ Item = <<"ralli", "collections">>
                                   \/ n = 6 /\ Item = <<"ralli", "stats">>
                                   \/ n = 5 /\ Item = <<"ralli", "users">>
                                   \/ n = 4 /\ Item = <<"ralli", "raw">>
                                   \/ n = 2 /\ Item = <<"tla", "units">>)
<1> DEFINE n == Len(pull.todo)
<1> HIDE DEF n
<1> QED
  BY ItemCases, TreesAre DEF IsPage, n

-----------------------------------------------------------------------------
(* What writing a file, or making a folder, changes in the tree.            *)
LEMMA FolderOK ==
  ASSUME FoldersOK, NEW t \in Trees, NEW d
  PROVE  Folder(t, d) \in [FilesOf[t] -> Nat]
BY DEF FoldersOK, Folder, NoFile

(* A folder with new files; a file that is put into one.                    *)
LEMMA WithOK ==
  ASSUME FoldersOK, NEW t \in Trees, NEW d \in 1..today, NEW files \in [FilesOf[t] -> Nat],
         tree' = [tree EXCEPT ![t] = With(@, d, files)]
  PROVE  /\ tree' = [u \in Trees |-> tree'[u]]
         /\ \A u \in Trees \ {t} : tree'[u] = tree[u]
         /\ DOMAIN tree'[t] = DOMAIN tree[t] \cup {d}
         /\ tree'[t][d] = files
         /\ \A e \in DOMAIN tree[t] \ {d} : tree'[t][e] = tree[t][e]
         /\ \A u \in Trees : /\ DOMAIN tree'[u] \subseteq 1..today
                             /\ tree'[u] \in [DOMAIN tree'[u] -> [FilesOf[u] -> Nat]]
<1>1. tree = [u \in Trees |-> tree[u]] /\ \A u \in Trees : /\ DOMAIN tree[u] \subseteq 1..today
                                                           /\ tree[u] \in [DOMAIN tree[u] -> [FilesOf[u] -> Nat]]
  BY DEF FoldersOK
<1>2. tree' = [u \in Trees |-> IF u = t THEN With(tree[t], d, files) ELSE tree[u]]
  BY <1>1
<1>3. tree'[t] = With(tree[t], d, files) /\ \A u \in Trees \ {t} : tree'[u] = tree[u]
  BY <1>2
<1>4. With(tree[t], d, files) = [e \in DOMAIN tree[t] \cup {d} |-> IF e = d THEN files ELSE tree[t][e]]
  BY DEF With
<1>5. /\ DOMAIN tree'[t] = DOMAIN tree[t] \cup {d}
      /\ tree'[t][d] = files
      /\ \A e \in DOMAIN tree[t] \ {d} : tree'[t][e] = tree[t][e]
  BY <1>3, <1>4
<1>6. tree'[t] \in [DOMAIN tree'[t] -> [FilesOf[t] -> Nat]]
  BY <1>1, <1>3, <1>4, <1>5
<1> QED
  BY <1>1, <1>2, <1>3, <1>5, <1>6

LEMMA PutOK ==
  ASSUME FoldersOK, NEW t \in Trees, NEW d \in 1..today, NEW f \in FilesOf[t], NEW v \in Nat,
         tree' = Put(t, d, f, v)
  PROVE  /\ tree' = [u \in Trees |-> tree'[u]]
         /\ \A u \in Trees \ {t} : tree'[u] = tree[u]
         /\ DOMAIN tree'[t] = DOMAIN tree[t] \cup {d}
         /\ tree'[t][d][f] = v
         /\ \A g \in FilesOf[t] \ {f} : tree'[t][d][g] = Folder(t, d)[g]
         /\ \A e \in DOMAIN tree[t] \ {d} : tree'[t][e] = tree[t][e]
         /\ \A u \in Trees : /\ DOMAIN tree'[u] \subseteq 1..today
                             /\ tree'[u] \in [DOMAIN tree'[u] -> [FilesOf[u] -> Nat]]
<1> DEFINE files == [Folder(t, d) EXCEPT ![f] = v]
<1>1. Folder(t, d) \in [FilesOf[t] -> Nat]
  BY FolderOK
<1>2. files \in [FilesOf[t] -> Nat] /\ files[f] = v /\ \A g \in FilesOf[t] \ {f} : files[g] = Folder(t, d)[g]
  BY <1>1
<1>3. tree' = [tree EXCEPT ![t] = With(@, d, files)]
  BY DEF Put
<1> HIDE DEF files
<1>4. files \in [FilesOf[t] -> Nat]
  BY <1>2
<1>5. /\ tree' = [u \in Trees |-> tree'[u]]
      /\ \A u \in Trees \ {t} : tree'[u] = tree[u]
      /\ DOMAIN tree'[t] = DOMAIN tree[t] \cup {d}
      /\ tree'[t][d] = files
      /\ \A e \in DOMAIN tree[t] \ {d} : tree'[t][e] = tree[t][e]
      /\ \A u \in Trees : /\ DOMAIN tree'[u] \subseteq 1..today
                          /\ tree'[u] \in [DOMAIN tree'[u] -> [FilesOf[u] -> Nat]]
  BY <1>3, <1>4, WithOK
<1> QED
  BY <1>2, <1>5

LEMMA MakeFolderOK ==
  ASSUME FoldersOK, NEW t \in Trees, NEW d \in 1..today, tree' = MakeFolder(t, d)
  PROVE  /\ tree' = [u \in Trees |-> tree'[u]]
         /\ \A u \in Trees \ {t} : tree'[u] = tree[u]
         /\ DOMAIN tree'[t] = DOMAIN tree[t] \cup {d}
         /\ \A e \in DOMAIN tree[t] : tree'[t][e] = tree[t][e]
         /\ \A u \in Trees : /\ DOMAIN tree'[u] \subseteq 1..today
                             /\ tree'[u] \in [DOMAIN tree'[u] -> [FilesOf[u] -> Nat]]
<1>1. Folder(t, d) \in [FilesOf[t] -> Nat]
  BY FolderOK
<1>2. tree' = [tree EXCEPT ![t] = With(@, d, Folder(t, d))]
  BY DEF MakeFolder
<1>3. d \in DOMAIN tree[t] => Folder(t, d) = tree[t][d]
  BY DEF Folder
<1>4. /\ tree' = [u \in Trees |-> tree'[u]]
      /\ \A u \in Trees \ {t} : tree'[u] = tree[u]
      /\ DOMAIN tree'[t] = DOMAIN tree[t] \cup {d}
      /\ tree'[t][d] = Folder(t, d)
      /\ \A e \in DOMAIN tree[t] \ {d} : tree'[t][e] = tree[t][e]
      /\ \A u \in Trees : /\ DOMAIN tree'[u] \subseteq 1..today
                          /\ tree'[u] \in [DOMAIN tree'[u] -> [FilesOf[u] -> Nat]]
  BY <1>1, <1>2, WithOK
<1> QED
  BY <1>3, <1>4

(* What an item that is done, the end of a pull and its start make of its   *)
(* record.                                                                  *)
LEMMA DoneOK ==
  ASSUME FoldersOK, Running, pull.todo # <<>>, NEW bad \in BOOLEAN,
         NEW seen \in Nat,
         pull' = [Done(Item, bad) EXCEPT !.seen = seen]
  PROVE  /\ pull' \in PullRow /\ pull'.todo = Tail(pull.todo)
         /\ pull'.kind = pull.kind /\ pull'.day = pull.day /\ pull'.thin = pull.thin
         /\ pull'.code = "running" /\ pull'.bad = (pull.bad \/ bad) /\ pull'.seen = seen
         /\ Len(pull'.todo) = Len(pull.todo) - 1
         /\ Len(pull'.todo) \in 0..Len(Items[pull.kind])
         /\ pull'.todo = Suffix(pull.kind, Len(pull'.todo))
<1> DEFINE n == Len(pull.todo)
<1>1. pull \in PullRow /\ pull.kind \in Kinds /\ pull.code = "running" /\ Len(Items[pull.kind]) \in Nat
  BY KindsAre DEF FoldersOK, Running
<1>2. /\ n \in 1..Len(Items[pull.kind])
      /\ Tail(pull.todo) = Suffix(pull.kind, n - 1) /\ Len(Tail(pull.todo)) = n - 1
  BY ItemCases
<1> HIDE DEF n
<1>3. n - 1 \in 0..Len(Items[pull.kind])
  BY <1>1, <1>2
<1>4. Tail(pull.todo) \in Todos
  BY <1>1, <1>2, <1>3, SuffixIsTodo
<1>5. pull'.bad = (pull.bad \/ bad)
  BY <1>1 DEF Done, PullRow
<1>6. pull'.bad \in BOOLEAN
  BY <1>5
<1>7. pull' = [kind |-> pull.kind, todo |-> Tail(pull.todo), bad |-> pull'.bad, thin |-> pull.thin,
               day |-> pull.day, seen |-> seen, code |-> pull.code]
  BY <1>1 DEF Done, PullRow
<1>8. pull' \in PullRow
  BY <1>1, <1>4, <1>6, <1>7 DEF PullRow
<1>9. /\ pull'.todo = Tail(pull.todo) /\ pull'.kind = pull.kind /\ pull'.day = pull.day
      /\ pull'.thin = pull.thin /\ pull'.code = "running" /\ pull'.seen = seen
  BY <1>1, <1>7
<1> QED
  BY <1>2, <1>3, <1>5, <1>8, <1>9 DEF n

LEMMA DoneKeepsSeen ==
  ASSUME FoldersOK, NEW bad
  PROVE  Done(Item, bad) = [Done(Item, bad) EXCEPT !.seen = pull.seen]
BY DEF Done, FoldersOK, PullRow

LEMMA ExitOK ==
  ASSUME NEW code \in {"ok", "failed"}, Exit(code)
  PROVE  pull' \in PullRow /\ pull'.day = 1 /\ pull'.code = code
<1>1. pull' = [kind |-> "none", todo |-> <<>>, bad |-> FALSE, thin |-> FALSE, day |-> 1, seen |-> 0, code |-> code]
  BY DEF Exit, NoPull
<1>2. "token" \in Kinds /\ 0 \in 0..Len(Items["token"])
  BY KindsAre
<1>3. <<>> \in Todos
  BY <1>2, SuffixEnds, SuffixIsTodo
<1> QED
  BY <1>1, <1>3 DEF PullRow

LEMMA StartOK ==
  ASSUME FoldersOK, NEW kind \in Kinds, NEW thin \in BOOLEAN, StartPull(kind, thin)
  PROVE  /\ FoldersOK' /\ Running' /\ pull'.kind = kind /\ pull'.thin = thin /\ pull'.day = today
         /\ pull'.todo = Items[kind] /\ pull'.bad = FALSE
<1>1. pull' = [kind |-> kind, todo |-> Items[kind], bad |-> FALSE, thin |-> thin, day |-> today, seen |-> 0,
               code |-> "running"]
  BY DEF StartPull, NoPull
<1>2. /\ Len(Items[kind]) \in Nat /\ Len(Items[kind]) \in 0..Len(Items[kind])
      /\ Items[kind] = Suffix(kind, Len(Items[kind]))
  BY SuffixEnds, KindsAre
<1>3. Items[kind] \in Todos
  BY <1>2, SuffixIsTodo
<1>4. pull' \in PullRow /\ pull'.day <= today
  BY <1>1, <1>3 DEF PullRow, FoldersOK
<1>5. UNCHANGED <<served, today, tree, torn>>
  BY DEF StartPull
<1> QED
  BY <1>1, <1>2, <1>4, <1>5 DEF FoldersOK, Running

-----------------------------------------------------------------------------
(* The folders stay well formed, action by action.                          *)
LEMMA GrowOK ==
  ASSUME FoldersOK, Grow \/ NewDay
  PROVE  FoldersOK'
<1>1. served' \in Nat \ {0} /\ today' \in Nat \ {0} /\ today <= today'
  BY DEF FoldersOK, Grow, NewDay
<1>2. UNCHANGED <<tree, pull>>
  BY DEF Grow, NewDay
<1>3. 1..today \subseteq 1..today' /\ pull.day \in Nat /\ pull.day <= today'
  BY <1>1 DEF FoldersOK, PullRow
<1> QED
  BY <1>1, <1>2, <1>3 DEF FoldersOK, Running

\* A pull that ends leaves the tree as it is.
LEMMA ExitKeeps ==
  ASSUME FoldersOK, NEW code \in {"ok", "failed"}, Exit(code), UNCHANGED <<served, today, tree>>
  PROVE  FoldersOK'
BY ExitOK DEF FoldersOK, Running

LEMMA DayOK ==
  ASSUME FoldersOK
  PROVE  pull.day \in 1..today /\ today \in 1..today /\ served \in Nat
BY DEF FoldersOK, PullRow

\* A step of a pull goes on to the next item.
LEMMA DoneKeeps ==
  ASSUME FoldersOK, Running, pull.todo # <<>>, NEW bad \in BOOLEAN, NEW seen \in Nat,
         pull' = [Done(Item, bad) EXCEPT !.seen = seen],
         UNCHANGED <<served, today>>,
         \/ tree' = tree
         \/ \E t \in Trees, d \in 1..today :
               tree' = MakeFolder(t, d) \/ \E f \in FilesOf[t] : tree' = Put(t, d, f, served)
  PROVE  FoldersOK'
<1>1. /\ tree' = [t \in Trees |-> tree'[t]]
      /\ \A t \in Trees : /\ DOMAIN tree'[t] \subseteq 1..today
                          /\ tree'[t] \in [DOMAIN tree'[t] -> [FilesOf[t] -> Nat]]
  <2>1. CASE tree' = tree
    BY <2>1 DEF FoldersOK
  <2>2. CASE \E t \in Trees, d \in 1..today : tree' = MakeFolder(t, d)
    <3>1. PICK t \in Trees, d \in 1..today : tree' = MakeFolder(t, d)
      BY <2>2
    <3> QED
      BY <3>1, MakeFolderOK
  <2>3. CASE \E t \in Trees, d \in 1..today : \E f \in FilesOf[t] : tree' = Put(t, d, f, served)
    <3>1. PICK t \in Trees, d \in 1..today : \E f \in FilesOf[t] : tree' = Put(t, d, f, served)
      BY <2>3
    <3>2. PICK f \in FilesOf[t] : tree' = Put(t, d, f, served)
      BY <3>1
    <3>3. served \in Nat
      BY DayOK
    <3> QED
      BY <3>2, <3>3, PutOK
  <2> QED
    BY <2>1, <2>2, <2>3
<1>2. /\ pull' \in PullRow /\ pull'.day = pull.day /\ pull'.kind = pull.kind
      /\ Len(pull'.todo) \in 0..Len(Items[pull.kind])
      /\ pull'.todo = Suffix(pull.kind, Len(pull'.todo))
  BY DoneOK
<1>3. pull.kind \in Kinds /\ pull'.day <= today'
  BY <1>2 DEF FoldersOK
<1> QED
  BY <1>1, <1>2, <1>3 DEF FoldersOK

(* Every step of a pull leaves the folders well formed.                     *)
LEMMA PullStepOK ==
  ASSUME FoldersOK, PullStep \/ PullFault
  PROVE  FoldersOK'
<1>1. Running
  BY DEF PullStep, PullFault, Fetch, FetchSeries, CrossCheck, Members, MembersOf, UsageDays, UsageRows,
         EndPull, NoToken, FetchFails, SeriesFails, KillPull
<1>2. pull.day \in 1..today /\ today \in 1..today /\ served \in Nat /\ pull.seen \in Nat
  BY DayOK DEF FoldersOK, PullRow
<1>3. CASE Fetch
  <2>1. pull.todo # <<>> /\ IsPage /\ pull' = Done(Item, FALSE) /\ UNCHANGED <<served, today>>
    BY <1>3 DEF Fetch
  <2>2. Item[1] \in Trees /\ Item[2] \in FilesOf[Item[1]]
    BY <1>1, <2>1, PageCases, TreesAre
  <2>3. tree' = tree \/ tree' = Put(Item[1], pull.day, Item[2], served)
    BY <1>3 DEF Fetch
  <2>4. \/ tree' = tree
        \/ \E t \in Trees, d \in 1..today :
              tree' = MakeFolder(t, d) \/ \E f \in FilesOf[t] : tree' = Put(t, d, f, served)
    BY <1>2, <2>2, <2>3, Zenon
  <2> QED
    BY <1>1, <1>2, <2>1, <2>4, DoneKeeps, DoneKeepsSeen
<1>4. CASE FetchFails
  <2>1. /\ pull.todo # <<>> /\ IsPage /\ pull' = Done(Item, TRUE) /\ UNCHANGED <<served, today>>
        /\ tree' = MakeFolder(Item[1], pull.day)
    BY <1>4 DEF FetchFails
  <2>2. Item[1] \in Trees
    BY <1>1, <2>1, PageCases, TreesAre
  <2>3. \/ tree' = tree
        \/ \E t \in Trees, d \in 1..today :
              tree' = MakeFolder(t, d) \/ \E f \in FilesOf[t] : tree' = Put(t, d, f, served)
    BY <1>2, <2>1, <2>2, Zenon
  <2> QED
    BY <1>1, <1>2, <2>1, <2>3, DoneKeeps, DoneKeepsSeen
<1>5. CASE FetchSeries
  <2>1. /\ pull.todo # <<>> /\ Item[1] = "series" /\ pull' = Done(Item, FALSE) /\ UNCHANGED <<served, today>>
        /\ tree' = Put("series", pull.day, Item[2], served)
    BY <1>5 DEF FetchSeries
  <2>2. "series" \in Trees /\ Item[2] \in FilesOf["series"]
    BY <1>1, <2>1, ItemCases, TreesAre
  <2>3. \/ tree' = tree
        \/ \E t \in Trees, d \in 1..today :
              tree' = MakeFolder(t, d) \/ \E f \in FilesOf[t] : tree' = Put(t, d, f, served)
    BY <1>2, <2>1, <2>2, Zenon
  <2> QED
    BY <1>1, <1>2, <2>1, <2>3, DoneKeeps, DoneKeepsSeen
<1>6. CASE CrossCheck
  <2>1. pull.todo # <<>> /\ UNCHANGED <<served, today, tree>>
    BY <1>6 DEF CrossCheck
  <2>2. PICK bad \in BOOLEAN : pull' = Done(Item, bad)
    BY <1>6 DEF CrossCheck
  <2> QED
    BY <1>1, <1>2, <2>1, <2>2, DoneKeeps, DoneKeepsSeen
<1>7. CASE Members
  <2>1. PICK whole \in BOOLEAN : MembersOf(whole)
    BY <1>7 DEF Members
  <2>2. pull.todo # <<>> /\ UNCHANGED <<served, today>>
    BY <2>1 DEF MembersOf
  <2>3. \E bad \in BOOLEAN : pull' = Done(Item, bad)
    BY <2>1 DEF MembersOf
  <2>4. PICK bad \in BOOLEAN : pull' = Done(Item, bad)
    BY <2>3
  <2>5. tree' = tree \/ tree' = Put("tla", pull.day, "members", served)
    BY <2>1 DEF MembersOf
  <2>6. "tla" \in Trees /\ "members" \in FilesOf["tla"]
    BY TreesAre
  <2>7. \/ tree' = tree
        \/ \E t \in Trees, d \in 1..today :
              tree' = MakeFolder(t, d) \/ \E f \in FilesOf[t] : tree' = Put(t, d, f, served)
    BY <1>2, <2>5, <2>6, Zenon
  <2> QED
    BY <1>1, <1>2, <2>2, <2>4, <2>7, DoneKeeps, DoneKeepsSeen
<1>8. CASE UsageDays
  <2>1. /\ pull.todo # <<>> /\ UNCHANGED <<served, today, tree>>
        /\ pull' = [Done(Item, FALSE) EXCEPT !.seen = served]
    BY <1>8 DEF UsageDays
  <2> QED
    BY <1>1, <1>2, <2>1, DoneKeeps
<1>9. CASE UsageRows
  <2>1. pull.todo # <<>> /\ UNCHANGED <<served, today>>
    BY <1>9 DEF UsageRows
  <2>2. CASE served = pull.seen
    <3>1. tree' = Put("tla", today, "usage", served) /\ pull' = Done(Item, FALSE)
      BY <1>9, <2>2 DEF UsageRows
    <3>2. "tla" \in Trees /\ "usage" \in FilesOf["tla"]
      BY TreesAre
    <3>3. \/ tree' = tree
          \/ \E t \in Trees, d \in 1..today :
                tree' = MakeFolder(t, d) \/ \E f \in FilesOf[t] : tree' = Put(t, d, f, served)
      BY <1>2, <3>1, <3>2, Zenon
    <3> QED
      BY <1>1, <1>2, <2>1, <3>1, <3>3, DoneKeeps, DoneKeepsSeen
  <2>3. CASE served # pull.seen
    BY <1>9, <2>1, <2>3, ExitKeeps DEF UsageRows, Fails
  <2> QED
    BY <2>2, <2>3
<1>10. CASE EndPull
  <2>1. UNCHANGED <<served, today, tree>> /\ (Exit("failed") \/ Exit("ok"))
    BY <1>10 DEF EndPull
  <2> QED
    BY <2>1, ExitKeeps
<1>11. CASE NoToken \/ KillPull
  BY <1>11, ExitKeeps DEF NoToken, KillPull, Fails
<1>12. CASE SeriesFails
  <2>1. Exit("failed") /\ UNCHANGED <<served, today>> /\ tree' = MakeFolder("series", pull.day)
    BY <1>12 DEF SeriesFails, Fails
  <2>2. "series" \in Trees
    BY TreesAre
  <2>3. /\ tree' = [t \in Trees |-> tree'[t]]
        /\ \A t \in Trees : /\ DOMAIN tree'[t] \subseteq 1..today
                            /\ tree'[t] \in [DOMAIN tree'[t] -> [FilesOf[t] -> Nat]]
    BY <1>2, <2>1, <2>2, MakeFolderOK
  <2>4. pull' \in PullRow /\ pull'.day = 1 /\ pull'.code = "failed"
    BY <2>1, ExitOK
  <2> QED
    BY <2>1, <2>3, <2>4 DEF FoldersOK, Running
<1> QED
  BY <1>3, <1>4, <1>5, <1>6, <1>7, <1>8, <1>9, <1>10, <1>11, <1>12 DEF PullStep, PullFault

-----------------------------------------------------------------------------
(* What each way of going on makes of the two jobs.                         *)
LEMMA JobFields ==
  ASSUME JobsOK
  PROVE  /\ \A p \in {"run", "loop"} :
              /\ job[p] \in JobRow
              /\ job[p].pc \in RunSteps /\ job[p].rows \in SUBSET Nat /\ job[p].seen \in DailyTable
              /\ job[p].at.served \in Nat /\ job[p].at.today \in Nat /\ job[p].at.pulled \in BOOLEAN
              /\ job[p].ended \in {"no", "stopped", "done"} /\ job[p].from \in RunSteps \cup {"none", "alone"}
BY DEF JobsOK, JobRow

LEMMA IdleOK ==
  /\ Idle \in JobRow
  /\ Idle.pc = "idle" /\ Idle.from = "none" /\ Idle.ended = "no" /\ Idle.seen = EmptyDaily
  /\ Idle.rows = {} /\ Idle.at = [served |-> 0, today |-> 0, pulled |-> TRUE]
<1>1. EmptyDaily \in DailyTable
  BY DEF EmptyDaily, DailyTable
<1>2. [served |-> 0, today |-> 0, pulled |-> TRUE] \in [served : Nat, today : Nat, pulled : BOOLEAN]
  OBVIOUS
<1> QED
  BY <1>1, <1>2 DEF Idle, JobRow, RunSteps

LEMMA GoToOK ==
  ASSUME JobsOK, NEW p \in {"run", "loop"}, NEW pc \in RunSteps, GoTo(p, pc)
  PROVE  /\ JobsOK' /\ job'[p].pc = pc
         /\ job'[p].rows = job[p].rows /\ job'[p].seen = job[p].seen /\ job'[p].from = job[p].from
         /\ job'[p].at = job[p].at /\ job'[p].ended = job[p].ended
         /\ \A q \in {"run", "loop"} \ {p} : job'[q] = job[q]
<1>1. job'[p] = [job[p] EXCEPT !.pc = pc] /\ \A q \in {"run", "loop"} \ {p} : job'[q] = job[q]
  BY DEF GoTo, JobsOK
<1>2. job' = [q \in {"run", "loop"} |-> job'[q]]
  BY DEF GoTo, JobsOK
<1>3. job[p] \in JobRow
  BY JobFields
<1>4. job'[p] \in JobRow
  BY <1>1, <1>3 DEF JobRow
<1>5. \A q \in {"run", "loop"} : job'[q] \in JobRow
  BY <1>1, <1>4, JobFields
<1> QED
  BY <1>1, <1>2, <1>3, <1>5 DEF JobsOK, JobRow

LEMMA AfterIs ==
  /\ After["org"] = "ralli" /\ After["ralli"] = "contract" /\ After["replace"] = "contract"
  /\ After["contract"] = "monitoring" /\ After["monitoring"] = "gateway"
  /\ After["compare"] = "daily" /\ After["commit"] = "hourly"
  /\ After["token"] = "series" /\ After["series"] = "merge" /\ After["merge"] = "apps"
  /\ After["apps"] = "usage" /\ After["usage"] = "rebuild"
BY DEF After

LEMMA StopsOK ==
  ASSUME JobsOK, NEW p \in {"run", "loop"}, NEW why, Stops(p, why)
  PROVE  /\ JobsOK' /\ job'[p].pc = "idle" /\ job'[p].ended = "stopped" /\ job'[p].from = job[p].from
         /\ job'[p].seen = EmptyDaily /\ job'[p].at = Idle.at
         /\ \A q \in {"run", "loop"} \ {p} : job'[q] = job[q]
<1>1. /\ job'[p] = [Idle EXCEPT !.from = job[p].from, !.ended = "stopped"]
      /\ \A q \in {"run", "loop"} \ {p} : job'[q] = job[q]
      /\ job' = [q \in {"run", "loop"} |-> job'[q]]
  BY DEF Stops, JobsOK
<1>2. job[p].from \in RunSteps \cup {"none", "alone"}
  BY JobFields
<1>3. job'[p] \in JobRow
  BY <1>1, <1>2, IdleOK DEF JobRow
<1>4. \A q \in {"run", "loop"} : job'[q] \in JobRow
  BY <1>1, <1>3, JobFields
<1> QED
  BY <1>1, <1>4, IdleOK DEF JobsOK, JobRow

LEMMA EndsOK ==
  ASSUME JobsOK, NEW p \in {"run", "loop"}, Ends(p)
  PROVE  /\ JobsOK' /\ job'[p].pc = "idle" /\ job'[p].ended = "done" /\ job'[p].from = job[p].from
         /\ job'[p].seen = EmptyDaily /\ job'[p].at = Idle.at
         /\ \A q \in {"run", "loop"} \ {p} : job'[q] = job[q]
<1>1. /\ job'[p] = [Idle EXCEPT !.from = job[p].from, !.ended = "done"]
      /\ \A q \in {"run", "loop"} \ {p} : job'[q] = job[q]
      /\ job' = [q \in {"run", "loop"} |-> job'[q]]
  BY DEF Ends, JobsOK
<1>2. job[p].from \in RunSteps \cup {"none", "alone"}
  BY JobFields
<1>3. job'[p] \in JobRow
  BY <1>1, <1>2, IdleOK DEF JobRow
<1>4. \A q \in {"run", "loop"} : job'[q] \in JobRow
  BY <1>1, <1>3, JobFields
<1> QED
  BY <1>1, <1>4, IdleOK DEF JobsOK, JobRow

\* A job that begins: a run, a load by itself, or a cycle.
LEMMA BeginsOK ==
  ASSUME JobsOK, NEW p \in {"run", "loop"}, NEW pc \in RunSteps, NEW from \in RunSteps \cup {"none", "alone"},
         NEW at \in [served : Nat, today : Nat, pulled : BOOLEAN],
         job' = [job EXCEPT ![p] = [Idle EXCEPT !.pc = pc, !.from = from, !.at = at]]
  PROVE  /\ JobsOK' /\ job'[p].pc = pc /\ job'[p].ended = "no" /\ job'[p].from = from
         /\ job'[p].at = at /\ job'[p].seen = EmptyDaily
         /\ \A q \in {"run", "loop"} \ {p} : job'[q] = job[q]
<1>1. /\ job'[p] = [Idle EXCEPT !.pc = pc, !.from = from, !.at = at]
      /\ \A q \in {"run", "loop"} \ {p} : job'[q] = job[q]
      /\ job' = [q \in {"run", "loop"} |-> job'[q]]
  BY DEF JobsOK
<1>2. job'[p] \in JobRow
  BY <1>1, IdleOK DEF JobRow
<1>3. \A q \in {"run", "loop"} : job'[q] \in JobRow
  BY <1>1, <1>2, JobFields
<1> QED
  BY <1>1, <1>3, IdleOK DEF JobsOK, JobRow

-----------------------------------------------------------------------------
(* Which folder a load takes.                                               *)
LEMMA NewestOK ==
  ASSUME NEW n \in Nat, NEW days \in SUBSET (1..n)
  PROVE  /\ days = {} <=> Newest(days) = 0
         /\ days # {} => Newest(days) \in days /\ \A d \in days : Newest(days) >= d
<1>1. CASE days = {}
  BY <1>1 DEF Newest
<1>2. CASE days # {}
  <2>1. days \in SUBSET (0..n)
    OBVIOUS
  <2>2. Newest(days) = Max(days)
    BY <1>2 DEF Newest
  <2>3. Max(days) \in days /\ \A d \in days : Max(days) >= d
    BY <1>2, <2>1, MaxOf
  <2>4. Max(days) # 0
    BY <2>3
  <2> QED
    BY <1>2, <2>2, <2>3, <2>4
<1> QED
  BY <1>1, <1>2

(* The newest folder in which a file has come: the loads of the units and   *)
(* of the usage take it.                                                    *)
LEMMA LatestOK ==
  ASSUME FoldersOK, NEW t \in Trees, NEW required \in SUBSET FilesOf[t], Latest(t, required) # 0
  PROVE  /\ Latest(t, required) \in DOMAIN tree[t]
         /\ \A f \in required : tree[t][Latest(t, required)][f] # 0
         /\ \A f \in FilesOf[t] : tree[t][Latest(t, required)][f] \in Nat
<1> DEFINE days == {d \in DOMAIN tree[t] : \A f \in required : tree[t][d][f] # 0}
<1>1. today \in Nat /\ days \in SUBSET (1..today) /\ tree[t] \in [DOMAIN tree[t] -> [FilesOf[t] -> Nat]]
  BY DEF FoldersOK
<1>2. Latest(t, required) = Newest(days)
  BY DEF Latest
<1>3. Newest(days) \in days
  <2> HIDE DEF days
  <2> QED
    BY <1>1, <1>2, NewestOK
<1>4. \A d \in days : tree[t][d] \in [FilesOf[t] -> Nat]
  BY <1>1
<1> QED
  BY <1>2, <1>3, <1>4

LEMMA LatestRalliOK ==
  ASSUME FoldersOK, LatestRalli # 0
  PROVE  LatestRalli \in DOMAIN tree["ralli"] /\ \A f \in FilesOf["ralli"] : RalliBatch[f] \in Nat
<1>1. /\ "ralli" \in Trees /\ today \in Nat /\ DOMAIN tree["ralli"] \in SUBSET (1..today)
      /\ tree["ralli"] \in [DOMAIN tree["ralli"] -> [FilesOf["ralli"] -> Nat]]
  BY TreesAre DEF FoldersOK
<1>2. LatestRalli \in DOMAIN tree["ralli"]
  BY <1>1, NewestOK DEF LatestRalli
<1> QED
  BY <1>1, <1>2 DEF RalliBatch

-----------------------------------------------------------------------------
(* The types of the tables and of the jobs.                                 *)
LEMMA StartTypes ==
  ASSUME FoldersOK, TypesOK, Rebuild \/ Update \/ LoadRalli
  PROVE  TypesOK' /\ UNCHANGED <<served, today, tree, torn, pull>>
<1>1. served \in Nat /\ today \in Nat
  BY DEF FoldersOK
<1>2. \E pc \in RunSteps, from \in RunSteps \cup {"none", "alone"}, at \in [served : Nat, today : Nat, pulled : BOOLEAN] :
         job' = [job EXCEPT !["run"] = [Idle EXCEPT !.pc = pc, !.from = from, !.at = at]]
  <2>1. CASE Rebuild
    <3>1. PICK step \in {"billing", "org", "ralli", "contract", "monitoring", "gateway", "daily", "hourly"} :
             job' = [job EXCEPT !["run"] = [Idle EXCEPT !.pc = step, !.from = step, !.at = Idle.at]]
      BY <2>1 DEF Rebuild, StartRun
    <3>2. step \in RunSteps /\ Idle.at \in [served : Nat, today : Nat, pulled : BOOLEAN]
      BY IdleOK DEF RunSteps
    <3> QED
      BY <3>1, <3>2
  <2>2. CASE Update
    <3> DEFINE at == [served |-> served, today |-> today, pulled |-> FALSE]
    <3>1. job' = [job EXCEPT !["run"] = [Idle EXCEPT !.pc = "token", !.from = "token", !.at = at]]
      BY <2>2 DEF Update, StartRun
    <3>2. "token" \in RunSteps /\ at \in [served : Nat, today : Nat, pulled : BOOLEAN]
      BY <1>1 DEF RunSteps
    <3> QED
      BY <3>1, <3>2
  <2>3. CASE LoadRalli
    <3>1. job' = [job EXCEPT !["run"] = [Idle EXCEPT !.pc = "ralli", !.from = "alone"]]
      BY <2>3 DEF LoadRalli
    <3>2. [Idle EXCEPT !.pc = "ralli", !.from = "alone"] = [Idle EXCEPT !.pc = "ralli", !.from = "alone", !.at = Idle.at]
      BY DEF Idle
    <3>3. "ralli" \in RunSteps /\ Idle.at \in [served : Nat, today : Nat, pulled : BOOLEAN]
      BY IdleOK DEF RunSteps
    <3> QED
      BY <3>1, <3>2, <3>3
  <2> QED
    BY <2>1, <2>2, <2>3
<1>3. JobsOK'
  BY <1>2, BeginsOK DEF TypesOK
<1>4. UNCHANGED <<served, today, tree, torn, pull, ledger, dbVars>>
  BY DEF Rebuild, Update, LoadRalli, StartRun
<1> QED
  BY <1>3, <1>4 DEF TypesOK, DatabaseOK, dbVars

(* The loads of an update keep the types; and the loads of a rebuild.       *)
LEMMA UpdateTypes ==
  ASSUME TypesOK, StepPull \/ StepPulled \/ MergeSeries \/ RebuildRefuses
  PROVE  TypesOK'
<1>1. JobsOK /\ DatabaseOK /\ job["run"].pc \in RunSteps
  BY JobFields DEF TypesOK
<1>2. UNCHANGED <<ledger, dbVars>>
  BY DEF StepPull, StepPulled, MergeSeries, RebuildRefuses, Others
<1>3. JobsOK'
  <2>1. CASE StepPull
    <3>1. CASE job' = [job EXCEPT !["run"].at.pulled = TRUE]
      BY <1>1, <3>1 DEF JobsOK, JobRow
    <3>2. CASE At("run", "series") /\ Advance("run")
      <4>1. GoTo("run", "merge")
        BY <3>2, AfterIs DEF At, Advance
      <4> QED
        BY <1>1, <4>1, GoToOK DEF RunSteps
    <3> QED
      BY <2>1, <3>1, <3>2 DEF StepPull
  <2>2. CASE StepPulled
    <3>1. CASE pull.code = "ok"
      <4>1. job' = [job EXCEPT !["run"].pc = After[@], !["run"].at.pulled = FALSE] /\ job["run"].pc \in PullSteps
        BY <2>2, <3>1 DEF StepPulled
      <4>2. After[job["run"].pc] \in RunSteps
        BY <4>1, AfterIs DEF PullSteps, RunSteps
      <4> DEFINE row == [job["run"] EXCEPT !.pc = After[@], !.at.pulled = FALSE]
      <4>3. job \in [{"run", "loop"} -> JobRow] /\ job["run"] \in JobRow
        BY <1>1 DEF JobsOK
      <4>4. row \in JobRow
        BY <4>2, <4>3 DEF JobRow
      <4>5. job' = [job EXCEPT !["run"] = row]
        BY <4>1, <4>3
      <4> HIDE DEF row
      <4> QED
        BY <4>3, <4>4, <4>5 DEF JobsOK
    <3>2. CASE pull.code # "ok"
      BY <1>1, <2>2, <3>2, StopsOK DEF StepPulled
    <3> QED
      BY <3>1, <3>2
  <2>3. CASE MergeSeries
    <3>1. GoTo("run", "apps")
      BY <2>3, AfterIs DEF MergeSeries, At, Advance
    <3> QED
      BY <1>1, <3>1, GoToOK DEF RunSteps
  <2>4. CASE RebuildRefuses
    BY <1>1, <2>4, StopsOK DEF RebuildRefuses
  <2> QED
    BY <2>1, <2>2, <2>3, <2>4
<1> QED
  BY <1>1, <1>2, <1>3 DEF TypesOK, DatabaseOK, dbVars

LEMMA LoadTypes ==
  ASSUME FoldersOK, TypesOK, LoadOrg \/ RalliReplace \/ RalliCommit \/ LoadContract \/ LoadMonitoring
  PROVE  TypesOK'
<1>1. /\ JobsOK /\ DatabaseOK /\ job["run"].pc \in RunSteps /\ gw \in SUBSET Nat
      /\ job["run"].seen.app \in Nat /\ job["run"].seen.contract \in Nat
  BY JobFields DEF TypesOK, DatabaseOK, DailyTable
<1>2. /\ EmptyDaily \in DailyTable /\ EmptyApp \in [calls : Nat, stats : Nat, allowed : BOOLEAN]
  BY DEF EmptyDaily, DailyTable, EmptyApp
<1>3. CASE LoadOrg
  <2>1. CASE ~LockFree \/ Referenced \/ OrgRalli = 0 \/ OrgTla = 0 \/ UsageFolder = 0
    <3>1. Stops("run", "") /\ UNCHANGED <<ledger, dbVars>>
      BY <1>3, <2>1 DEF LoadOrg, Others
    <3> QED
      BY <1>1, <3>1, StopsOK DEF TypesOK, DatabaseOK, dbVars
  <2>2. CASE ~(~LockFree \/ Referenced \/ OrgRalli = 0 \/ OrgTla = 0 \/ UsageFolder = 0)
    <3>1. /\ org' = [users |-> tree["ralli"][OrgRalli]["users"],
                     members |-> tree["tla"][OrgTla]["members"], torn |-> OrgTla \in torn]
          /\ app' = EmptyApp /\ gw' = {} /\ daily' = EmptyDaily /\ Advance("run")
          /\ UNCHANGED <<ledger, contract, hourly>> /\ At("run", "org")
      BY <1>3, <2>2 DEF LoadOrg, Others
    <3>2. tree["ralli"][OrgRalli]["users"] \in Nat
      BY <2>2, LatestOK, TreesAre DEF OrgRalli
    <3>3. tree["tla"][OrgTla]["members"] \in Nat
      BY <2>2, LatestOK, TreesAre DEF OrgTla
    <3>4. GoTo("run", "ralli")
      BY <3>1, AfterIs DEF Advance, At
    <3>5. JobsOK'
      BY <1>1, <3>4, GoToOK DEF RunSteps
    <3>6. org' \in [users : Nat, members : Nat, torn : BOOLEAN]
      BY <3>1, <3>2, <3>3
    <3> QED
      BY <1>1, <1>2, <3>1, <3>5, <3>6 DEF TypesOK, DatabaseOK
  <2> QED
    BY <2>1, <2>2
<1>4. CASE RalliReplace
  <2>1. UNCHANGED <<ledger, dbVars>>
    BY <1>4 DEF RalliReplace, Others
  <2>2. JobsOK'
    <3>1. CASE Stops("run", "")
      BY <1>1, <3>1, StopsOK
    <3>2. CASE ~Stops("run", "")
      <4>1. /\ LatestRalli # 0
            /\ job' = [job EXCEPT !["run"].pc = "replace", !["run"].rows = gw,
                         !["run"].seen.app = RalliBatch["raw"],
                         !["run"].seen.contract = RalliBatch["stats"]]
        BY <1>4, <3>2 DEF RalliReplace
      <4>2. RalliBatch["raw"] \in Nat /\ RalliBatch["stats"] \in Nat /\ "replace" \in RunSteps
        BY <4>1, LatestRalliOK, TreesAre DEF RunSteps
      <4> DEFINE seen == [job["run"].seen EXCEPT !.app = RalliBatch["raw"], !.contract = RalliBatch["stats"]]
      <4>3. seen \in DailyTable
        BY <4>2, <1>1, JobFields DEF DailyTable
      <4>4. /\ job'["run"] = [job["run"] EXCEPT !.pc = "replace", !.rows = gw, !.seen = seen]
            /\ job'["loop"] = job["loop"] /\ job' = [q \in {"run", "loop"} |-> job'[q]]
        BY <1>1, <4>1, JobFields DEF JobsOK, JobRow
      <4> HIDE DEF seen
      <4>5. job'["run"] \in JobRow
        BY <1>1, <4>2, <4>3, <4>4, JobFields DEF JobRow
      <4> QED
        BY <1>1, <4>4, <4>5, JobFields DEF JobsOK
    <3> QED
      BY <3>1, <3>2
  <2> QED
    BY <1>1, <2>1, <2>2 DEF TypesOK, DatabaseOK, dbVars
<1>5. CASE RalliCommit
  <2>1. UNCHANGED <<ledger, org, contract, daily, hourly>> /\ At("run", "replace")
    BY <1>5 DEF RalliCommit, Others
  <2>2. CASE Stops("run", "") /\ UNCHANGED <<app, gw>>
    BY <1>1, <2>1, <2>2, StopsOK DEF TypesOK, DatabaseOK
  <2>3. CASE ~(Stops("run", "") /\ UNCHANGED <<app, gw>>)
    <3>1. /\ \E agrees \in BOOLEAN : app' = [calls |-> job["run"].seen.app, stats |-> job["run"].seen.contract,
                                            allowed |-> ~agrees]
          /\ gw' = {} /\ AfterRalli
      BY <1>5, <2>3 DEF RalliCommit
    <3>2. app' \in [calls : Nat, stats : Nat, allowed : BOOLEAN]
      BY <1>1, <3>1
    <3>3. JobsOK'
      <4>1. Ends("run") \/ GoTo("run", "contract")
        BY <2>1, <3>1, AfterIs DEF AfterRalli, Advance, At
      <4> QED
        BY <1>1, <4>1, EndsOK, GoToOK DEF RunSteps
    <3> QED
      BY <1>1, <2>1, <3>1, <3>2, <3>3 DEF TypesOK, DatabaseOK
  <2> QED
    BY <2>2, <2>3
<1>6. CASE LoadContract
  <2>1. UNCHANGED <<ledger, org, app, gw, daily, hourly>> /\ At("run", "contract")
    BY <1>6 DEF LoadContract, Others
  <2>2. CASE org = NoOrg \/ UsageFolder = 0
    BY <1>1, <1>6, <2>1, <2>2, StopsOK DEF TypesOK, DatabaseOK, LoadContract
  <2>3. CASE ~(org = NoOrg \/ UsageFolder = 0)
    <3>1. contract' = tree["tla"][UsageFolder]["usage"] /\ Advance("run")
      BY <1>6, <2>3 DEF LoadContract
    <3>2. contract' \in Nat
      BY <2>3, <3>1, LatestOK, TreesAre DEF UsageFolder
    <3>3. GoTo("run", "monitoring")
      BY <2>1, <3>1, AfterIs DEF Advance, At
    <3>4. JobsOK'
      BY <1>1, <3>3, GoToOK DEF RunSteps
    <3> QED
      BY <1>1, <2>1, <3>2, <3>4 DEF TypesOK, DatabaseOK
  <2> QED
    BY <2>2, <2>3
<1>7. CASE LoadMonitoring
  <2>1. UNCHANGED <<ledger, dbVars>> /\ At("run", "monitoring")
    BY <1>7 DEF LoadMonitoring, Others
  <2>2. Stops("run", "") \/ GoTo("run", "gateway")
    BY <1>7, AfterIs DEF LoadMonitoring, Advance, At
  <2>3. JobsOK'
    BY <1>1, <2>2, StopsOK, GoToOK DEF RunSteps
  <2> QED
    BY <1>1, <2>1, <2>3 DEF TypesOK, DatabaseOK, dbVars
<1> QED
  BY <1>3, <1>4, <1>5, <1>6, <1>7

(* So do all steps of a run and of the loop, and the world around them.     *)
LEMMA StepTypes ==
  ASSUME TypesOK, NEW p \in {"run", "loop"}, LoadStep(p)
  PROVE  TypesOK' /\ UNCHANGED pullVars
<1>1. /\ JobsOK /\ DatabaseOK /\ job[p].seen \in DailyTable /\ job[p].rows \in SUBSET Nat /\ gw \in SUBSET Nat
      /\ ledger \in Nat
  BY JobFields DEF TypesOK, DatabaseOK
<1>2. UNCHANGED pullVars /\ UNCHANGED <<ledger, org, app, contract>>
  BY DEF LoadStep, GatewayRead, GatewayInsert, GatewayCompare, DailyRead, DailyCommit, Hourly, Others, dbVars
<1>3. CASE GatewayRead(p)
  <2>1. Readable \in SUBSET Nat
    BY <1>1 DEF Readable, Gateway
  <2>2. UNCHANGED <<gw, daily, hourly>>
    BY <1>3 DEF GatewayRead, dbVars
  <2>3. CASE Stops(p, "failed")
    BY <1>1, <1>2, <2>2, <2>3, StopsOK DEF TypesOK, DatabaseOK
  <2>4. CASE job' = [job EXCEPT ![p].pc = "insert", ![p].rows = Readable]
    <3>1. JobsOK'
      BY <1>1, <2>1, <2>4 DEF JobsOK, JobRow, RunSteps
    <3> QED
      BY <1>1, <1>2, <2>2, <3>1 DEF TypesOK, DatabaseOK
  <2> QED
    BY <1>3, <2>3, <2>4 DEF GatewayRead
<1>4. CASE GatewayInsert(p)
  <2>1. gw' = gw \cup job[p].rows /\ GoTo(p, "compare") /\ UNCHANGED <<daily, hourly>>
    BY <1>4 DEF GatewayInsert
  <2>2. JobsOK'
    BY <1>1, <2>1, GoToOK DEF RunSteps
  <2> QED
    BY <1>1, <1>2, <2>1, <2>2 DEF TypesOK, DatabaseOK
<1>5. CASE GatewayCompare(p)
  <2>1. GoTo(p, "daily") \/ Stops(p, "mismatch")
    BY <1>5 DEF GatewayCompare
  <2>2. JobsOK' /\ UNCHANGED <<gw, daily, hourly>>
    BY <1>1, <1>5, <2>1, GoToOK, StopsOK DEF RunSteps, GatewayCompare, dbVars
  <2> QED
    BY <1>1, <1>2, <2>2 DEF TypesOK, DatabaseOK
<1>6. CASE DailyRead(p)
  <2>1. job' = [job EXCEPT ![p].pc = "commit", ![p].seen = Now] /\ UNCHANGED <<gw, daily, hourly>>
    BY <1>6 DEF DailyRead, dbVars
  <2>2. Now \in DailyTable
    BY <1>1 DEF Now, DailyTable, DatabaseOK
  <2>3. JobsOK'
    BY <1>1, <2>1, <2>2 DEF JobsOK, JobRow, RunSteps
  <2> QED
    BY <1>1, <1>2, <2>1, <2>3 DEF TypesOK, DatabaseOK
<1>7. CASE DailyCommit(p)
  <2>1. UNCHANGED <<gw, hourly>> /\ At(p, "commit")
    BY <1>7 DEF DailyCommit
  <2>2. (daily' = job[p].seen /\ GoTo(p, "hourly")) \/ (daily' = daily /\ Stops(p, "failed"))
    BY <1>7, AfterIs DEF DailyCommit, Advance, At
  <2>3. JobsOK' /\ daily' \in DailyTable
    BY <1>1, <2>2, GoToOK, StopsOK DEF RunSteps, DatabaseOK
  <2> QED
    BY <1>1, <1>2, <2>1, <2>3 DEF TypesOK, DatabaseOK
<1>8. CASE Hourly(p)
  <2>1. hourly' = [app |-> app.calls, gw |-> gw] /\ (Ends(p) \/ Stops(p, "failed")) /\ UNCHANGED <<gw, daily>>
    BY <1>8 DEF Hourly
  <2>2. JobsOK' /\ hourly' \in [app : Nat, gw : SUBSET Nat]
    BY <1>1, <2>1, EndsOK, StopsOK DEF DatabaseOK
  <2> QED
    BY <1>1, <1>2, <2>1, <2>2 DEF TypesOK, DatabaseOK
<1> QED
  BY <1>2, <1>3, <1>4, <1>5, <1>6, <1>7, <1>8 DEF LoadStep

LEMMA OtherTypes ==
  ASSUME FoldersOK, TypesOK,
         World \/ LogCall \/ PullAlone \/ Pulling \/ StartCycle \/ (\E p \in {"run", "loop"} : StepFails(p))
  PROVE  TypesOK' /\ UNCHANGED dbVars
<1>1. JobsOK /\ DatabaseOK
  BY DEF TypesOK
<1>2. UNCHANGED dbVars
  BY DEF World, LogCall, PullAlone, Pulling, StartCycle, StepFails
<1>3. ledger' \in Nat
  BY <1>1 DEF World, LogCall, PullAlone, Pulling, StartCycle, StepFails, Others, DatabaseOK
<1>4. JobsOK'
  <2>1. CASE StartCycle
    <3>1. job' = [job EXCEPT !["loop"] = [Idle EXCEPT !.pc = "gateway"]]
      BY <2>1 DEF StartCycle
    <3>2. [Idle EXCEPT !.pc = "gateway"] = [Idle EXCEPT !.pc = "gateway", !.from = "none", !.at = Idle.at]
      <4>1. /\ DOMAIN Idle = {"pc", "rows", "seen", "from", "at", "ended"}
            /\ Idle = [f \in DOMAIN Idle |-> Idle[f]]
        BY IdleOK DEF JobRow
      <4> QED
        BY <4>1, IdleOK
    <3>3. "gateway" \in RunSteps /\ Idle.at \in [served : Nat, today : Nat, pulled : BOOLEAN]
      BY IdleOK DEF RunSteps
    <3> QED
      BY <1>1, <3>1, <3>2, <3>3, BeginsOK
  <2>2. CASE \E p \in {"run", "loop"} : StepFails(p)
    BY <1>1, <2>2, StopsOK DEF StepFails
  <2>3. CASE World \/ LogCall \/ PullAlone \/ Pulling
    <3>1. job' = job
      BY <2>3 DEF World, LogCall, PullAlone, Pulling
    <3> QED
      BY <1>1, <3>1 DEF JobsOK
  <2> QED
    BY <2>1, <2>2, <2>3
<1> QED
  BY <1>1, <1>2, <1>3, <1>4 DEF TypesOK, DatabaseOK, dbVars

LEMMA TypesKept ==
  ASSUME FoldersOK, TypesOK, Next
  PROVE  TypesOK'
<1>1. CASE RunStep
  <2>1. CASE LoadStep("run")
    BY <2>1, StepTypes
  <2> QED
    BY <1>1, <2>1, UpdateTypes, LoadTypes DEF RunStep
<1>2. CASE LoadStep("loop")
  BY <1>2, StepTypes
<1> QED
  BY <1>1, <1>2, StartTypes, OtherTypes DEF Next

(* Only a pull, by itself or in an update, changes the folders.             *)
LEMMA FoldersKept ==
  ASSUME FoldersOK, TypesOK, Next
  PROVE  FoldersOK'
<1>1. ASSUME UNCHANGED <<served, today, tree, torn, pull>> PROVE FoldersOK'
  BY <1>1 DEF FoldersOK, Running
<1>2. CASE World
  BY <1>2, GrowOK DEF World
<1>3. CASE Pulling
  BY <1>3, PullStepOK DEF Pulling
<1>4. CASE PullAlone
  <2>1. PICK kind \in Kinds, thin \in BOOLEAN : StartPull(kind, thin)
    BY <1>4, KindsAre DEF PullAlone
  <2> QED
    BY <2>1, StartOK
<1>5. CASE StepPull
  <2>1. CASE UNCHANGED pullVars
    BY <1>1, <2>1 DEF pullVars
  <2>2. CASE ~UNCHANGED pullVars
    <3>1. job["run"].pc \in Kinds /\ StartPull(job["run"].pc, FALSE)
      BY <1>5, <2>2, KindsAre DEF StepPull, PullSteps
    <3> QED
      BY <3>1, StartOK
  <2> QED
    BY <2>1, <2>2
<1>6. CASE LogCall \/ Rebuild \/ Update \/ LoadRalli \/ StartCycle \/ (\E p \in {"run", "loop"} : StepFails(p))
  <2>1. UNCHANGED <<served, today, tree, torn, pull>>
    BY <1>6 DEF LogCall, Rebuild, Update, LoadRalli, StartRun, StartCycle, StepFails, Others, pullVars
  <2> QED
    BY <1>1, <2>1
<1>7. CASE (RunStep /\ ~StepPull) \/ LoadStep("loop")
  <2>1. UNCHANGED <<served, today, tree, torn, pull>>
    <3>1. CASE LoadStep("run") \/ LoadStep("loop")
      BY <3>1, StepTypes DEF pullVars
    <3> QED
      BY <1>7, <3>1 DEF RunStep, RebuildRefuses, StepPulled, MergeSeries, LoadOrg, RalliReplace, RalliCommit,
                        LoadContract, LoadMonitoring, Others, pullVars
  <2> QED
    BY <1>1, <2>1
<1> QED
  BY <1>2, <1>3, <1>4, <1>5, <1>6, <1>7 DEF Next

-----------------------------------------------------------------------------
(* The rollups of a run that reports success. *)

LEMMA RollupsByStep ==
  ASSUME TypesOK, RollupsOK, NEW p \in {"run", "loop"}, LoadStep(p)
  PROVE  RollupsOK'
<1> DEFINE run == job["run"]
           loop == job["loop"]
<1>1. JobsOK /\ UNCHANGED <<app, contract>>
  BY DEF TypesOK, LoadStep, GatewayRead, GatewayInsert, GatewayCompare, DailyRead, DailyCommit, Hourly, dbVars
<1>2. run.ended = "done" => run.pc = "idle"
  BY DEF RollupsOK
<1>3. ASSUME UNCHANGED <<daily, hourly>>, job'[p].pc \notin {"commit", "hourly"},
             p = "run" => job'[p].ended # "done",
             \A q \in {"run", "loop"} \ {p} : job'[q] = job[q]
      PROVE  RollupsOK'
  BY <1>1, <1>3 DEF RollupsOK
<1>4. CASE GatewayRead(p)
  <2>1. UNCHANGED <<daily, hourly>> /\ At(p, "gateway")
    BY <1>4 DEF GatewayRead, dbVars
  <2>2. CASE Stops(p, "failed")
    BY <1>1, <1>3, <2>1, <2>2, StopsOK
  <2>3. CASE job' = [job EXCEPT ![p].pc = "insert", ![p].rows = Readable]
    <3>1. job'[p].pc = "insert" /\ job'[p].ended = job[p].ended /\ \A q \in {"run", "loop"} \ {p} : job'[q] = job[q]
      BY <1>1, <2>3 DEF JobsOK, JobRow
    <3> QED
      BY <1>1, <1>2, <1>3, <2>1, <3>1 DEF At, RollupsOK
  <2> QED
    BY <1>4, <2>2, <2>3 DEF GatewayRead
<1>5. CASE GatewayInsert(p)
  <2>1. UNCHANGED <<daily, hourly>> /\ At(p, "insert") /\ GoTo(p, "compare")
    BY <1>5 DEF GatewayInsert
  <2> QED
    BY <1>1, <1>2, <1>3, <2>1, GoToOK DEF At, RunSteps
<1>6. CASE GatewayCompare(p)
  <2>1. UNCHANGED <<daily, hourly>> /\ At(p, "compare") /\ (GoTo(p, "daily") \/ Stops(p, "mismatch"))
    BY <1>6 DEF GatewayCompare, dbVars
  <2> QED
    BY <1>1, <1>2, <1>3, <2>1, GoToOK, StopsOK DEF At, RunSteps
<1>7. CASE DailyRead(p)
  <2>1. /\ UNCHANGED <<daily, hourly>> /\ At(p, "daily") /\ ~At(Other(p), "commit")
        /\ job' = [job EXCEPT ![p].pc = "commit", ![p].seen = Now]
    BY <1>7 DEF DailyRead, dbVars
  <2>2. /\ job'[p].pc = "commit" /\ job'[p].seen = Now /\ job'[p].ended = job[p].ended /\ job'[p].from = job[p].from
        /\ \A q \in {"run", "loop"} \ {p} : job'[q] = job[q]
    BY <1>1, <2>1 DEF JobsOK, JobRow
  <2>3. Now.app = app.calls /\ Now.contract = contract
    BY DEF Now
  <2>4. CASE p = "run"
    BY <1>1, <1>2, <2>1, <2>2, <2>3, <2>4 DEF RollupsOK, At, Other
  <2>5. CASE p = "loop"
    BY <1>1, <1>2, <2>1, <2>2, <2>3, <2>5 DEF RollupsOK, At, Other
  <2> QED
    BY <2>4, <2>5
<1>8. CASE DailyCommit(p)
  <2>1. UNCHANGED <<gw, hourly>> /\ At(p, "commit")
    BY <1>8 DEF DailyCommit
  <2>2. CASE daily' = daily /\ Stops(p, "failed")
    BY <1>1, <1>3, <2>1, <2>2, StopsOK
  <2>3. CASE daily' = job[p].seen /\ GoTo(p, "hourly")
    <3>1. /\ job'[p].pc = "hourly" /\ job'[p].seen = job[p].seen /\ job'[p].ended = job[p].ended
          /\ job'[p].from = job[p].from /\ \A q \in {"run", "loop"} \ {p} : job'[q] = job[q]
      BY <1>1, <2>3, GoToOK DEF RunSteps
    <3>2. CASE p = "run"
      BY <1>1, <1>2, <2>1, <2>3, <3>1, <3>2 DEF RollupsOK, At
    <3>3. CASE p = "loop"
      BY <1>1, <1>2, <2>1, <2>3, <3>1, <3>3 DEF RollupsOK, At
    <3> QED
      BY <3>2, <3>3
  <2> QED
    BY <1>8, <2>1, <2>2, <2>3, AfterIs DEF DailyCommit, Advance, At
<1>9. CASE Hourly(p)
  <2>1. hourly' = [app |-> app.calls, gw |-> gw] /\ (Ends(p) \/ Stops(p, "failed")) /\ daily' = daily /\ At(p, "hourly")
    BY <1>9 DEF Hourly
  <2>2. /\ job'[p].pc = "idle" /\ job'[p].from = job[p].from /\ job'[p].ended \in {"stopped", "done"}
        /\ \A q \in {"run", "loop"} \ {p} : job'[q] = job[q]
    BY <1>1, <2>1, EndsOK, StopsOK
  <2>3. hourly'.app = app.calls
    BY <2>1
  <2>4. CASE p = "run"
    BY <1>1, <2>1, <2>2, <2>3, <2>4 DEF RollupsOK, At
  <2>5. CASE p = "loop"
    BY <1>1, <2>1, <2>2, <2>3, <2>5 DEF RollupsOK, At
  <2> QED
    BY <2>4, <2>5
<1> QED
  BY <1>4, <1>5, <1>6, <1>7, <1>8, <1>9 DEF LoadStep

(* What a run that is done has left agrees until something else starts.     *)
LEMMA RollupsKept ==
  ASSUME FoldersOK, TypesOK, RollupsOK, [Next]_vars
  PROVE  RollupsOK'
<1>1. JobsOK /\ (job["run"].ended = "done" => job["run"].pc = "idle")
  BY DEF TypesOK, RollupsOK
<1>2. ASSUME UNCHANGED <<app, contract, daily, hourly, job>> PROVE RollupsOK'
  BY <1>2 DEF RollupsOK
\* The run goes on before its rollups, stops, or was load_ralli alone.
<1>3. ASSUME job'["loop"] = job["loop"], job'["run"].pc \notin {"commit", "hourly"},
             job'["run"].ended = "done" => job'["run"].pc = "idle" /\ job'["run"].from = "alone"
      PROVE  RollupsOK'
  BY <1>3 DEF RollupsOK
<1>4. CASE Rebuild
  <2>1. PICK step \in {"billing", "org", "ralli", "contract", "monitoring", "gateway", "daily", "hourly"} :
           /\ job' = [job EXCEPT !["run"] = [Idle EXCEPT !.pc = step, !.from = step, !.at = Idle.at]]
           /\ UNCHANGED dbVars
    BY <1>4 DEF Rebuild, StartRun
  <2>2. step \in RunSteps /\ Idle.at \in [served : Nat, today : Nat, pulled : BOOLEAN]
    BY IdleOK DEF RunSteps
  <2> DEFINE at == Idle.at
  <2>a. /\ job' = [job EXCEPT !["run"] = [Idle EXCEPT !.pc = step, !.from = step, !.at = at]]
        /\ at \in [served : Nat, today : Nat, pulled : BOOLEAN]
    BY <2>1, <2>2
  <2> HIDE DEF at
  <2>3. /\ job'["run"].pc = step /\ job'["run"].ended = "no" /\ job'["run"].from = step
        /\ job'["loop"] = job["loop"]
    BY <1>1, <2>2, <2>a, BeginsOK
  <2>4. step # "commit" /\ UNCHANGED <<app, contract, daily, hourly>>
    BY <2>1 DEF dbVars
  <2> QED
    BY <2>3, <2>4 DEF RollupsOK
<1>5. CASE Update
  <2> DEFINE at == [served |-> served, today |-> today, pulled |-> FALSE]
  <2>1. job' = [job EXCEPT !["run"] = [Idle EXCEPT !.pc = "token", !.from = "token", !.at = at]]
    BY <1>5 DEF Update, StartRun
  <2>2. "token" \in RunSteps /\ at \in [served : Nat, today : Nat, pulled : BOOLEAN]
    BY DEF RunSteps, FoldersOK
  <2> HIDE DEF at
  <2>3. job'["run"].pc = "token" /\ job'["run"].ended = "no" /\ job'["loop"] = job["loop"]
    BY <1>1, <2>1, <2>2, BeginsOK
  <2> QED
    BY <1>3, <2>3
<1>6. CASE LoadRalli
  <2>1. job'["run"].pc = "ralli" /\ job'["run"].ended = "no" /\ job'["loop"] = job["loop"]
    BY <1>1, <1>6, IdleOK DEF LoadRalli, JobsOK, JobRow
  <2> QED
    BY <1>3, <2>1
<1>7. CASE StepPull \/ StepPulled \/ MergeSeries \/ RebuildRefuses
  <2>1. UNCHANGED <<app, contract, daily, hourly>> /\ JobsOK' /\ job'["loop"] = job["loop"]
    <3>1. UNCHANGED <<app, contract, daily, hourly>> /\ JobsOK'
      BY <1>7, UpdateTypes DEF TypesOK, StepPull, StepPulled, MergeSeries, RebuildRefuses, dbVars
    <3>2. job'["loop"] = job["loop"]
      BY <1>1, <1>7 DEF StepPull, StepPulled, MergeSeries, RebuildRefuses, Stops, Advance, GoTo, JobsOK
    <3> QED
      BY <3>1, <3>2
  <2>2. job["run"].pc # "idle"
    BY <1>7 DEF StepPull, StepPulled, MergeSeries, RebuildRefuses, PullSteps, At
  <2>3. job'["run"].pc \notin {"commit", "hourly"} /\ job'["run"].ended # "done"
    <3>1. CASE StepPull
      <4>1. CASE job' = [job EXCEPT !["run"].at.pulled = TRUE]
        BY <1>1, <2>2, <3>1, <4>1 DEF StepPull, PullSteps, JobsOK, JobRow
      <4>2. CASE At("run", "series") /\ Advance("run")
        <5>1. GoTo("run", "merge")
          BY <4>2, AfterIs DEF At, Advance
        <5> QED
          BY <1>1, <2>2, <5>1, GoToOK DEF RunSteps
      <4> QED
        BY <3>1, <4>1, <4>2 DEF StepPull
    <3>2. CASE StepPulled
      <4>1. CASE pull.code = "ok"
        <5>1. job' = [job EXCEPT !["run"].pc = After[@], !["run"].at.pulled = FALSE] /\ job["run"].pc \in PullSteps
          BY <3>2, <4>1 DEF StepPulled
        <5>2. After[job["run"].pc] \in {"series", "merge", "usage", "rebuild"}
          BY <5>1, AfterIs DEF PullSteps
        <5>3. job'["run"].pc = After[job["run"].pc] /\ job'["run"].ended = job["run"].ended
          BY <1>1, <5>1 DEF JobsOK, JobRow
        <5> QED
          BY <1>1, <2>2, <5>2, <5>3
      <4>2. CASE pull.code # "ok"
        BY <1>1, <3>2, <4>2, StopsOK DEF StepPulled
      <4> QED
        BY <4>1, <4>2
    <3>3. CASE MergeSeries
      <4>1. GoTo("run", "apps")
        BY <3>3, AfterIs DEF MergeSeries, At, Advance
      <4> QED
        BY <1>1, <2>2, <4>1, GoToOK DEF RunSteps
    <3>4. CASE RebuildRefuses
      BY <1>1, <3>4, StopsOK DEF RebuildRefuses
    <3> QED
      BY <1>7, <3>1, <3>2, <3>3, <3>4
  <2> QED
    BY <1>3, <2>1, <2>3
<1>8. CASE LoadOrg \/ RalliReplace \/ RalliCommit \/ LoadContract \/ LoadMonitoring
  <2>1. job["run"].pc # "idle" /\ job["run"].ended # "done"
    BY <1>1, <1>8 DEF LoadOrg, RalliReplace, RalliCommit, LoadContract, LoadMonitoring, At
  <2>2. CASE Stops("run", "")
    BY <1>1, <1>3, <2>2, StopsOK
  <2>3. CASE GoTo("run", "ralli") \/ GoTo("run", "contract") \/ GoTo("run", "monitoring") \/ GoTo("run", "gateway")
    BY <1>1, <1>3, <2>1, <2>3, GoToOK DEF RunSteps
  <2>4. CASE Ends("run") /\ job["run"].from = "alone"
    BY <1>1, <1>3, <2>4, EndsOK
  <2>5. CASE RalliReplace /\ ~Stops("run", "")
    <3>1. /\ job'["run"].pc = "replace" /\ job'["run"].ended = job["run"].ended /\ job'["loop"] = job["loop"]
      <4>1. job' = [job EXCEPT !["run"].pc = "replace", !["run"].rows = gw,
                         !["run"].seen.app = RalliBatch["raw"],
                         !["run"].seen.contract = RalliBatch["stats"]]
        BY <2>5 DEF RalliReplace
      <4>2. job["run"] \in JobRow /\ job["run"].seen \in DailyTable
        BY <1>1, JobFields
      <4> DEFINE seen == [job["run"].seen EXCEPT !.app = RalliBatch["raw"], !.contract = RalliBatch["stats"]]
      <4>3. /\ job'["run"] = [job["run"] EXCEPT !.pc = "replace", !.rows = gw, !.seen = seen]
            /\ job'["loop"] = job["loop"]
        BY <1>1, <4>1, <4>2 DEF JobsOK, JobRow
      <4> QED
        BY <4>2, <4>3 DEF JobRow
    <3> QED
      BY <1>3, <2>1, <3>1
  <2>6. LoadOrg \/ RalliCommit \/ LoadContract \/ LoadMonitoring =>
           \/ Stops("run", "") \/ (Ends("run") /\ job["run"].from = "alone")
           \/ GoTo("run", "ralli") \/ GoTo("run", "contract") \/ GoTo("run", "monitoring") \/ GoTo("run", "gateway")
    BY AfterIs DEF LoadOrg, RalliCommit, LoadContract, LoadMonitoring, AfterRalli, Advance, At
  <2> QED
    BY <1>8, <2>2, <2>3, <2>4, <2>5, <2>6
<1>9. CASE LoadStep("run") \/ LoadStep("loop")
  BY <1>9, RollupsByStep
<1>10. CASE World \/ LogCall \/ PullAlone \/ Pulling \/ UNCHANGED vars
  <2>1. UNCHANGED <<app, contract, daily, hourly, job>>
    BY <1>10 DEF World, LogCall, PullAlone, Pulling, dbVars, vars
  <2> QED
    BY <1>2, <2>1
<1>11. CASE StartCycle \/ \E p \in {"run", "loop"} : StepFails(p)
  <2>1. UNCHANGED <<app, contract, daily, hourly>>
    BY <1>11 DEF StartCycle, StepFails, dbVars
  <2>2. CASE StartCycle
    <3>1. job'["loop"].pc = "gateway" /\ job'["run"] = job["run"]
      BY <1>1, <2>2, IdleOK DEF StartCycle, JobsOK, JobRow
    <3> QED
      BY <2>1, <3>1 DEF RollupsOK
  <2>3. CASE StepFails("run")
    BY <1>1, <1>3, <2>3, StopsOK DEF StepFails
  <2>4. CASE StepFails("loop")
    <3>1. job'["loop"].pc = "idle" /\ job'["run"] = job["run"]
      BY <1>1, <2>4, StopsOK DEF StepFails
    <3> QED
      BY <2>1, <3>1 DEF RollupsOK
  <2> QED
    BY <1>11, <2>2, <2>3, <2>4
<1> QED
  BY <1>4, <1>5, <1>6, <1>7, <1>8, <1>9, <1>10, <1>11 DEF Next, RunStep

(* What a rebuild leaves (DoneAgrees).                                      *)
LEMMA RollupsGiveDone ==
  ASSUME RollupsOK
  PROVE  DoneAgrees
BY DEF RollupsOK, DoneAgrees

-----------------------------------------------------------------------------
(* The acceptance of load_ralli compares two numbers.  If every call that   *)
(* the statistics count as nobody's is in the export, the calls without a   *)
(* unit include them, and then equal numbers are equal sets.                *)
LEMMA AcceptedCalls ==
  ASSUME NEW calls \in Nat, NEW stats \in Nat, NEW users,
         Cardinality(Lost(calls, users)) = Cardinality(Unattributed(stats)),
         Nobody \cap (calls + 1)..stats = {}
  PROVE  Lost(calls, users) \subseteq Nobody
<1>1. IsFiniteSet(1..calls)
  BY FS_Interval
<1>2. Lost(calls, users) \subseteq 1..calls
  BY DEF Lost
<1>3. IsFiniteSet(Lost(calls, users))
  BY <1>1, <1>2, FS_Subset
<1>4. Unattributed(stats) \subseteq Lost(calls, users)
  <2> SUFFICES ASSUME NEW k \in Unattributed(stats) PROVE k \in Lost(calls, users)
    OBVIOUS
  <2>1. k \in Nobody /\ k \in 1..stats
    BY DEF Unattributed
  <2>2. k \in 1..calls
    BY <2>1
  <2> QED
    BY <2>1, <2>2 DEF Lost
<1>5. Unattributed(stats) = Lost(calls, users)
  BY <1>3, <1>4, FS_Subset
<1> QED
  BY <1>5 DEF Unattributed

(* The accepted calls have their units: a load of the calls compares them   *)
(* with the users it has, and a load of the units takes the newer folder    *)
(* only.                                                                    *)
LEMMA UnitsKept ==
  ASSUME TypesOK, EveryCallHasItsUnit, [Next]_vars
  PROVE  EveryCallHasItsUnit'
<1>1. CASE UNCHANGED <<app, org>>
  BY <1>1 DEF EveryCallHasItsUnit, Lost
<1>2. CASE LoadOrg /\ ~UNCHANGED <<app, org>>
  <2>1. app' = EmptyApp
    BY <1>2 DEF LoadOrg, dbVars
  <2> QED
    BY <2>1 DEF EveryCallHasItsUnit, EmptyApp
<1>3. CASE RalliCommit /\ ~UNCHANGED <<app, org>>
  <2> DEFINE calls == job["run"].seen.app
             stats == job["run"].seen.contract
             agrees == Cardinality(Lost(calls, org.users)) = Cardinality(Unattributed(stats))
  <2>1. org' = org /\ app' = [calls |-> calls, stats |-> stats, allowed |-> ~agrees]
    BY <1>3 DEF RalliCommit
  <2>2. calls \in Nat /\ stats \in Nat
    BY JobFields DEF TypesOK, DailyTable
  <2>3. ~app'.allowed => agrees
    BY <2>1
  <2>4. app'.calls = calls /\ app'.stats = stats
    BY <2>1
  <2> HIDE DEF calls, stats
  <2>5. ~app'.allowed => Lost(calls, org.users) \subseteq Nobody \/ Nobody \cap (calls + 1)..stats # {}
    BY <2>2, <2>3, AcceptedCalls
  <2> QED
    BY <2>1, <2>4, <2>5 DEF EveryCallHasItsUnit, Lost
<1>4. CASE Next /\ ~LoadOrg /\ ~RalliCommit
  <2>1. CASE LoadStep("run") \/ LoadStep("loop")
    BY <1>1, <2>1 DEF LoadStep, GatewayRead, GatewayInsert, GatewayCompare, DailyRead, DailyCommit, Hourly, dbVars
  <2>2. CASE ~(LoadStep("run") \/ LoadStep("loop"))
    <3>1. UNCHANGED <<app, org>>
      BY <1>4, <2>2 DEF Next, World, LogCall, Rebuild, Update, PullAlone, LoadRalli, StartRun, Pulling, RunStep,
         RebuildRefuses, StepPull, StepPulled, MergeSeries, RalliReplace, LoadContract, LoadMonitoring,
         StartCycle, StepFails, dbVars
    <3> QED
      BY <1>1, <3>1
  <2> QED
    BY <2>1, <2>2
<1>5. CASE UNCHANGED vars
  BY <1>1, <1>5 DEF vars, dbVars
<1> QED
  BY <1>1, <1>2, <1>3, <1>4, <1>5

-----------------------------------------------------------------------------
(* The pulls of an update. *)

(* What a step of a pull can come to.                                       *)
LEMMA PullOutcome ==
  ASSUME FoldersOK, PullStep \/ PullFault
  PROVE  /\ Running /\ UNCHANGED <<served, today>>
         /\ \/ pull'.code = "failed"
            \/ pull'.code = "ok" /\ pull.todo = <<>> /\ ~pull.bad /\ UNCHANGED <<tree, torn>>
            \/ /\ pull'.code = "running" /\ pull.todo # <<>>
               /\ pull'.kind = pull.kind /\ pull'.day = pull.day /\ pull'.thin = pull.thin
               /\ Len(pull'.todo) = Len(pull.todo) - 1
               /\ ~pull'.bad => ~pull.bad
<1>1. Running /\ UNCHANGED <<served, today>>
  BY DEF PullStep, PullFault, Fetch, FetchSeries, CrossCheck, Members, MembersOf, UsageDays, UsageRows,
         EndPull, NoToken, FetchFails, SeriesFails, KillPull
<1>2. served \in Nat /\ pull.seen \in Nat
  BY DEF FoldersOK, PullRow
<1>3. ASSUME Fails PROVE pull'.code = "failed"
  BY <1>3, ExitOK DEF Fails
<1>4. ASSUME pull.todo # <<>>, \E bad \in BOOLEAN, seen \in Nat : pull' = [Done(Item, bad) EXCEPT !.seen = seen]
      PROVE  /\ pull'.code = "running" /\ pull.todo # <<>>
             /\ pull'.kind = pull.kind /\ pull'.day = pull.day /\ pull'.thin = pull.thin
             /\ Len(pull'.todo) = Len(pull.todo) - 1
             /\ ~pull'.bad => ~pull.bad
  BY <1>1, <1>4, DoneOK
<1>5. ASSUME NEW bad \in BOOLEAN, pull' = Done(Item, bad)
      PROVE  \E b \in BOOLEAN, seen \in Nat : pull' = [Done(Item, b) EXCEPT !.seen = seen]
  BY <1>2, <1>5, DoneKeepsSeen
<1>6. CASE Fetch \/ FetchSeries
  <2>1. pull.todo # <<>> /\ pull' = Done(Item, FALSE)
    BY <1>6 DEF Fetch, FetchSeries
  <2> QED
    BY <1>1, <1>4, <1>5, <2>1
<1>7. CASE FetchFails
  <2>1. pull.todo # <<>> /\ pull' = Done(Item, TRUE)
    BY <1>7 DEF FetchFails
  <2> QED
    BY <1>1, <1>4, <1>5, <2>1
<1>8. CASE CrossCheck
  <2>1. pull.todo # <<>> /\ \E bad \in BOOLEAN : pull' = Done(Item, bad)
    BY <1>8 DEF CrossCheck
  <2> QED
    BY <1>1, <1>4, <1>5, <2>1
<1>9. CASE Members
  <2>1. pull.todo # <<>> /\ \E bad \in BOOLEAN : pull' = Done(Item, bad)
    BY <1>9 DEF Members, MembersOf
  <2> QED
    BY <1>1, <1>4, <1>5, <2>1
<1>10. CASE UsageDays
  <2>1. pull.todo # <<>> /\ pull' = [Done(Item, FALSE) EXCEPT !.seen = served]
    BY <1>10 DEF UsageDays
  <2> QED
    BY <1>1, <1>2, <1>4, <2>1
<1>11. CASE UsageRows
  <2>1. pull.todo # <<>> /\ (Fails \/ pull' = Done(Item, FALSE))
    BY <1>11 DEF UsageRows
  <2> QED
    BY <1>1, <1>3, <1>4, <1>5, <2>1
<1>12. CASE EndPull
  <2>1. CASE pull.bad
    BY <1>1, <1>12, <2>1, ExitOK DEF EndPull
  <2>2. CASE ~pull.bad
    BY <1>1, <1>12, <2>2, ExitOK DEF EndPull
  <2> QED
    BY <2>1, <2>2
<1>13. CASE PullFault /\ ~FetchFails
  BY <1>1, <1>3, <1>13 DEF PullFault, NoToken, SeriesFails, KillPull
<1> QED
  BY <1>6, <1>7, <1>8, <1>9, <1>10, <1>11, <1>12, <1>13 DEF PullStep, PullFault

\* Nothing is asked of the folders while no update is under way.
(* What is claimed of the pulls of an update says nothing when none runs.   *)
LEMMA NoUpdate ==
  ASSUME job'["run"].pc \notin UpdateSteps,
         Running' => job'["run"].pc = "idle"
  PROVE  PullsOK'
BY DEF PullsOK, OwnPull, AppsSoFar, AppsDone, UsageDone, Pulls, At, Free, UpdateSteps, Running

\* The world goes on, and the loop.
LEMMA NothingPulled ==
  ASSUME FoldersOK, PullsOK, UNCHANGED <<tree, torn, pull>>, job'["run"] = job["run"],
         served' \in Nat, today' \in Nat, served <= served', today <= today'
  PROVE  PullsOK'
<1>1. OwnPull'
  BY DEF PullsOK, OwnPull, FoldersOK, Since, Running, Pulls, At, Free
<1>2. AppsSoFar'
  BY DEF PullsOK, AppsSoFar, Since, Running, Pulls, At, Fresh
<1>3. AppsDone'
  BY DEF PullsOK, AppsDone, AppsHere, Since, Pulls, At, Fresh
<1>4. UsageDone'
  BY DEF PullsOK, UsageDone, UsageHere, Since, Pulls, At, Fresh, Running
<1> QED
  BY <1>1, <1>2, <1>3, <1>4 DEF PullsOK

(* A step of the pull of the two applications.                              *)
LEMMA AppsStep ==
  ASSUME FoldersOK, TypesOK, PullsOK, PullStep \/ PullFault, job' = job, Pulls("apps"),
         pull'.code = "running"
  PROVE  AppsSoFar'
<1> DEFINE n == Len(pull.todo)
           d == pull.day
<1>1. /\ Running /\ UNCHANGED <<served, today>> /\ pull.todo # <<>>
      /\ pull'.kind = pull.kind /\ pull'.day = d /\ Len(pull'.todo) = n - 1
      /\ ~pull'.bad => ~pull.bad
  BY PullOutcome
<1>2. pull.kind = "apps" /\ ~pull.thin
  BY <1>1 DEF PullsOK, OwnPull, Pulls, At, Free
<1>3. d \in 1..today /\ d >= Since.today /\ served \in Nat /\ Since.served \in 1..served
  BY <1>1, DayOK DEF PullsOK, OwnPull, AppsSoFar, Pulls, At, UpdateSteps
<1>4. \A e \in DOMAIN tree["ralli"] \cup DOMAIN tree["tla"] : e <= d
  BY <1>1 DEF PullsOK, AppsSoFar
<1>5. ~pull.bad =>
         /\ n <= 6 => d \in DOMAIN tree["ralli"] /\ Fresh(tree["ralli"][d]["collections"])
         /\ n <= 5 => Fresh(tree["ralli"][d]["stats"])
         /\ n <= 4 => Fresh(tree["ralli"][d]["users"])
         /\ n <= 3 => Fresh(tree["ralli"][d]["raw"])
         /\ n <= 2 => tree["ralli"][d]["raw"] = tree["ralli"][d]["collections"]
         /\ n <= 1 => d \in DOMAIN tree["tla"] /\ Fresh(tree["tla"][d]["units"])
  BY <1>1 DEF PullsOK, AppsSoFar
<1>6. /\ n \in 1..7
      /\ IsPage => \/ n = 7 /\ Item = <<"ralli", "collections">>
                   \/ n = 6 /\ Item = <<"ralli", "stats">>
                   \/ n = 5 /\ Item = <<"ralli", "users">>
                   \/ n = 4 /\ Item = <<"ralli", "raw">>
                   \/ n = 2 /\ Item = <<"tla", "units">>
  <2>1. n \in 1..Len(Items["apps"])
    BY <1>1, <1>2, ItemCases
  <2>2. Len(Items["apps"]) = 7
    BY KindsAre
  <2>3. n \in 1..7
    BY <2>1, <2>2, Zenon
  <2>4. CASE IsPage
    BY <1>1, <1>2, <2>3, <2>4, PageCases
  <2> QED
    BY <2>3, <2>4
<1> DEFINE Claims ==
             /\ \A e \in DOMAIN tree'["ralli"] \cup DOMAIN tree'["tla"] : e <= d
             /\ ~pull'.bad =>
                /\ n - 1 <= 6 => d \in DOMAIN tree'["ralli"] /\ Fresh(tree'["ralli"][d]["collections"])
                /\ n - 1 <= 5 => Fresh(tree'["ralli"][d]["stats"])
                /\ n - 1 <= 4 => Fresh(tree'["ralli"][d]["users"])
                /\ n - 1 <= 3 => Fresh(tree'["ralli"][d]["raw"])
                /\ n - 1 <= 2 => tree'["ralli"][d]["raw"] = tree'["ralli"][d]["collections"]
                /\ n - 1 <= 1 => d \in DOMAIN tree'["tla"] /\ Fresh(tree'["tla"][d]["units"])
                /\ n - 1 = 0 => Fresh(tree'["tla"][d]["members"]) /\ d \notin torn'
<1>7. ASSUME Claims PROVE AppsSoFar'
  <2>1. Since' = Since /\ (Since.today)' = Since.today /\ (Since.served)' = Since.served
    BY DEF Since
  <2>2. Len(pull'.todo) = n - 1 /\ pull'.day = d
    BY <1>1
  <2> HIDE DEF n
  <2> QED
    BY <1>3, <1>7, <2>1, <2>2 DEF AppsSoFar, Fresh
<1> HIDE DEF n, d
<1>8. CASE Fetch
  <2>1. IsPage /\ tree' = Put(Item[1], d, Item[2], served)
    BY <1>2, <1>8 DEF Fetch, d
  <2>2. Fresh(served)
    BY <1>3 DEF Fresh
  <2>3. CASE Item[1] = "ralli"
    <3>1. PICK f \in FilesOf["ralli"] : Item[2] = f
      BY <1>6, <2>1, <2>3, TreesAre
    <3>2. "ralli" \in Trees /\ tree' = Put("ralli", d, f, served)
      BY <2>1, <2>3, <3>1, TreesAre
    <3>3. /\ tree'["tla"] = tree["tla"] /\ DOMAIN tree'["ralli"] = DOMAIN tree["ralli"] \cup {d}
          /\ tree'["ralli"][d][f] = served
          /\ \A g \in FilesOf["ralli"] \ {f} : tree'["ralli"][d][g] = Folder("ralli", d)[g]
      BY <1>3, <3>2, PutOK, TreesAre
    <3>4. d \in DOMAIN tree["ralli"] => Folder("ralli", d) = tree["ralli"][d]
      BY DEF Folder
    <3>5. \A e \in DOMAIN tree'["ralli"] \cup DOMAIN tree'["tla"] : e <= d
      BY <1>3, <1>4, <3>3
    <3>6. \/ n = 7 /\ f = "collections"
          \/ n = 6 /\ f = "stats"
          \/ n = 5 /\ f = "users"
          \/ n = 4 /\ f = "raw"
      BY <1>6, <2>1, <2>3, <3>1
    <3> QED
      BY <1>1, <1>5, <1>7, <2>2, <3>3, <3>4, <3>5, <3>6, TreesAre
  <2>4. CASE Item[1] = "tla"
    <3>1. "tla" \in Trees /\ "units" \in FilesOf["tla"] /\ n = 2 /\ tree' = Put("tla", d, "units", served)
      BY <1>6, <2>1, <2>4, TreesAre
    <3>2. /\ tree'["ralli"] = tree["ralli"] /\ DOMAIN tree'["tla"] = DOMAIN tree["tla"] \cup {d}
          /\ tree'["tla"][d]["units"] = served
      BY <1>3, <3>1, PutOK, TreesAre
    <3>3. \A e \in DOMAIN tree'["ralli"] \cup DOMAIN tree'["tla"] : e <= d
      BY <1>3, <1>4, <3>2
    <3> QED
      BY <1>1, <1>5, <1>7, <2>2, <3>1, <3>2, <3>3
  <2> QED
    BY <1>6, <2>1, <2>3, <2>4
<1>9. CASE FetchFails
  <2>1. IsPage /\ tree' = MakeFolder(Item[1], d) /\ pull' = Done(Item, TRUE)
    BY <1>9 DEF FetchFails, d
  <2>2. Item[1] \in {"ralli", "tla"} /\ Item[1] \in Trees
    BY <1>6, <2>1, TreesAre
  <2>3. /\ DOMAIN tree'[Item[1]] = DOMAIN tree[Item[1]] \cup {d}
        /\ \A u \in Trees \ {Item[1]} : tree'[u] = tree[u]
    BY <1>3, <2>1, <2>2, MakeFolderOK
  <2>4. \A e \in DOMAIN tree'["ralli"] \cup DOMAIN tree'["tla"] : e <= d
    BY <1>3, <1>4, <2>2, <2>3, TreesAre
  <2>5. pull'.bad
    BY <2>1, <1>1 DEF Done, FoldersOK, PullRow
  <2> QED
    BY <1>7, <2>4, <2>5
<1>10. CASE CrossCheck
  <2>1. Item[2] = "crosscheck" /\ UNCHANGED <<tree, torn>>
    BY <1>10 DEF CrossCheck
  <2>2. n = 3
    BY <1>1, <1>2, <2>1, ItemCases DEF n
  <2>3. ~pull'.bad => ~pull.bad /\ Folder("ralli", d)["raw"] = Folder("ralli", d)["collections"]
    BY <1>1, <1>2, <1>10 DEF CrossCheck, Done, d, FoldersOK, PullRow
  <2>4. d \in DOMAIN tree["ralli"] => Folder("ralli", d) = tree["ralli"][d]
    BY DEF Folder
  <2> QED
    BY <1>4, <1>5, <1>7, <2>1, <2>2, <2>3, <2>4
<1>11. CASE Members
  <2>1. PICK whole \in BOOLEAN : MembersOf(whole)
    BY <1>11 DEF Members
  <2>2. n = 1
    BY <1>1, <1>2, <2>1, ItemCases DEF n, MembersOf
  <2>3. CASE Folder("tla", d)["units"] = 0
    <3>1. UNCHANGED tree /\ pull' = Done(Item, TRUE)
      BY <1>2, <2>1, <2>3 DEF MembersOf, d
    <3>2. pull'.bad
      BY <1>1, <3>1 DEF Done, FoldersOK, PullRow
    <3> QED
      BY <1>4, <1>7, <3>1, <3>2
  <2>4. CASE Folder("tla", d)["units"] # 0
    <3>1. /\ tree' = Put("tla", d, "members", served) /\ pull' = Done(Item, ~whole)
          /\ torn' = IF whole THEN torn \ {d} ELSE torn \cup {d}
      BY <1>2, <2>1, <2>4 DEF MembersOf, d
    <3>2. "tla" \in Trees /\ "members" \in FilesOf["tla"] /\ "units" \in FilesOf["tla"] \ {"members"}
      BY TreesAre
    <3>3. /\ tree'["ralli"] = tree["ralli"] /\ DOMAIN tree'["tla"] = DOMAIN tree["tla"] \cup {d}
          /\ tree'["tla"][d]["members"] = served
          /\ tree'["tla"][d]["units"] = Folder("tla", d)["units"]
      BY <1>3, <3>1, <3>2, PutOK, TreesAre
    <3>4. \A e \in DOMAIN tree'["ralli"] \cup DOMAIN tree'["tla"] : e <= d
      BY <1>3, <1>4, <3>3
    <3>5. ~pull'.bad => ~pull.bad /\ whole
      BY <1>1, <3>1 DEF Done, FoldersOK, PullRow
    <3>6. d \in DOMAIN tree["tla"] => Folder("tla", d) = tree["tla"][d]
      BY DEF Folder
    <3>7. ~pull'.bad => d \notin torn'
      BY <3>1, <3>5
    <3>8. Fresh(served)
      BY <1>3 DEF Fresh
    <3> QED
      BY <1>5, <1>7, <2>2, <3>3, <3>4, <3>5, <3>6, <3>7, <3>8
  <2> QED
    BY <2>3, <2>4
<1>12. ~(FetchSeries \/ UsageDays \/ UsageRows)
  <2>1. Item[1] # "series" /\ Item[2] \notin {"days", "usage"}
    BY <1>1, <1>2, ItemCases
  <2> QED
    BY <2>1 DEF FetchSeries, UsageDays, UsageRows
<1>13. ~EndPull
  BY <1>1 DEF EndPull
<1>14. ~(NoToken \/ SeriesFails \/ KillPull)
  BY ExitOK DEF NoToken, SeriesFails, KillPull, Fails
<1> QED
  BY <1>8, <1>9, <1>10, <1>11, <1>12, <1>13, <1>14 DEF PullStep, PullFault

(* A step of the pull of the contract usage writes one file, at its end.    *)
LEMMA UsageStep ==
  ASSUME FoldersOK, PullStep \/ PullFault, pull.kind = "usage"
  PROVE  /\ torn' = torn
         /\ \/ tree' = tree /\ (pull'.code = "running" => Len(pull'.todo) = 1)
            \/ tree' = Put("tla", today, "usage", served) /\ pull.todo # <<>>
<1>1. Running
  BY PullOutcome
<1>2. pull.todo # <<>> => ~IsPage /\ Item[1] # "series" /\ Item[2] \notin {"crosscheck", "members"}
  <2> SUFFICES ASSUME pull.todo # <<>> PROVE ~IsPage /\ Item[1] # "series" /\ Item[2] \notin {"crosscheck", "members"}
    OBVIOUS
  <2>1. Item = <<"tla", "days">> \/ Item = <<"tla", "usage">>
    BY <1>1, ItemCases
  <2>2. Item[1] = "tla" /\ Item[2] \in {"days", "usage"}
    BY <2>1
  <2> QED
    BY <2>2, TreesAre DEF IsPage
<1>3. ~(Fetch \/ FetchFails \/ FetchSeries \/ SeriesFails \/ CrossCheck \/ Members)
  BY <1>2 DEF Fetch, FetchFails, FetchSeries, SeriesFails, CrossCheck, Members, MembersOf
<1>4. CASE NoToken \/ KillPull
  BY <1>4, ExitOK DEF NoToken, KillPull, Fails
<1>5. CASE EndPull
  <2>1. UNCHANGED <<tree, torn>> /\ pull.todo = <<>>
    BY <1>5 DEF EndPull
  <2>2. pull'.code # "running"
    BY <1>5, <2>1, PullOutcome
  <2> QED
    BY <2>1, <2>2
<1>6. CASE UsageDays
  <2>1. UNCHANGED <<tree, torn>> /\ pull.todo # <<>> /\ Item[2] = "days"
    BY <1>6 DEF UsageDays
  <2>2. Len(pull.todo) = 2
    BY <1>1, <2>1, ItemCases
  <2>3. pull'.code = "running" => Len(pull'.todo) = Len(pull.todo) - 1
    BY PullOutcome
  <2> QED
    BY <2>1, <2>2, <2>3
<1>7. CASE UsageRows
  <2>1. torn' = torn /\ pull.todo # <<>>
    BY <1>7 DEF UsageRows
  <2>2. CASE served = pull.seen
    BY <1>7, <2>1, <2>2 DEF UsageRows
  <2>3. CASE served # pull.seen
    <3>1. tree' = tree /\ Fails
      BY <1>7, <2>3 DEF UsageRows
    <3> QED
      BY <2>1, <3>1, ExitOK DEF Fails
  <2> QED
    BY <2>2, <2>3
<1> QED
  BY <1>3, <1>4, <1>5, <1>6, <1>7 DEF PullStep, PullFault

\* The file goes into the folder of today: whatever day that is, the folder
\* the members were written to stays the newest that has them.
LEMMA UsageWritten ==
  ASSUME FoldersOK, NEW D \in DOMAIN tree["ralli"], AppsHere(D), torn' = torn, job' = job,
         tree' = Put("tla", today, "usage", served)
  PROVE  AppsHere(D)' /\ D \in DOMAIN tree'["ralli"]
<1>1. /\ "tla" \in Trees /\ "ralli" \in Trees /\ "usage" \in FilesOf["tla"]
      /\ {"units", "members"} \subseteq FilesOf["tla"] \ {"usage"} /\ "ralli" \in Trees \ {"tla"}
  BY TreesAre
<1>2. today \in 1..today /\ served \in Nat
  BY DayOK
<1>3. /\ tree'["ralli"] = tree["ralli"] /\ DOMAIN tree'["tla"] = DOMAIN tree["tla"] \cup {today}
      /\ \A g \in FilesOf["tla"] \ {"usage"} : tree'["tla"][today][g] = Folder("tla", today)[g]
      /\ \A e \in DOMAIN tree["tla"] \ {today} : tree'["tla"][e] = tree["tla"][e]
  BY <1>1, <1>2, PutOK
<1>4. today \in DOMAIN tree["tla"] => Folder("tla", today) = tree["tla"][today]
  BY DEF Folder
<1>5. today \notin DOMAIN tree["tla"] => Folder("tla", today)["units"] = 0
  BY TreesAre DEF Folder, NoFile
<1>6. \A f \in {"units", "members"} : \A e \in DOMAIN tree["tla"] : tree'["tla"][e][f] = tree["tla"][e][f]
  BY <1>1, <1>3, <1>4
<1>7. \A e \in DOMAIN tree'["tla"] : e > D => tree'["tla"][e]["units"] = 0
  <2> SUFFICES ASSUME NEW e \in DOMAIN tree'["tla"], e > D PROVE tree'["tla"][e]["units"] = 0
    OBVIOUS
  <2>1. CASE e \in DOMAIN tree["tla"]
    BY <1>6, <2>1 DEF AppsHere
  <2>2. CASE e \notin DOMAIN tree["tla"]
    BY <1>1, <1>3, <1>5, <2>2
  <2> QED
    BY <2>1, <2>2
<1>8. D \in DOMAIN tree'["tla"] /\ \A f \in {"units", "members"} : tree'["tla"][D][f] = tree["tla"][D][f]
  BY <1>3, <1>6 DEF AppsHere
<1>9. Since' = Since
  BY DEF Since
<1> QED
  BY <1>3, <1>7, <1>8, <1>9 DEF AppsHere, Fresh

(* The pull that runs during an update is the one that the update started.  *)
LEMMA OwnPullStep ==
  ASSUME FoldersOK, TypesOK, PullsOK, PullStep \/ PullFault, job' = job
  PROVE  PullsOK'
<1>1. /\ Running /\ UNCHANGED <<served, today>>
      /\ \/ pull'.code = "failed"
         \/ pull'.code = "ok" /\ pull.todo = <<>> /\ ~pull.bad /\ UNCHANGED <<tree, torn>>
         \/ /\ pull'.code = "running" /\ pull.todo # <<>>
            /\ pull'.kind = pull.kind /\ pull'.day = pull.day /\ pull'.thin = pull.thin
            /\ Len(pull'.todo) = Len(pull.todo) - 1
            /\ ~pull'.bad => ~pull.bad
  BY PullOutcome
<1>2. CASE Free("run")
  BY <1>2, NoUpdate DEF Free, At, UpdateSteps
<1>3. CASE ~Free("run")
  <2>1. job["run"].pc \in PullSteps /\ Pulls(pull.kind) /\ ~pull.thin /\ At("run", pull.kind)
    BY <1>1, <1>3 DEF PullsOK, OwnPull, Pulls
  <2>2. OwnPull'
    BY <1>1, <2>1 DEF PullsOK, OwnPull, Running, Pulls, At, Free, Since
  <2>3. AppsSoFar'
    <3>1. CASE pull'.code = "running" /\ Pulls("apps")
      BY <3>1, AppsStep
    <3>2. CASE ~(pull'.code = "running" /\ Pulls("apps"))
      BY <3>2 DEF AppsSoFar, Running, Pulls, At, Since
    <3> QED
      BY <3>1, <3>2
  <2>4. AppsDone'
    <3>1. CASE Pulls("apps") /\ pull'.code = "ok"
      <4> DEFINE d == pull.day
      <4>1. /\ d >= Since.today /\ \A e \in DOMAIN tree["ralli"] \cup DOMAIN tree["tla"] : e <= d
            /\ d \in DOMAIN tree["ralli"] /\ Fresh(tree["ralli"][d]["collections"])
            /\ Fresh(tree["ralli"][d]["stats"]) /\ Fresh(tree["ralli"][d]["users"]) /\ Fresh(tree["ralli"][d]["raw"])
            /\ tree["ralli"][d]["raw"] = tree["ralli"][d]["collections"]
            /\ d \in DOMAIN tree["tla"] /\ Fresh(tree["tla"][d]["units"])
            /\ Fresh(tree["tla"][d]["members"]) /\ d \notin torn
        <5>1. pull.todo = <<>> /\ ~pull.bad /\ Len(<<>>) = 0
          BY <1>1, <3>1
        <5>2. Len(pull.todo) = 0
          BY <5>1
        <5> QED
          BY <1>1, <3>1, <5>1, <5>2 DEF PullsOK, AppsSoFar
      <4>2. \A e \in DOMAIN tree["tla"] : ~(e > d)
        <5>1. d \in Nat /\ DOMAIN tree["tla"] \subseteq 1..today /\ today \in Nat
          BY DayOK, TreesAre DEF FoldersOK
        <5> QED
          BY <4>1, <5>1
      <4>3. AppsHere(d)
        BY <4>1, <4>2, TreesAre DEF AppsHere
      <4>4. UNCHANGED <<tree, torn>>
        BY <1>1, <3>1
      <4> QED
        BY <4>1, <4>3, <4>4 DEF AppsDone, AppsHere, Fresh, Since
    <3>2. CASE At("run", "usage")
      <4>1. pull.kind = "usage"
        BY <2>1, <3>2 DEF At
      <4>2. PICK D \in DOMAIN tree["ralli"] : AppsHere(D)
        BY <3>2 DEF PullsOK, AppsDone
      <4>3. torn' = torn /\ (tree' = tree \/ tree' = Put("tla", today, "usage", served))
        BY <4>1, UsageStep
      <4>4. CASE tree' = tree
        BY <4>2, <4>3, <4>4 DEF AppsDone, AppsHere, Fresh, Since
      <4>5. CASE tree' = Put("tla", today, "usage", served)
        BY <4>2, <4>3, <4>5, UsageWritten DEF AppsDone
      <4> QED
        BY <4>3, <4>4, <4>5
    <3>3. CASE ~(Pulls("apps") /\ pull'.code = "ok") /\ ~At("run", "usage")
      BY <2>1, <3>3 DEF AppsDone, Pulls, At, Since, PullSteps
    <3> QED
      BY <3>1, <3>2, <3>3
  <2>5. UsageDone'
    <3>1. CASE ~At("run", "usage")
      BY <2>1, <3>1 DEF UsageDone, Pulls, At, Since, PullSteps
    <3>2. CASE At("run", "usage")
      <4>1. pull.kind = "usage" /\ Pulls("usage") /\ ~At("run", "rebuild")
        BY <2>1, <3>2 DEF At
      <4>2. CASE pull'.code = "ok"
        <5>1. pull.todo = <<>> /\ UNCHANGED tree
          BY <1>1, <4>2
        <5>2. PICK D \in DOMAIN tree["tla"] : UsageHere(D)
          BY <1>1, <4>1, <5>1 DEF PullsOK, UsageDone
        <5> QED
          BY <5>1, <5>2 DEF UsageDone, UsageHere, Fresh, Since
      <4>3. CASE pull'.code = "running" /\ pull'.todo = <<>>
        <5>1. Len(pull'.todo) = 0
          BY <4>3
        <5>2. tree' = Put("tla", today, "usage", served)
          BY <4>1, <4>3, <5>1, UsageStep
        <5>3. /\ DOMAIN tree'["tla"] = DOMAIN tree["tla"] \cup {today} /\ tree'["tla"][today]["usage"] = served
              /\ DOMAIN tree'["tla"] \subseteq 1..today
          BY <5>2, PutOK, DayOK, TreesAre
        <5>4. served >= Since.served /\ Since' = Since
          BY <3>2 DEF PullsOK, OwnPull, UpdateSteps, At, FoldersOK, Since
        <5>5. \A e \in DOMAIN tree'["tla"] : e <= today
          BY <5>3 DEF FoldersOK
        <5> QED
          BY <5>3, <5>4, <5>5 DEF UsageDone, UsageHere, Fresh
      <4>4. CASE pull'.code # "ok" /\ ~(pull'.code = "running" /\ pull'.todo = <<>>)
        BY <4>1, <4>4 DEF UsageDone, Running, At
      <4> QED
        BY <4>2, <4>3, <4>4
    <3> QED
      BY <3>1, <3>2
  <2> QED
    BY <2>2, <2>3, <2>4, <2>5 DEF PullsOK
<1> QED
  BY <1>2, <1>3

(* Every step keeps what is claimed of the pulls.                           *)
LEMMA PullsKept ==
  ASSUME FoldersOK, TypesOK, PullsOK, [Next]_vars, FoldersOK', TypesOK'
  PROVE  PullsOK'
<1>1. /\ JobsOK /\ served \in Nat \ {0} /\ today \in Nat \ {0}
      /\ served' \in Nat /\ today' \in Nat
  BY DEF TypesOK, FoldersOK
<1>2. ASSUME UNCHANGED <<served, today, tree, torn, pull>>, job'["run"] = job["run"] PROVE PullsOK'
  BY <1>1, <1>2, NothingPulled
\* While a step that is no pull runs, no pull runs.
<1>3. ~Free("run") /\ job["run"].pc \notin PullSteps => ~Running
  BY DEF PullsOK, OwnPull
<1>4. ASSUME job'["run"].pc = "idle" PROVE PullsOK'
  BY <1>4, NoUpdate DEF UpdateSteps
<1>5. ASSUME job["run"].pc \notin PullSteps \cup {"idle"}, pull' = pull, job'["run"].pc \notin UpdateSteps
      PROVE  PullsOK'
  BY <1>3, <1>5, NoUpdate DEF Free, At, Running
<1>6. CASE World
  BY <1>1, <1>6, NothingPulled DEF World, Grow, NewDay
<1>7. CASE LogCall \/ StartCycle \/ StepFails("loop") \/ UNCHANGED vars
  <2>1. UNCHANGED <<served, today, tree, torn, pull>>
    BY <1>7 DEF LogCall, StartCycle, StepFails, Others, vars, pullVars
  <2>2. job'["run"] = job["run"]
    BY <1>1, <1>7, StopsOK DEF LogCall, StartCycle, StepFails, vars, JobsOK
  <2> QED
    BY <1>2, <2>1, <2>2
<1>8. CASE LoadStep("loop")
  <2>1. UNCHANGED <<served, today, tree, torn, pull>>
    BY <1>8, StepTypes DEF pullVars
  <2>2. job'["run"] = job["run"]
    BY <1>1, <1>8 DEF LoadStep, GatewayRead, GatewayInsert, GatewayCompare, DailyRead, DailyCommit, Hourly,
                      Stops, Ends, Advance, GoTo, JobsOK
  <2> QED
    BY <1>2, <2>1, <2>2
<1>9. CASE StepFails("run")
  BY <1>1, <1>4, <1>9, StopsOK DEF StepFails
<1>10. CASE LoadStep("run")
  <2>1. job["run"].pc \notin PullSteps \cup {"idle"} /\ pull' = pull
    BY <1>10, StepTypes DEF LoadStep, GatewayRead, GatewayInsert, GatewayCompare, DailyRead, DailyCommit, Hourly,
                            At, PullSteps, pullVars
  <2>2. job'["run"].pc \in {"idle", "insert", "compare", "daily", "commit", "hourly"}
    <3>1. CASE \/ Stops("run", "failed") \/ Stops("run", "mismatch") \/ Ends("run")
               \/ GoTo("run", "compare") \/ GoTo("run", "daily") \/ GoTo("run", "hourly")
      BY <1>1, <3>1, StopsOK, EndsOK, GoToOK DEF RunSteps
    <3>2. CASE \/ job' = [job EXCEPT !["run"].pc = "insert", !["run"].rows = Readable]
               \/ job' = [job EXCEPT !["run"].pc = "commit", !["run"].seen = Now]
      BY <1>1, <3>2 DEF JobsOK, JobRow
    <3> QED
      BY <1>10, <3>1, <3>2, AfterIs DEF LoadStep, GatewayRead, GatewayInsert, GatewayCompare, DailyRead, DailyCommit,
                                        Hourly, At, Advance
  <2>3. job'["run"].pc \notin UpdateSteps
    BY <2>2 DEF UpdateSteps
  <2> QED
    BY <1>5, <2>1, <2>3
<1>11. CASE LoadOrg \/ RalliReplace \/ RalliCommit \/ LoadContract \/ LoadMonitoring
  <2>1. job["run"].pc \notin PullSteps \cup {"idle"} /\ pull' = pull
    BY <1>11 DEF LoadOrg, RalliReplace, RalliCommit, LoadContract, LoadMonitoring, At, PullSteps, Others, pullVars
  <2>2. job'["run"].pc \in {"idle", "ralli", "replace", "contract", "monitoring", "gateway"}
    <3>1. CASE \/ Stops("run", "") \/ Ends("run") \/ GoTo("run", "ralli") \/ GoTo("run", "contract")
               \/ GoTo("run", "monitoring") \/ GoTo("run", "gateway")
      BY <1>1, <3>1, StopsOK, EndsOK, GoToOK DEF RunSteps
    <3>2. CASE RalliReplace /\ ~Stops("run", "")
      <4>1. job' = [job EXCEPT !["run"].pc = "replace", !["run"].rows = gw,
                         !["run"].seen.app = RalliBatch["raw"],
                         !["run"].seen.contract = RalliBatch["stats"]]
        BY <3>2 DEF RalliReplace
      <4>2. job["run"] \in JobRow /\ job["run"].seen \in DailyTable
        BY <1>1, JobFields
      <4> DEFINE seen == [job["run"].seen EXCEPT !.app = RalliBatch["raw"], !.contract = RalliBatch["stats"]]
      <4>3. job'["run"] = [job["run"] EXCEPT !.pc = "replace", !.rows = gw, !.seen = seen]
        BY <1>1, <4>1, <4>2 DEF JobsOK, JobRow
      <4> QED
        BY <4>2, <4>3 DEF JobRow
    <3> QED
      BY <1>11, <3>1, <3>2, AfterIs DEF LoadOrg, RalliReplace, RalliCommit, LoadContract, LoadMonitoring, AfterRalli,
                                        At, Advance
  <2>3. job'["run"].pc \notin UpdateSteps
    BY <2>2 DEF UpdateSteps
  <2> QED
    BY <1>5, <2>1, <2>3
<1>12. CASE RebuildRefuses
  BY <1>1, <1>4, <1>12, StopsOK DEF RebuildRefuses
<1>13. CASE Rebuild \/ LoadRalli
  <2>1. ~Running /\ pull' = pull
    BY <1>13 DEF Rebuild, LoadRalli, Runs, StartRun
  <2>2. job'["run"].pc \in {"billing", "org", "ralli", "contract", "monitoring", "gateway", "daily", "hourly"}
    <3>1. PICK step \in {"billing", "org", "ralli", "contract", "monitoring", "gateway", "daily", "hourly"} :
             \/ job' = [job EXCEPT !["run"] = [Idle EXCEPT !.pc = step, !.from = step, !.at = Idle.at]]
             \/ job' = [job EXCEPT !["run"] = [Idle EXCEPT !.pc = step, !.from = "alone"]]
      BY <1>13 DEF Rebuild, LoadRalli, StartRun
    <3>2. \/ job'["run"] = [Idle EXCEPT !.pc = step, !.from = step, !.at = Idle.at]
          \/ job'["run"] = [Idle EXCEPT !.pc = step, !.from = "alone"]
      BY <1>1, <3>1 DEF JobsOK
    <3>3. job'["run"].pc = step
      BY <3>2, IdleOK DEF JobRow
    <3> QED
      BY <3>3
  <2>3. job'["run"].pc \notin UpdateSteps
    BY <2>2 DEF UpdateSteps
  <2> QED
    BY <2>1, <2>3, NoUpdate DEF Running
<1>14. CASE Update
  <2> DEFINE at == [served |-> served, today |-> today, pulled |-> FALSE]
  <2>1. job' = [job EXCEPT !["run"] = [Idle EXCEPT !.pc = "token", !.from = "token", !.at = at]]
    BY <1>14 DEF Update, StartRun
  <2>2. /\ "token" \in RunSteps /\ at \in [served : Nat, today : Nat, pulled : BOOLEAN]
        /\ at.served = served /\ at.today = today /\ at.pulled = FALSE
    BY <1>1 DEF RunSteps
  <2> HIDE DEF at
  <2>3. job'["run"].pc = "token" /\ job'["run"].at = at
    <3>1. job'["run"] = [Idle EXCEPT !.pc = "token", !.from = "token", !.at = at]
      BY <1>1, <2>1 DEF JobsOK
    <3> QED
      BY <3>1, IdleOK DEF JobRow
  <2>4. ~Running /\ UNCHANGED <<pull, served, today>>
    BY <1>14 DEF Update, Runs, StartRun
  <2>5. served \in 1..served /\ today \in 1..today
    BY <1>1
  <2>6. OwnPull'
    BY <2>2, <2>3, <2>4, <2>5 DEF OwnPull, Since, At, Running, UpdateSteps
  <2>7. AppsSoFar' /\ AppsDone' /\ UsageDone'
    BY <2>3, <2>4 DEF AppsSoFar, AppsDone, UsageDone, Pulls, At, Running
  <2> QED
    BY <2>6, <2>7 DEF PullsOK
<1>15. CASE PullAlone
  <2>1. job' = job /\ job["run"].pc = "idle"
    BY <1>15 DEF PullAlone, Runs, Free, At
  <2> QED
    BY <1>4, <2>1
<1>16. CASE Pulling
  BY <1>16, OwnPullStep DEF Pulling
<1>17. CASE StepPull
  <2>1. job["run"].pc \in PullSteps /\ ~Since.pulled
    BY <1>17 DEF StepPull, Since
  <2>2. OwnPull /\ Since.served \in 1..served /\ Since.today \in 1..today
    BY <2>1 DEF PullsOK, OwnPull, PullSteps, UpdateSteps
  <2>3. CASE StartPull(job["run"].pc, FALSE) /\ job' = [job EXCEPT !["run"].at.pulled = TRUE]
    <3>1. job["run"].pc \in Kinds
      BY <2>1, KindsAre DEF PullSteps
    <3>2. /\ pull'.kind = job["run"].pc /\ pull'.thin = FALSE /\ pull'.day = today /\ Running'
          /\ pull'.todo = Items[job["run"].pc]
      BY <2>3, <3>1, StartOK
    <3>3. /\ job'["run"].pc = job["run"].pc
          /\ Since'.served = Since.served /\ Since'.today = Since.today /\ Since'.pulled = TRUE
      BY <1>1, <2>3 DEF JobsOK, JobRow, Since
    <3>4. UNCHANGED <<served, today, tree, torn>>
      BY <2>3 DEF StartPull
    <3>5. OwnPull'
      BY <2>1, <2>2, <3>2, <3>3, <3>4 DEF OwnPull, Pulls, At, PullSteps, Free
    <3>6. AppsSoFar'
      <4>1. CASE job["run"].pc = "apps"
        <5>1. Len(pull'.todo) = 7
          BY <3>2, <4>1, KindsAre
        <5>2. \A e \in DOMAIN tree["ralli"] \cup DOMAIN tree["tla"] : e <= today
          BY <1>1, TreesAre DEF FoldersOK
        <5>3. today >= Since.today
          BY <1>1, <2>2
        <5> QED
          BY <3>2, <3>3, <3>4, <5>1, <5>2, <5>3 DEF AppsSoFar
      <4>2. CASE job["run"].pc # "apps"
        BY <3>3, <4>2 DEF AppsSoFar, Pulls, At
      <4> QED
        BY <4>1, <4>2
    <3>7. AppsDone'
      <4>1. ~(Pulls("apps") /\ pull.code = "ok")' /\ ~At("run", "rebuild")'
        BY <2>1, <3>2, <3>3 DEF Running, At, PullSteps
      <4>2. CASE At("run", "usage")
        <5>1. PICK D \in DOMAIN tree["ralli"] : AppsHere(D)
          BY <4>2 DEF PullsOK, AppsDone
        <5> QED
          BY <3>3, <3>4, <5>1 DEF AppsDone, AppsHere, Fresh
      <4>3. CASE ~At("run", "usage")
        BY <3>3, <4>1, <4>3 DEF AppsDone, At
      <4> QED
        BY <4>2, <4>3
    <3>8. UsageDone'
      <4>1. CASE job["run"].pc = "usage"
        <5>1. pull'.todo # <<>> /\ pull'.code = "running"
          <6>1. Len(pull'.todo) = 2 /\ Len(<<>>) = 0
            BY <3>2, <4>1, KindsAre
          <6>2. pull'.todo # <<>>
            BY <6>1
          <6> QED
            BY <3>2, <6>2 DEF Running
        <5> QED
          BY <3>3, <4>1, <5>1 DEF UsageDone, Pulls, At
      <4>2. CASE job["run"].pc # "usage"
        BY <2>1, <3>3, <4>2 DEF UsageDone, Pulls, At, PullSteps
      <4> QED
        BY <4>1, <4>2
    <3> QED
      BY <3>5, <3>6, <3>7, <3>8 DEF PullsOK
  <2>4. CASE At("run", "series") /\ Advance("run") /\ UNCHANGED pullVars
    <3>1. GoTo("run", "merge")
      BY <2>4, AfterIs DEF At, Advance
    <3>2. job'["run"].pc = "merge" /\ job'["run"].at = job["run"].at
      BY <1>1, <3>1, GoToOK DEF RunSteps
    <3>3. ~Running /\ UNCHANGED <<served, today, tree, torn, pull>>
      BY <2>1, <2>2, <2>4 DEF OwnPull, Pulls, Free, At, PullSteps, pullVars
    <3>4. OwnPull'
      BY <2>1, <2>2, <3>2, <3>3 DEF OwnPull, Since, At, Running
    <3>5. AppsSoFar' /\ AppsDone' /\ UsageDone'
      BY <3>2 DEF AppsSoFar, AppsDone, UsageDone, Pulls, At
    <3> QED
      BY <3>4, <3>5 DEF PullsOK
  <2> QED
    BY <1>17, <2>3, <2>4 DEF StepPull
<1>18. CASE StepPulled
  <2>1. /\ job["run"].pc \in PullSteps /\ Since.pulled /\ ~Running /\ UNCHANGED <<served, today, tree, torn, pull>>
    BY <1>18 DEF StepPulled, Since, Others, pullVars
  <2>2. CASE pull.code # "ok"
    BY <1>1, <1>4, <1>18, <2>2, StopsOK DEF StepPulled
  <2>3. CASE pull.code = "ok"
    <3>1. job' = [job EXCEPT !["run"].pc = After[@], !["run"].at.pulled = FALSE]
      BY <1>18, <2>3 DEF StepPulled
    <3>2. /\ job'["run"].pc = After[job["run"].pc]
          /\ Since'.served = Since.served /\ Since'.today = Since.today /\ Since'.pulled = FALSE
      BY <1>1, <3>1 DEF JobsOK, JobRow, Since
    <3>3. OwnPull'
      <4>1. Since.served \in 1..served /\ Since.today \in 1..today
        BY <2>1 DEF PullsOK, OwnPull, PullSteps, UpdateSteps
      <4> QED
        BY <2>1, <3>2, <4>1 DEF OwnPull, Running
    <3>4. AppsSoFar'
      BY <2>1, <3>2 DEF AppsSoFar, Running
    <3>5. AppsDone'
      <4>1. CASE job["run"].pc \in {"apps", "usage"}
        <5>1. PICK D \in DOMAIN tree["ralli"] : AppsHere(D)
          BY <2>1, <2>3, <4>1 DEF PullsOK, AppsDone, Pulls, At
        <5> QED
          BY <2>1, <3>2, <5>1 DEF AppsDone, AppsHere, Fresh
      <4>2. CASE job["run"].pc \in {"token", "series"}
        <5>1. job'["run"].pc \in {"series", "merge"}
          BY <3>2, <4>2, AfterIs
        <5> QED
          BY <5>1 DEF AppsDone, Pulls, At
      <4> QED
        BY <2>1, <4>1, <4>2 DEF PullSteps
    <3>6. UsageDone'
      <4>1. CASE job["run"].pc = "usage"
        <5>1. PICK D \in DOMAIN tree["tla"] : UsageHere(D)
          BY <2>1, <2>3, <4>1 DEF PullsOK, UsageDone, Pulls, At
        <5> QED
          BY <2>1, <3>2, <5>1 DEF UsageDone, UsageHere, Fresh
      <4>2. CASE job["run"].pc \in {"token", "series", "apps"}
        <5>1. job'["run"].pc \in {"series", "merge", "usage"}
          BY <3>2, <4>2, AfterIs
        <5> QED
          BY <3>2, <5>1 DEF UsageDone, Pulls, At
      <4> QED
        BY <2>1, <4>1, <4>2 DEF PullSteps
    <3> QED
      BY <3>3, <3>4, <3>5, <3>6 DEF PullsOK
  <2> QED
    BY <2>2, <2>3
<1>19. CASE MergeSeries
  <2>1. At("run", "merge") /\ GoTo("run", "apps") /\ UNCHANGED <<served, today, tree, torn, pull>>
    BY <1>19, AfterIs DEF MergeSeries, At, Advance, pullVars
  <2>2. job'["run"].pc = "apps" /\ job'["run"].at = job["run"].at
    BY <1>1, <2>1, GoToOK DEF RunSteps
  <2>3. ~Since.pulled /\ ~Running /\ Since.served \in 1..served /\ Since.today \in 1..today
    BY <1>3, <2>1 DEF PullsOK, OwnPull, At, Free, PullSteps, UpdateSteps
  <2>4. OwnPull'
    BY <2>1, <2>2, <2>3 DEF OwnPull, Since, At, Running
  <2>5. AppsSoFar' /\ AppsDone' /\ UsageDone'
    BY <2>2, <2>3 DEF AppsSoFar, AppsDone, UsageDone, Pulls, At, Since
  <2> QED
    BY <2>4, <2>5 DEF PullsOK
<1> QED
  BY <1>6, <1>7, <1>8, <1>9, <1>10, <1>11, <1>12, <1>13, <1>14, <1>15, <1>16, <1>17, <1>18, <1>19 DEF Next, RunStep

(* What the loads of the rebuild would choose (UpdateUsesItsOwnPulls).      *)
LEMMA PullsGiveUpdate ==
  ASSUME FoldersOK, PullsOK
  PROVE  UpdateUsesItsOwnPulls
<1> SUFFICES ASSUME At("run", "rebuild")
             PROVE  /\ OrgRalli # 0 /\ OrgRalli = LatestRalli /\ OrgRalli >= Since.today
                    /\ \A f \in FilesOf["ralli"] : Fresh(tree["ralli"][OrgRalli][f])
                    /\ RalliBatch["raw"] = RalliBatch["collections"]
                    /\ OrgTla >= Since.today /\ OrgTla \notin torn
                    /\ \A f \in {"units", "members"} : Fresh(tree["tla"][OrgTla][f])
                    /\ UsageFolder >= OrgTla /\ Fresh(tree["tla"][UsageFolder]["usage"])
  BY DEF UpdateUsesItsOwnPulls, Since, Fresh
<1>1. PICK D \in DOMAIN tree["ralli"] : AppsHere(D)
  BY DEF PullsOK, AppsDone
<1>2. PICK U \in DOMAIN tree["tla"] : UsageHere(U)
  BY DEF PullsOK, UsageDone
<1>3. /\ today \in Nat /\ DOMAIN tree["ralli"] \in SUBSET (1..today) /\ DOMAIN tree["tla"] \in SUBSET (1..today)
      /\ tree["ralli"] \in [DOMAIN tree["ralli"] -> [FilesOf["ralli"] -> Nat]]
      /\ tree["tla"] \in [DOMAIN tree["tla"] -> [FilesOf["tla"] -> Nat]]
  BY TreesAre DEF FoldersOK
<1>4. Since.served \in Nat /\ Since.served >= 1 /\ Since.today \in Nat
  BY DEF PullsOK, OwnPull, At, UpdateSteps, FoldersOK
<1>5. D \in 1..today /\ U \in 1..today /\ D \in DOMAIN tree["tla"]
  BY <1>1, <1>2, <1>3 DEF AppsHere
\* A set of days whose newest is known.
<1>6. ASSUME NEW days \in SUBSET (1..today), NEW d \in days, \A e \in days : e <= d
      PROVE  Newest(days) = d
  <2>1. Newest(days) \in days /\ \A e \in days : Newest(days) >= e
    BY <1>3, <1>6, NewestOK
  <2> DEFINE n == Newest(days)
  <2>2. n \in days /\ n >= d /\ n <= d
    BY <1>6, <2>1
  <2> HIDE DEF n
  <2>3. n \in Int /\ d \in Int
    BY <1>6, <2>2
  <2>4. n = d
    BY <2>2, <2>3
  <2> QED
    BY <2>4 DEF n
<1>7. LatestRalli = D
  BY <1>1, <1>3, <1>6 DEF LatestRalli, AppsHere
<1>8. OrgRalli = D
  <2> DEFINE days == {d \in DOMAIN tree["ralli"] : \A f \in {"users", "raw"} : tree["ralli"][d][f] # 0}
  <2>1. tree["ralli"][D]["users"] # 0 /\ tree["ralli"][D]["raw"] # 0
    <3>1. tree["ralli"][D]["users"] \in Nat /\ tree["ralli"][D]["raw"] \in Nat
      BY <1>3, TreesAre
    <3>2. tree["ralli"][D]["users"] >= Since.served /\ tree["ralli"][D]["raw"] >= Since.served
      BY <1>1, TreesAre DEF AppsHere, Fresh
    <3> QED
      BY <1>4, <3>1, <3>2
  <2>2. D \in days /\ days \in SUBSET (1..today) /\ \A e \in days : e <= D
    BY <1>1, <1>3, <2>1 DEF AppsHere
  <2>3. OrgRalli = Newest(days)
    BY DEF OrgRalli, Latest
  <2> HIDE DEF days
  <2> QED
    BY <1>6, <2>2, <2>3
<1>9. OrgTla = D
  <2> DEFINE days == {d \in DOMAIN tree["tla"] : \A f \in {"units", "members"} : tree["tla"][d][f] # 0}
  <2>1. tree["tla"][D]["units"] # 0 /\ tree["tla"][D]["members"] # 0
    <3>1. tree["tla"][D]["units"] \in Nat /\ tree["tla"][D]["members"] \in Nat
      BY <1>3, <1>5, TreesAre
    <3>2. tree["tla"][D]["units"] >= Since.served /\ tree["tla"][D]["members"] >= Since.served
      BY <1>1 DEF AppsHere, Fresh
    <3> QED
      BY <1>4, <3>1, <3>2
  <2>2. \A e \in days : e <= D
    <3> SUFFICES ASSUME NEW e \in days, e > D PROVE FALSE
      BY <1>3, <1>5
    <3> QED
      BY <1>1 DEF AppsHere
  <2>3. D \in days /\ days \in SUBSET (1..today)
    BY <1>3, <1>5, <2>1
  <2>4. OrgTla = Newest(days)
    BY DEF OrgTla, Latest
  <2> HIDE DEF days
  <2> QED
    BY <1>6, <2>2, <2>3, <2>4
<1>10. UsageFolder = U /\ U >= D
  <2> DEFINE days == {d \in DOMAIN tree["tla"] : \A f \in {"usage"} : tree["tla"][d][f] # 0}
  <2>1. tree["tla"][U]["usage"] # 0
    <3>1. tree["tla"][U]["usage"] \in Nat
      BY <1>3, TreesAre
    <3>2. tree["tla"][U]["usage"] >= Since.served
      BY <1>2 DEF UsageHere, Fresh
    <3> QED
      BY <1>4, <3>1, <3>2
  <2>2. U \in days /\ days \in SUBSET (1..today) /\ \A e \in days : e <= U
    BY <1>2, <1>3, <2>1 DEF UsageHere
  <2>3. UsageFolder = Newest(days)
    BY DEF UsageFolder, Latest
  <2>4. D <= U
    BY <1>2, <1>5 DEF UsageHere
  <2> HIDE DEF days
  <2>5. UsageFolder = U
    BY <1>6, <2>2, <2>3
  <2> QED
    BY <1>5, <2>4, <2>5
<1> QED
  BY <1>1, <1>2, <1>4, <1>5, <1>7, <1>8, <1>9, <1>10 DEF AppsHere, UsageHere, RalliBatch

-----------------------------------------------------------------------------
(* The invariant holds at first, for every bound.                           *)
LEMMA PipelineInit ==
  ASSUME Init
  PROVE  PipelineInv
<1>1. /\ served = 1 /\ today = 1 /\ torn = {} /\ pull = NoPull /\ ledger = 0 /\ gw = {}
      /\ job = [p \in {"run", "loop"} |-> Idle]
      /\ \/ tree = [t \in Trees |-> <<>>]
         \/ tree = [t \in Trees |-> [d \in {1} |-> [f \in FilesOf[t] |-> 1]]]
  BY DEF Init, PullInit
<1>2. FoldersOK
  <2>1. tree = [t \in Trees |-> tree[t]]
    BY <1>1
  <2>2. \A t \in Trees : /\ DOMAIN tree[t] \subseteq 1..today
                         /\ tree[t] \in [DOMAIN tree[t] -> [FilesOf[t] -> Nat]]
    <3>1. CASE tree = [t \in Trees |-> <<>>]
      <4>1. DOMAIN <<>> = {} /\ \A S : <<>> \in [{} -> S]
        OBVIOUS
      <4> QED
        BY <3>1, <4>1
    <3>2. CASE tree = [t \in Trees |-> [d \in {1} |-> [f \in FilesOf[t] |-> 1]]]
      BY <1>1, <3>2
    <3> QED
      BY <1>1, <3>1, <3>2
  <2>3. pull \in PullRow /\ pull.day = 1 /\ pull.code = "ok"
    <3>1. "token" \in Kinds /\ 0 \in 0..Len(Items["token"])
      BY KindsAre
    <3>2. <<>> \in Todos
      BY <3>1, SuffixEnds, SuffixIsTodo
    <3> QED
      BY <1>1, <3>2 DEF NoPull, PullRow
  <2> QED
    BY <1>1, <2>1, <2>2, <2>3 DEF FoldersOK, Running
<1>3. /\ job["run"] = Idle /\ job["loop"] = Idle /\ JobsOK
  BY <1>1, IdleOK DEF JobsOK
<1>4. /\ DatabaseOK
      /\ app.calls # 0 => app.calls = 1 /\ org.users = 1
  <2>1. CASE org = NoOrg /\ app = EmptyApp /\ contract = 0 /\ daily = EmptyDaily /\ hourly = EmptyHourly
    BY <1>1, <2>1 DEF DatabaseOK, NoOrg, EmptyApp, EmptyDaily, EmptyHourly, DailyTable
  <2>2. CASE /\ org = [users |-> 1, members |-> 1, torn |-> FALSE]
             /\ app = [calls |-> 1, stats |-> 1, allowed |-> FALSE] /\ contract = 1
             /\ daily = [app |-> 1, contract |-> 1, gw |-> {}] /\ hourly = [app |-> 1, gw |-> {}]
    BY <1>1, <2>2 DEF DatabaseOK, DailyTable
  <2> QED
    BY <2>1, <2>2 DEF Init
<1>5. PullsOK
  BY <1>3, IdleOK DEF PullsOK, OwnPull, AppsSoFar, AppsDone, UsageDone, Pulls, At, Free, UpdateSteps
<1>6. RollupsOK
  BY <1>3, IdleOK DEF RollupsOK
<1>7. EveryCallHasItsUnit
  BY <1>4 DEF EveryCallHasItsUnit, Lost
<1> QED
  BY <1>2, <1>3, <1>4, <1>5, <1>6, <1>7 DEF PipelineInv, TypesOK

(* In every reachable state the jobs, the pull, the folders and the tables  *)
(* are of their types; what an update has pulled so far is fresh; the       *)
(* rollups of a run that is at its commit, or done, show the tables; and    *)
(* the calls that load_ralli accepted have their units, up to the calls     *)
(* that its comparison of two counts cannot tell apart. (rebuild_database,  *)
(* update_database, load_ralli)                                             *)
THEOREM PipelineStays == Spec => []PipelineInv
<1>1. Init => PipelineInv
  BY PipelineInit
<1>2. PipelineInv /\ [Next]_vars => PipelineInv'
  <2> SUFFICES ASSUME PipelineInv, [Next]_vars PROVE PipelineInv'
    OBVIOUS
  <2>1. FoldersOK /\ TypesOK /\ PullsOK /\ RollupsOK /\ EveryCallHasItsUnit
    BY DEF PipelineInv
  <2>2. FoldersOK' /\ TypesOK'
    <3>1. CASE Next
      BY <2>1, <3>1, FoldersKept, TypesKept
    <3>2. CASE UNCHANGED vars
      BY <2>1, <3>2 DEF vars, pullVars, dbVars, FoldersOK, TypesOK, JobsOK, DatabaseOK, Running
    <3> QED
      BY <3>1, <3>2
  <2>3. PullsOK'
    BY <2>1, <2>2, PullsKept
  <2>4. RollupsOK' /\ EveryCallHasItsUnit'
    BY <2>1, RollupsKept, UnitsKept
  <2> QED
    BY <2>2, <2>3, <2>4 DEF PipelineInv
<1> QED
  BY <1>1, <1>2, PTL DEF Spec

(* After a rebuild or an update reports success the rollups show exactly    *)
(* the calls and the contract of the tables they are computed from,         *)
(* whatever the refresh loop read and wrote in between: an older daily      *)
(* rollup of the loop never lands on top. (rebuild_database,                *)
(* load_usage_daily, load_usage_hourly)                                     *)
THEOREM FinishedRunsAgree == Spec => []DoneAgrees
<1>1. PipelineInv => DoneAgrees
  BY RollupsGiveDone DEF PipelineInv
<1> QED
  BY <1>1, PipelineStays, PTL

(* An accepted load of the calls lost no user but those nobody knows or     *)
(* those the counts cannot tell apart; and an update that comes to its      *)
(* loads reads files that its own pulls have fetched, all later than its    *)
(* start, both applications of the same day. (update_database, load_ralli,  *)
(* load_tla)                                                                *)
THEOREM LoadsFit == Spec => []LoadsFitTogether
<1>1. PipelineInv => LoadsFitTogether
  BY PullsGiveUpdate DEF PipelineInv, LoadsFitTogether
<1> QED
  BY <1>1, PipelineStays, PTL

===============================================================================
