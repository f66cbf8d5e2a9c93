------------------------------- MODULE PriceSync -------------------------------
(***************************************************************************)
(* Reference prices of one model: the synchronisation with the public      *)
(* catalogue under a lease (scripts/sync_model_catalog.py), its snapshots  *)
(* and the link of a local model to its catalogue row                      *)
(* (db/model_pricing.py), and the administrator's overrides                *)
(* (backend/pricing.py).                                                   *)
(*                                                                         *)
(* Two programs may synchronise: the refresh loop and the command line     *)
(* with --apply.  Every transaction locks ref_price_sync_state first, so   *)
(* it is a step; the catalogue is fetched outside of any transaction.  The *)
(* lease and the due time are kept as the time they have left; days pass   *)
(* on their own, so midnight may fall anywhere.                            *)
(***************************************************************************)
EXTENDS Naturals, Sequences, SequencesExt, FiniteSets, FiniteSetsExt

CONSTANTS
    PriceOf,     \* PriceOf[r]: what the catalogue's r-th state says of the model
    NamesMatch,  \* whether sync_catalog recognises the local model by its name
    Official,    \* first days of the Google legacy prices of the model
    Lease, Retry, Interval, \* lengths of time
    MaxDay,      \* bound: business days
    MaxSaves,    \* bound: overrides saved
    MaxEdits,    \* bound: changes of the schedule and requests for a sync
    MaxLosses    \* bound: fetches that fail and workers that die

Programs == {"loop", "cli"}
Remotes == DOMAIN PriceOf
Prices == {"low", "high", "missing"}   \* "gone": not in the catalogue at all

ASSUME PriceAssumption ==
    /\ Len(PriceOf) > 0 /\ PriceOf \in Seq(Prices \cup {"gone"})
    /\ NamesMatch \in BOOLEAN
    /\ Official \subseteq Nat
    /\ {Lease, Retry, Interval, MaxDay} \subseteq Nat \ {0}
    /\ {MaxSaves, MaxEdits, MaxLosses} \subseteq Nat

VARIABLES
    day,      \* the business day
    remote,   \* the state of the public catalogue
    sync,     \* ref_price_sync_state
    local,    \* the ref_model_catalog row of the local model
    external, \* the row of the catalogue's model while it is not linked
    versions, \* ref_model_price_version; the id is the position
    prog,     \* where the programs are
    draft,    \* an administrator's preview: what was read for it
    spent     \* bounds used up

priceVars == <<day, remote, sync, local, external, versions, prog, draft, spent>>
catalog == <<local, external, versions>>

Days == 1..MaxDay

-----------------------------------------------------------------------------
(* select_price                                                             *)

Covers(v, d) == v.from <= d /\ (v.to = 0 \/ d < v.to)

Of(key) == {i \in DOMAIN versions : versions[i].key = key}

\* The legacy prices enter as official versions with id 0.
LegacyOn(d) == {f \in Official : f <= d}

\* Mutant: the first snapshot counts, not the latest.
SelectPrice_First(ids, d) ==
    LET active == {i \in ids : Covers(versions[i], d)}
        manual == {i \in active : versions[i].source = "manual"}
        snapshots == active \ manual
    IN IF manual # {} /\ versions[Max(manual)].mode = "price" THEN <<"manual", Max(manual)>>
       ELSE IF LegacyOn(d) # {} THEN <<"official", Max(LegacyOn(d))>>
       ELSE IF snapshots # {} THEN <<"openrouter", Min(snapshots)>>
       ELSE <<>>

\* The price of a day, by the versions with the given ids: the last manual
\* version of the day unless it says auto; then the official one; then the
\* latest snapshot.  <<>> when there is none.
SelectPrice(ids, d) ==
    LET active == {i \in ids : Covers(versions[i], d)}
        manual == {i \in active : versions[i].source = "manual"}
        snapshots == active \ manual
        later(i, j) == \/ versions[i].from > versions[j].from
                       \/ versions[i].from = versions[j].from /\ i >= j
    IN IF manual # {} /\ versions[Max(manual)].mode = "price"
       THEN <<"manual", Max(manual)>>
       ELSE IF LegacyOn(d) # {} THEN <<"official", Max(LegacyOn(d))>>
       ELSE IF snapshots # {}
       THEN <<"openrouter",
              CHOOSE i \in snapshots : \A j \in snapshots : later(i, j)>>
       ELSE <<>>

PriceInit ==
    /\ day = 1 /\ remote = 1
    /\ \E on \in BOOLEAN :
         sync = [enabled |-> on, requested |-> FALSE, due |-> 0,
                 holder |-> "none", lease |-> 0, status |-> "disabled"]
    /\ local = [linked |-> FALSE, available |-> TRUE, revision |-> 0]
    /\ external = [exists |-> FALSE, available |-> TRUE, revision |-> 0]
    /\ versions = <<>>
    /\ prog = [p \in Programs |-> [pc |-> "idle", left |-> 0, day |-> 0, seen |-> 0]]
    /\ draft = [pc |-> "none"]
    /\ spent = [saves |-> 0, edits |-> 0, failures |-> 0, crashes |-> 0]

Spend(what, bound) ==
    /\ spent[what] < bound
    /\ spent' = [spent EXCEPT ![what] = @ + 1]

Lose(what) == spent.failures + spent.crashes < MaxLosses /\ Spend(what, MaxLosses)

-----------------------------------------------------------------------------
(* Time and the catalogue                                                   *)

Less(n) == IF n = 0 THEN 0 ELSE n - 1

Tick ==
    /\ sync' = [sync EXCEPT !.due = Less(@), !.lease = Less(@)]
    /\ prog' = [p \in Programs |-> [prog[p] EXCEPT !.left = Less(@)]]
    /\ UNCHANGED <<day, remote, local, external, versions, draft, spent>>

NextDay ==
    /\ day < MaxDay
    /\ day' = day + 1
    /\ UNCHANGED <<remote, sync, local, external, versions, prog, draft, spent>>

CatalogChanges ==
    /\ remote < Len(PriceOf)
    /\ remote' = remote + 1
    /\ UNCHANGED <<day, sync, local, external, versions, prog, draft, spent>>

-----------------------------------------------------------------------------
(* run_if_due                                                               *)

\* The CLI's --apply requests the sync it is about to run.
Request(p) ==
    /\ p = "cli" /\ prog[p].pc = "idle"
    /\ Spend("edits", MaxEdits)
    /\ sync' = [sync EXCEPT !.requested = TRUE, !.due = 0]
    /\ prog' = [prog EXCEPT ![p].pc = "start"]
    /\ UNCHANGED <<day, remote, local, external, versions, draft>>

Ready(p) == prog[p].pc = IF p = "loop" THEN "idle" ELSE "start"

\* Leased, disabled or not due: the program goes on with other things.
MayNotRun == sync.lease > 0 \/ (~sync.enabled /\ ~sync.requested) \/ sync.due > 0

GoAway(p) ==
    /\ p = "cli" /\ Ready(p) /\ MayNotRun
    /\ prog' = [prog EXCEPT ![p].pc = "idle"]
    /\ UNCHANGED <<day, remote, sync, local, external, versions, draft, spent>>

Acquire(p) ==
    /\ Ready(p) /\ ~MayNotRun
    /\ sync' = [sync EXCEPT !.holder = p, !.lease = Lease,
                            !.status = "running", !.requested = FALSE]
    /\ prog' = [prog EXCEPT ![p] = [pc |-> "fetch", left |-> Lease, day |-> day, seen |-> 0]]
    /\ UNCHANGED <<day, remote, local, external, versions, draft, spent>>

FetchCatalog(p) ==
    /\ prog[p].pc = "fetch"
    /\ prog' = [prog EXCEPT ![p].pc = "commit", ![p].seen = remote]
    /\ UNCHANGED <<day, remote, sync, local, external, versions, draft, spent>>

\* A token is drawn anew for each attempt, so the holder is this attempt only
\* while nobody else has taken the lease since; a finished attempt clears it.
HoldsLease(p) == sync.holder = p

Superseded(p) ==
    /\ prog[p].pc = "commit" /\ ~HoldsLease(p)
    /\ prog' = [prog EXCEPT ![p].pc = "idle"]
    /\ UNCHANGED <<day, remote, sync, local, external, versions, draft, spent>>

\* The row of the catalogue model: the one that carries its id, or the local
\* row when its name matches and it has no id yet, or a new one.
Target ==
    IF local.linked \/ (NamesMatch /\ ~external.exists) THEN "local" ELSE "external"

\* The last snapshot of a row; snapshots with no change are not repeated.
LastSnapshot(key) ==
    LET own == {i \in Of(key) : versions[i].source = "openrouter"}
    IN IF own = {} THEN 0
       ELSE CHOOSE i \in own : \A j \in own :
              \/ versions[i].from > versions[j].from
              \/ versions[i].from = versions[j].from /\ i >= j

Changed(key, price) ==
    LastSnapshot(key) = 0 \/ versions[LastSnapshot(key)].price # price

Snapshot(key, price, from, seen) ==
    [key |-> key, source |-> "openrouter", mode |-> "price", from |-> from,
     to |-> 0, price |-> price, seen |-> seen]

\* Mutant: a new snapshot of the local row does not move its revision.
SyncCatalog_SameRevision(p) ==
    LET price == PriceOf[prog[p].seen]
        new == price # "gone" /\ Changed(Target, price)
    IN /\ versions' = IF new
                      THEN Append(versions, Snapshot(Target, price, prog[p].day + 1, prog[p].seen))
                      ELSE versions
       /\ local' = IF Target = "local" THEN [local EXCEPT !.linked = TRUE] ELSE local
       /\ external' = IF Target = "external" THEN [external EXCEPT !.exists = TRUE] ELSE external

\* A new snapshot counts from the day after the one the attempt began on.
SyncCatalog(p) ==
    LET seen == prog[p].seen
        price == PriceOf[seen]
        new == IF Changed(Target, price) THEN 1 ELSE 0
    IN IF price = "gone"
       THEN /\ local' = IF local.linked /\ local.available
                        THEN [local EXCEPT !.available = FALSE, !.revision = @ + 1]
                        ELSE local
            /\ external' = IF external.exists /\ external.available
                           THEN [external EXCEPT !.available = FALSE, !.revision = @ + 1]
                           ELSE external
            /\ UNCHANGED versions
       ELSE /\ versions' = IF new = 1
                           THEN Append(versions, Snapshot(Target, price, prog[p].day + 1, seen))
                           ELSE versions
            /\ IF Target = "local"
               THEN /\ local' = [linked |-> TRUE, available |-> TRUE,
                                 revision |-> local.revision + new]
                    /\ UNCHANGED external
               ELSE /\ external' = [exists |-> TRUE, available |-> TRUE,
                                    revision |-> external.revision + new]
                    /\ UNCHANGED local

Commit(p) ==
    /\ prog[p].pc = "commit" /\ HoldsLease(p)
    /\ SyncCatalog(p)
    /\ sync' = [sync EXCEPT !.holder = "none", !.lease = 0, !.status = "success",
                            !.due = IF sync.requested THEN 0 ELSE Interval]
    /\ prog' = [prog EXCEPT ![p].pc = "idle"]
    /\ UNCHANGED <<day, remote, draft, spent>>

\* Mutant: a failed attempt does not ask for another.
AttemptFails_Forgets(p) ==
    /\ prog[p].pc \in {"fetch", "commit"}
    /\ Lose("failures")
    /\ sync' = IF HoldsLease(p)
               THEN [sync EXCEPT !.holder = "none", !.lease = 0, !.status = "failed", !.due = Retry]
               ELSE sync
    /\ prog' = [prog EXCEPT ![p].pc = "idle"]
    /\ UNCHANGED <<day, remote, local, external, versions, draft>>

\* A fetch or a commit that raises asks for another attempt, while it still
\* holds the lease.
AttemptFails(p) ==
    /\ prog[p].pc \in {"fetch", "commit"}
    /\ Lose("failures")
    /\ sync' = IF HoldsLease(p)
               THEN [sync EXCEPT !.holder = "none", !.lease = 0, !.status = "failed",
                                 !.due = Retry, !.requested = TRUE]
               ELSE sync
    /\ prog' = [prog EXCEPT ![p].pc = "idle"]
    /\ UNCHANGED <<day, remote, local, external, versions, draft>>

Crash(p) ==
    /\ prog[p].pc # "idle"
    /\ Lose("crashes")
    /\ prog' = [prog EXCEPT ![p].pc = "idle"]
    /\ UNCHANGED <<day, remote, sync, local, external, versions, draft>>

-----------------------------------------------------------------------------
(* The administrator                                                        *)

\* POST /sync.
Enqueue ==
    /\ Spend("edits", MaxEdits)
    /\ sync' = [sync EXCEPT !.requested = TRUE, !.due = 0, !.status = "queued"]
    /\ UNCHANGED <<day, remote, local, external, versions, prog, draft>>

\* PUT /sync, of the revision that was read.
Settings ==
    /\ Spend("edits", MaxEdits)
    /\ \E on \in BOOLEAN :
         sync' = [sync EXCEPT !.enabled = on, !.due = Interval]
    /\ UNCHANGED <<day, remote, local, external, versions, prog, draft>>

\* POST /preview reads the revision and, in a later statement, the prices.
Preview ==
    /\ spent.saves < MaxSaves /\ draft.pc = "none"
    /\ draft' = [pc |-> "read", revision |-> local.revision]
    /\ UNCHANGED <<day, remote, sync, local, external, versions, prog, spent>>

PreviewPrices ==
    /\ draft.pc = "read"
    /\ draft' = [pc |-> "shown", revision |-> draft.revision,
                 others |-> [d \in Days |-> SelectPrice(Of("local"), d)],
                 ids |-> Of("local")]
    /\ UNCHANGED <<day, remote, sync, local, external, versions, prog, spent>>

Override(mode, from, to) ==
    [key |-> "local", source |-> "manual", mode |-> mode, from |-> from,
     to |-> to, price |-> "own", seen |-> 0]

\* POST /versions with the previewed revision; any other is refused with 409.
Save ==
    /\ draft.pc = "shown"
    /\ IF draft.revision = local.revision
       THEN /\ \E mode \in {"price", "auto"}, from \in Days, to \in {0} \cup Days :
                 /\ to # 0 => to > from
                 /\ versions' = Append(versions, Override(mode, from, to))
            /\ local' = [local EXCEPT !.revision = @ + 1]
            /\ Spend("saves", MaxSaves)
       ELSE UNCHANGED <<local, versions, spent>>
    /\ draft' = [pc |-> "none"]
    /\ UNCHANGED <<day, remote, sync, external, prog>>

\* --link-local: the snapshots of the catalogue's row become the local row's.
\* A manual version of the catalogue's row would need an operator; this module
\* has overrides of the local row only.
LinkModel ==
    /\ external.exists /\ ~local.linked
    /\ versions' = [i \in DOMAIN versions |-> [versions[i] EXCEPT !.key = "local"]]
    /\ local' = [linked |-> TRUE, available |-> external.available,
                 revision |-> local.revision + 1]
    /\ external' = [external EXCEPT !.exists = FALSE]
    /\ UNCHANGED <<day, remote, sync, prog, draft, spent>>

Work(p) ==
    \/ GoAway(p) \/ Acquire(p) \/ FetchCatalog(p)
    \/ Superseded(p) \/ Commit(p) \/ AttemptFails(p)

PriceNext ==
    \/ Tick \/ NextDay \/ CatalogChanges
    \/ \E p \in Programs : Request(p) \/ Work(p) \/ Crash(p)
    \/ Enqueue \/ Settings
    \/ Preview \/ PreviewPrices \/ Save
    \/ LinkModel

PriceSpec == PriceInit /\ [][PriceNext]_priceVars

\* Time passes, and the refresh loop polls; the fetch has a deadline.
PriceLiveSpec == PriceSpec /\ WF_priceVars(Tick) /\ \A p \in Programs : WF_priceVars(Work(p))

-----------------------------------------------------------------------------
(* Properties                                                               *)

Version ==
    [key : {"local", "external"}, source : {"openrouter", "manual"},
     mode : {"price", "auto"}, from : 1..(MaxDay + 1), to : 0..MaxDay,
     price : Prices \cup {"own"}, seen : 0..Len(PriceOf)]

\* The types of the variables; snapshots are prices, and at most one row
\* carries the catalogue's id (UNIQUE).
TypeOK ==
    /\ day \in Days /\ remote \in Remotes
    /\ sync \in [enabled : BOOLEAN, requested : BOOLEAN, due : 0..(Interval + Retry),
                 holder : Programs \cup {"none"}, lease : 0..Lease,
                 status : {"disabled", "queued", "running", "success", "failed"}]
    /\ versions \in Seq(Version)
    /\ \A i \in DOMAIN versions : versions[i].source = "openrouter" => versions[i].mode = "price"
    /\ \A p \in Programs : prog[p].pc \in {"idle", "start", "fetch", "commit"}
    /\ ~(local.linked /\ external.exists)

\* A worker that was overtaken writes nothing: what is stored of the catalogue
\* follows the order in which it was read, and counts in that order.
CatalogMovesForward ==
    \A i, j \in DOMAIN versions :
        i < j /\ versions[i].source = "openrouter" /\ versions[j].source = "openrouter"
          => versions[i].seen < versions[j].seen /\ versions[i].from <= versions[j].from

\* While a lease has time left nobody else fetches.
OneFetchAtATime ==
    Cardinality({p \in Programs : prog[p].pc \in {"fetch", "commit"} /\ prog[p].left > 0}) <= 1

\* The lease does what it is for.
LeaseHolds == TypeOK /\ CatalogMovesForward /\ OneFetchAtATime

\* Replaying the decisions in the order they were saved: each manual version
\* covers its days until a later one does, each snapshot its days from its
\* first on, whatever the intervals and resets in between.  layers[n] is what
\* lies on day d after the first n of them.
Replay(d) ==
    LET laid(i, under) ==
          IF versions[i].key # "local" \/ ~Covers(versions[i], d) THEN under
          ELSE IF versions[i].source = "manual" THEN [under EXCEPT !.manual = i]
          ELSE [under EXCEPT !.snapshot = i]
        layers[n \in 0..Len(versions)] ==
          IF n = 0 THEN [manual |-> 0, snapshot |-> 0] ELSE laid(n, layers[n - 1])
        top == layers[Len(versions)]
    IN IF top.manual # 0 /\ versions[top.manual].mode = "price" THEN <<"manual", top.manual>>
       ELSE IF LegacyOn(d) # {} THEN <<"official", Max(LegacyOn(d))>>
       ELSE IF top.snapshot # 0 THEN <<"openrouter", top.snapshot>>
       ELSE <<>>

\* What select_price picks for a day is what replaying the history leaves.
HistoryReplays ==
    \A d \in Days : SelectPrice(Of("local"), d) = Replay(d)

\* The prices are those of their history, and the history is in order.
PricesFollowHistory == LeaseHolds /\ HistoryReplays

\* Neither a sync nor a link takes a day away from the override that decides it.
KeepsOverrides ==
    \A d \in Days :
        LET now == SelectPrice(Of("local"), d) IN
        now # <<>> /\ now[1] = "manual" /\ spent'.saves = spent.saves
          => SelectPrice(Of("local"), d)' = now

\* An override is saved over the prices its preview showed: whatever changed
\* them in between changed the revision, and the save was refused.
SavesWhatWasReviewed ==
    spent'.saves > spent.saves
      => draft.others = [d \in Days |-> SelectPrice(Of("local"), d)]

\* An override is what an administrator reviewed, and stays it.
OverridesHold == [][SavesWhatWasReviewed /\ KeepsOverrides]_priceVars

\* A requested sync is done, after failures and beside any other attempt, while
\* no worker dies: one that dies takes the request with it.
RequestIsServed ==
    sync.requested ~> \/ ~sync.requested /\ sync.status = "success"
                      \/ spent.crashes > 0
=============================================================================
