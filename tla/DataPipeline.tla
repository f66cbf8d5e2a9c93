----------------------------- MODULE DataPipeline -----------------------------
(***************************************************************************)
(* Collecting all sources and loading them: scripts/update_dashboard.py    *)
(* and scripts/rebuild_db.py, next to the refresh loop of                  *)
(* scripts/refresh_gateway.py that loads the same tables.                  *)
(*                                                                         *)
(* An operator runs one program at a time: a pull, an update (nine steps,  *)
(* the eighth a rebuild), a rebuild from some step, or load_ralli alone,   *)
(* the one bulk load that is not refused where agents are registered       *)
(* (guard_legacy).  A step is a program of its own; the first that fails   *)
(* stops the run and what the steps before it committed stays.             *)
(* The loop runs all the while.  Only the gateway load and load_org take   *)
(* the registry's lock; load_ralli, which deletes every row of fact_call,  *)
(* and the rollups take none.                                              *)
(*                                                                         *)
(* The app's calls are numbered as they came, so a table of them is their  *)
(* number; gateway calls are a set.  All transactions are READ COMMITTED.  *)
(* A migrated database has ref_model_catalog, so the first step of a       *)
(* rebuild refuses (connect.rebuild): the catalogue is taken as loaded and *)
(* the billing table as filled before.                                     *)
(***************************************************************************)
EXTENDS SourcePull

CONSTANTS
    Overlap,     \* how far the gateway load reads back behind its watermark
    NewUser,     \* app calls whose user is on the user list from that call on
    Nobody       \* app calls the application itself cannot attribute

ASSUME PipelineAssumption ==
    /\ Overlap \in Nat
    /\ NewUser \cap Nobody = {}

VARIABLES
    ledger,    \* number of calls in LiteLLM_SpendLogs
    org,       \* dim_unit, account, dim_user: [users, members, torn], or none
    app,       \* fact_call, source app: [calls, allowed], calls 0 when empty; stats:
               \* the calls the statistics counted that it was accepted with
    gw,        \* fact_call, source gateway
    contract,  \* fact_app_daily
    daily,     \* fact_usage_daily: [app, contract, gw]
    hourly,    \* fact_usage_hourly: [app, gw]
    merged,    \* the merged monitoring files: project -> newest data in them
    job,       \* job["run"] of the operator, job["loop"] of the refresh loop
    told       \* how the last cycle of the loop ended

dbVars == <<org, app, gw, contract, daily, hourly>>
vars == <<pullVars, ledger, dbVars, merged, job, told>>

Gateway == 1..ledger
NoOrg == [users |-> 0, members |-> 0, torn |-> FALSE]
EmptyApp == [calls |-> 0, stats |-> 0, allowed |-> FALSE]
EmptyDaily == [app |-> 0, contract |-> 0, gw |-> {}]
EmptyHourly == [app |-> 0, gw |-> {}]

\* pc: the step; rows, seen: what a load or rollup read; from: --from-step;
\* at: calls served and date when an update began; ended: exit 0, exit 1.
Idle == [pc |-> "idle", rows |-> {}, seen |-> EmptyDaily, from |-> "none",
         at |-> [served |-> 0, today |-> 0, pulled |-> TRUE], ended |-> "no"]

\* A database that was just migrated, or one that was loaded before migration 013.
Init ==
    /\ PullInit
    /\ ledger = 0
    /\ \/ org = NoOrg /\ app = EmptyApp /\ contract = 0 /\ daily = EmptyDaily /\ hourly = EmptyHourly
       \/ /\ tree["ralli"] # <<>>
          /\ org = [users |-> 1, members |-> 1, torn |-> FALSE]
          /\ app = [calls |-> 1, stats |-> 1, allowed |-> FALSE] /\ contract = 1
          /\ daily = [app |-> 1, contract |-> 1, gw |-> {}] /\ hourly = [app |-> 1, gw |-> {}]
    /\ gw = {}
    /\ merged = [p \in Projects |-> IF tree["series"] = <<>> THEN 0 ELSE 1]
    /\ job = [p \in {"run", "loop"} |-> Idle]
    /\ told = "ok"

-----------------------------------------------------------------------------
(* Programs and the lock. *)

At(p, pc) == job[p].pc = pc
Free(p) == At(p, "idle")
Holds(p) == IF p = "loop" THEN ~Free(p) ELSE At(p, "insert") \/ At(p, "compare")
LockFree == ~Holds("run") /\ ~Holds("loop")

After == [org |-> "ralli", ralli |-> "contract", replace |-> "contract", contract |-> "monitoring",
          monitoring |-> "gateway", compare |-> "daily", commit |-> "hourly",
          token |-> "series", series |-> "merge", merge |-> "apps", apps |-> "usage",
          usage |-> "rebuild"]

GoTo(p, pc) == job' = [job EXCEPT ![p].pc = pc]
Advance(p) == GoTo(p, After[job[p].pc])

\* sys.exit(1) of the run, or a cycle that is tried again later.
Stops(p, why) ==
    /\ job' = [job EXCEPT ![p] = [Idle EXCEPT !.from = job[p].from, !.ended = "stopped"]]
    /\ told' = IF p = "loop" THEN why ELSE told
Ends(p) ==
    /\ job' = [job EXCEPT ![p] = [Idle EXCEPT !.from = job[p].from, !.ended = "done"]]
    /\ told' = IF p = "loop" THEN "ok" ELSE told

Others == UNCHANGED <<pullVars, ledger, merged>>

\* The next program of the operator.
Runs(program) ==
    /\ Free("run") /\ ~Running
    /\ left.runs # <<>> /\ Head(left.runs) = program
    /\ left' = [left EXCEPT !.runs = Tail(@)]

StartRun(from, at) ==
    /\ job' = [job EXCEPT !["run"] = [Idle EXCEPT !.pc = from, !.from = from, !.at = at]]
    /\ UNCHANGED <<served, today, tree, torn, pull, ledger, dbVars, merged, told>>

\* rebuild_db main: any step to start from.  Its loads of provider data and the
\* check of the read role's grants change no table of this model.
Rebuild ==
    /\ Runs("rebuild")
    /\ \E step \in {"billing", "org", "ralli", "contract", "monitoring", "gateway", "daily", "hourly"} :
         StartRun(step, Idle.at)

(* load_ralli by itself, as its --allow-unit-mismatch is meant for.         *)
LoadRalli ==
    /\ Runs("ralli")
    /\ job' = [job EXCEPT !["run"] = [Idle EXCEPT !.pc = "ralli", !.from = "alone"]]
    /\ UNCHANGED <<served, today, tree, torn, pull, ledger, dbVars, merged, told>>

AfterRalli ==
    IF job["run"].from = "alone" THEN Ends("run") ELSE Advance("run") /\ told' = told

(* connect.rebuild: guard, migrate, and refuse.                             *)
RebuildRefuses ==
    /\ At("run", "billing") \/ At("run", "rebuild")
    /\ Stops("run", "")
    /\ Others /\ UNCHANGED dbVars

-----------------------------------------------------------------------------
(* update_dashboard. *)

Update == /\ Runs("update")
          /\ StartRun("token", [served |-> served, today |-> today, pulled |-> FALSE])

PullSteps == {"token", "series", "apps", "usage"}

(* A pull by hand, in full or as a thin slice.                              *)
PullAlone ==
    /\ \E kind \in {"apps", "usage", "series"} :
         Runs(kind) /\ \E thin \in BOOLEAN : (thin => kind = "apps") /\ StartPull(kind, thin)
    /\ UNCHANGED <<ledger, dbVars, merged, job, told>>

(* The pull of a step begins; --skip-monitoring leaves one out.             *)
StepPull ==
    /\ job["run"].pc \in PullSteps /\ ~job["run"].at.pulled
    /\ \/ /\ StartPull(job["run"].pc, FALSE) /\ UNCHANGED left
          /\ job' = [job EXCEPT !["run"].at.pulled = TRUE]
       \/ /\ At("run", "series") /\ Advance("run") /\ UNCHANGED pullVars
    /\ UNCHANGED <<ledger, dbVars, merged, told>>

(* run_step: exit code 0 or the end of the update.                          *)
StepPulled ==
    /\ job["run"].pc \in PullSteps /\ job["run"].at.pulled /\ ~Running
    /\ IF pull.code = "ok"
       THEN job' = [job EXCEPT !["run"].pc = After[@], !["run"].at.pulled = FALSE] /\ told' = told
       ELSE Stops("run", "")
    /\ Others /\ UNCHANGED dbVars

(* merge_monitoring: all batches that are there, whole or not.              *)
MergeSeries ==
    /\ At("run", "merge")
    /\ merged' = [p \in Projects |-> Max({0} \cup {tree["series"][d][p] : d \in DOMAIN tree["series"]})]
    /\ Advance("run")
    /\ UNCHANGED <<pullVars, ledger, dbVars, told>>

-----------------------------------------------------------------------------
(* rebuild_db: the loads. *)

\* Calls of the export that find no unit, and what the statistics say of it.
Lost(calls, users) == {k \in 1..calls : k \in Nobody \/ (k \in NewUser /\ k > users)}
Unattributed(stats) == Nobody \cap 1..stats

Referenced == contract # 0 \/ hourly # EmptyHourly

(* load_org: under the lock, or refused; every batch it needs, or refused.  *)
(* It deletes the calls and the daily table, and the accounts: rows of the  *)
(* contract table and the hourly table refer to them, and then it fails.    *)
LoadOrg ==
    /\ At("run", "org")
    /\ IF ~LockFree \/ Referenced \/ OrgRalli = 0 \/ OrgTla = 0 \/ UsageFolder = 0
       THEN Stops("run", "") /\ UNCHANGED dbVars
       ELSE /\ org' = [users |-> tree["ralli"][OrgRalli]["users"],
                       members |-> tree["tla"][OrgTla]["members"], torn |-> OrgTla \in torn]
            /\ app' = EmptyApp /\ gw' = {} /\ daily' = EmptyDaily
            /\ Advance("run")
            /\ UNCHANGED <<contract, hourly, told>>
    /\ Others

RalliBatch == tree["ralli"][LatestRalli]

(* load_ralli deletes and inserts: what is in the table now will be gone.   *)
RalliReplace ==
    /\ At("run", "ralli")
    /\ IF org = NoOrg \/ LatestRalli = 0
       THEN Stops("run", "")
       ELSE IF RalliBatch["raw"] = 0 \/ RalliBatch["stats"] = 0
       THEN Stops("run", "")
       ELSE /\ job' = [job EXCEPT !["run"].pc = "replace", !["run"].rows = gw,
                         !["run"].seen.app = RalliBatch["raw"],
                         !["run"].seen.contract = RalliBatch["stats"]]
            /\ told' = told
    /\ Others /\ UNCHANGED dbVars

(* Its acceptance counts the whole table, so gateway rows that arrived      *)
(* meanwhile fail it; and the calls without a unit are as many as the       *)
(* application says, unless --allow-unit-mismatch.                          *)
RalliCommit ==
    /\ At("run", "replace")
    /\ LET calls == job["run"].seen.app
           stats == job["run"].seen.contract
           agrees == Cardinality(Lost(calls, org.users)) = Cardinality(Unattributed(stats))
       IN  \/ /\ gw \subseteq job["run"].rows
              /\ app' = [calls |-> calls, stats |-> stats, allowed |-> ~agrees]
              /\ gw' = {} /\ AfterRalli
           \/ /\ ~(gw \subseteq job["run"].rows /\ agrees)
              /\ Stops("run", "") /\ UNCHANGED <<app, gw>>
    /\ Others /\ UNCHANGED <<org, contract, daily, hourly>>

LoadContract ==
    /\ At("run", "contract")
    /\ IF org = NoOrg \/ UsageFolder = 0
       THEN Stops("run", "") /\ UNCHANGED contract
       ELSE contract' = tree["tla"][UsageFolder]["usage"] /\ Advance("run") /\ told' = told
    /\ Others /\ UNCHANGED <<org, app, gw, daily, hourly>>

LoadMonitoring ==
    /\ At("run", "monitoring")
    /\ IF \A p \in Projects : merged[p] = 0 THEN Stops("run", "") ELSE Advance("run") /\ told' = told
    /\ Others /\ UNCHANGED dbVars

-----------------------------------------------------------------------------
(* The gateway load and the rollups, by the run and by the loop. *)

LogCall ==
    /\ Use("gateway") /\ ~Running
    /\ ledger' = ledger + 1
    /\ UNCHANGED <<served, today, tree, torn, pull, dbVars, merged, job, told>>

StartCycle ==
    /\ Free("loop") /\ LockFree /\ ~Running
    /\ job' = [job EXCEPT !["loop"] = [Idle EXCEPT !.pc = "gateway"]]
    /\ Others /\ UNCHANGED <<dbVars, told>>

Readable == {c \in Gateway : gw = {} \/ c + Overlap >= Max(gw)}

(* load_gateway: the watermark, then the ledger.  Without accounts to put   *)
(* the rows on, or without the lock, it fails.                              *)
GatewayRead(p) ==
    /\ At(p, "gateway")
    /\ IF org = NoOrg \/ (p = "run" /\ ~LockFree)
       THEN Stops(p, "failed")
       ELSE job' = [job EXCEPT ![p].pc = "insert", ![p].rows = Readable] /\ told' = told
    /\ Others /\ UNCHANGED dbVars

(* An upsert of a row that load_ralli is deleting waits for its end.        *)
GatewayInsert(p) ==
    /\ At(p, "insert")
    /\ At("run", "replace") => job[p].rows \cap job["run"].rows = {}
    /\ gw' = gw \cup job[p].rows
    /\ GoTo(p, "compare")
    /\ Others /\ UNCHANGED <<org, app, contract, daily, hourly, told>>

\* Variant: the check covers only the rows the load has read.
GatewayCompare_OnlyRead(p) ==
    /\ At(p, "compare")
    /\ IF job[p].rows \subseteq gw THEN GoTo(p, "daily") /\ told' = told ELSE Stops(p, "mismatch")
    /\ Others /\ UNCHANGED dbVars

(* The whole-ledger check.                                                  *)
GatewayCompare(p) ==
    /\ At(p, "compare")
    /\ IF gw = Gateway THEN GoTo(p, "daily") /\ told' = told ELSE Stops(p, "mismatch")
    /\ Others /\ UNCHANGED dbVars

Now == [app |-> app.calls, contract |-> contract, gw |-> gw]
Other(p) == IF p = "run" THEN "loop" ELSE "run"

\* Variant: two rollups run next to each other.
DailyRead_Overlapping(p) ==
    /\ At(p, "daily")
    /\ job' = [job EXCEPT ![p].pc = "commit", ![p].seen = Now]
    /\ Others /\ UNCHANGED <<dbVars, told>>

(* build_usage_daily: DELETE, then INSERT.  While another one is not        *)
(* committed the rows it deleted are locked, or its new keys collide.       *)
DailyRead(p) ==
    /\ At(p, "daily") /\ ~At(Other(p), "commit")
    /\ job' = [job EXCEPT ![p].pc = "commit", ![p].seen = Now]
    /\ Others /\ UNCHANGED <<dbVars, told>>

(* The acceptance reads the sources again; a change after that goes unseen. *)
DailyCommit(p) ==
    /\ At(p, "commit")
    /\ \/ daily' = job[p].seen /\ Advance(p) /\ told' = told
       \/ job[p].seen # Now /\ Stops(p, "failed") /\ daily' = daily
    /\ Others /\ UNCHANGED <<org, app, gw, contract, hourly>>

(* build_usage_hourly is committed, and then compared: the app's part with  *)
(* the calls, the gateway's with the daily table.  The steps after it       *)
(* (build_performance, the heartbeat, the grants) write nothing read here.  *)
Hourly(p) ==
    /\ At(p, "hourly")
    /\ hourly' = [app |-> app.calls, gw |-> gw]
    /\ IF gw = daily.gw THEN Ends(p) ELSE Stops(p, "failed")
    /\ Others /\ UNCHANGED <<org, app, gw, contract, daily>>

(* Any step may fail, be stopped by its timeout or be killed.               *)
StepFails(p) ==
    /\ ~Free(p) /\ job[p].pc \notin PullSteps
    /\ Fault
    /\ Stops(p, "failed")
    /\ UNCHANGED <<served, today, tree, torn, pull, ledger, dbVars, merged>>

World == (Grow \/ NewDay) /\ Free("loop") /\ UNCHANGED <<ledger, dbVars, merged, job, told>>
Pulling == (PullStep \/ PullFault) /\ Free("loop") /\ UNCHANGED <<ledger, dbVars, merged, job, told>>

LoadStep(p) == \/ GatewayRead(p) \/ GatewayInsert(p) \/ GatewayCompare(p)
               \/ DailyRead(p) \/ DailyCommit(p) \/ Hourly(p)

RunStep == \/ RebuildRefuses \/ StepPull \/ StepPulled \/ MergeSeries
           \/ LoadOrg \/ RalliReplace \/ RalliCommit \/ LoadContract \/ LoadMonitoring
           \/ LoadStep("run")

Next ==
    \/ World \/ LogCall
    \/ Rebuild \/ Update \/ PullAlone \/ LoadRalli
    \/ Pulling \/ RunStep
    \/ StartCycle \/ LoadStep("loop")
    \/ \E p \in {"run", "loop"} : StepFails(p)

Spec == Init /\ [][Next]_vars

-----------------------------------------------------------------------------
(* Safety. *)

(* A rebuild that reports that all its steps passed leaves the rollups at   *)
(* the app's data in the tables, whatever the loop did meanwhile: no cycle  *)
(* that read before the rebuild's load commits its rollup after it.         *)
DoneAgrees ==
    job["run"].ended = "done" /\ job["run"].from # "alone" =>
        /\ hourly.app = app.calls
        /\ job["run"].from # "hourly" => daily.app = app.calls /\ daily.contract = contract

(* When an update comes to rebuild, what the loads would choose was fetched *)
(* by its own pulls, after it began, and whole: stale pages of an earlier   *)
(* pull, a folder that a later pull began and a short member list are not   *)
(* among it.                                                                *)
UpdateUsesItsOwnPulls ==
    At("run", "rebuild") =>
        LET since == job["run"].at
            fresh(v) == v >= since.served
        IN /\ OrgRalli # 0 /\ OrgRalli = LatestRalli /\ OrgRalli >= since.today
           /\ \A f \in FilesOf["ralli"] : fresh(tree["ralli"][OrgRalli][f])
           /\ RalliBatch["raw"] = RalliBatch["collections"]
           /\ OrgTla >= since.today /\ OrgTla \notin torn
           /\ \A f \in {"units", "members"} : fresh(tree["tla"][OrgTla][f])
           /\ UsageFolder >= OrgTla /\ fresh(tree["tla"][UsageFolder]["usage"])

(* No call of the app loses its unit because the directory is older than    *)
(* the log or the files of a folder come from different pulls, unless the   *)
(* operator allowed it.  The acceptance compares two counts, so a call the  *)
(* application cannot attribute either, which its statistics count and the  *)
(* older log does not have, can stand for one that was lost.                *)
EveryCallHasItsUnit ==
    app.calls # 0 /\ ~app.allowed =>
        \/ Lost(app.calls, org.users) \subseteq Nobody
        \/ Nobody \cap (app.calls + 1)..app.stats # {}

(* What is loaded together belongs together.                                *)
LoadsFitTogether == UpdateUsesItsOwnPulls /\ EveryCallHasItsUnit

-----------------------------------------------------------------------------
(* Liveness. *)

(* The loop goes on for ever, its steps end, and what the operator started  *)
(* ends.                                                                    *)
Fairness ==
    /\ SF_vars(StartCycle) /\ WF_vars(LoadStep("loop"))
    /\ WF_vars(RunStep) /\ WF_vars(PullStep /\ UNCHANGED <<ledger, dbVars, merged, job, told>>)

LiveSpec == Spec /\ Fairness

Reported == gw = Gateway /\ daily.gw = Gateway /\ hourly.gw = Gateway

(* Gateway rows that a load of another source deleted come back by          *)
(* themselves, or every cycle from then on ends with a mismatch: they never *)
(* stay away while the loop reports success.                                *)
DeletedRowsReturnOrAreTold ==
    <>[](org = NoOrg) \/ <>[]Reported \/ []<>(told = "mismatch")

=============================================================================
