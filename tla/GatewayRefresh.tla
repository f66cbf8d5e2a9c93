---------------------------- MODULE GatewayRefresh ----------------------------
(***************************************************************************)
(* Refreshing the dashboard's ledger from the gateway's                    *)
(* (scripts/refresh_gateway.py, db/load_gateway.py): an incremental read   *)
(* behind a watermark, a reconciliation against the whole source, three    *)
(* rollups, the heartbeat, and the backfill of newly registered agents     *)
(* (db/gateway_registry.py).                                               *)
(*                                                                         *)
(* Calls are logged by the gateway some time after they start, in any      *)
(* order, at any moment of a refresh.  A cycle holds the registry lock     *)
(* from the first read to the end; several programs run cycles, others run *)
(* the load alone or register agents, and each tries the lock and goes away*)
(* when it is taken.  Any step of a cycle may fail or time out.            *)
(*                                                                         *)
(* A table of calls is the set of calls it holds or aggregates.  The       *)
(* reconciliation compares row counts and token sums; calls are taken to   *)
(* differ in their tokens, so equal counts and sums mean equal multisets.  *)
(***************************************************************************)
EXTENDS Naturals, FiniteSets, FiniteSetsExt

CONSTANTS
    NCalls,      \* bound: calls made through the gateway
    MaxTime,     \* bound: units of time
    Codes,       \* agent codes that appear as tags or in the registry
    Legacy,      \* codes of agents that were there before the registry
    TagSets,     \* the sets of codes a call may carry as tags
    Outcomes,    \* what becomes of a call: "ok", "failed", "copy"
    StartOf,     \* StartOf[c]: reporting start of a registered agent
    Overlap,     \* how far the read goes back behind the watermark
    MaxDelay,    \* a call is logged at most this long after its start
    MaxFailures  \* bound: steps of a cycle that fail

ASSUME RefreshAssumption ==
    /\ NCalls \in Nat \ {0}
    /\ MaxTime \in Nat
    /\ Legacy \subseteq Codes
    /\ TagSets \subseteq SUBSET Codes
    /\ Outcomes \subseteq {"ok", "failed", "copy"}
    /\ StartOf \in [Codes -> Nat]
    /\ Overlap \in Nat /\ MaxDelay \in Nat
    /\ MaxFailures \in Nat

VARIABLES
    now,       \* the time
    spend,     \* spend[c]: call c, and whether LiteLLM_SpendLogs shows it
    known,     \* codes in dim_agent
    pending,   \* registered codes with pending_backfill
    fact,      \* fact_call, source gateway
    daily,     \* fact_usage_daily, source gateway
    hourly,    \* fact_usage_hourly, source gateway
    latency,   \* fact_latency_daily, source gateway
    job,       \* the program that holds the registry lock
    claimed,   \* history: what was to be reported when the heartbeat was written
    failures   \* failures so far

vars == <<now, spend, known, pending, fact, daily, hourly, latency, job,
          claimed, failures>>
tables == <<fact, daily, hourly, latency>>

Calls == 1..NCalls
Times == 0..MaxTime
SpendRow == [state : {"unused", "running", "logged"}, start : Times,
             tags : SUBSET Codes, outcome : {"ok", "failed", "copy"}]
Steps == {"idle", "read", "insert", "count", "compare", "daily", "hourly",
          "latency", "beat", "clear"}
Jobs  == [kind : {"none", "cycle", "load", "full"}, pc : Steps,
          rows : SUBSET Calls, counted : SUBSET Calls]
Idle  == [kind |-> "none", pc |-> "idle", rows |-> {}, counted |-> {}]

TypeOK ==
    /\ now \in Times
    /\ spend \in [Calls -> SpendRow]
    /\ known \subseteq Codes
    /\ pending \subseteq known
    /\ fact \subseteq Calls /\ daily \subseteq Calls
    /\ hourly \subseteq Calls /\ latency \subseteq Calls
    /\ job \in Jobs
    /\ claimed \subseteq Calls
    /\ failures \in 0..MaxFailures

Init ==
    /\ now = 0
    /\ spend = [c \in Calls |-> [state |-> "unused", start |-> 0, tags |-> {},
                                 outcome |-> "ok"]]
    /\ known = Legacy
    /\ pending = {}
    /\ fact = {} /\ daily = {} /\ hourly = {} /\ latency = {}
    /\ job = Idle
    /\ claimed = {}
    /\ failures = 0

-----------------------------------------------------------------------------
(* What a row of the source means for the ledger. *)

Logged == {c \in Calls : spend[c].state = "logged"}
Hits(c) == spend[c].tags \cap known

(* resolve_agent: exactly one tag names an agent. *)
Resolved(c) == Cardinality(Hits(c)) = 1
InScope(c)  == \A code \in Hits(c) \ Legacy : spend[c].start >= StartOf[code]

(* build_rows: cache copies, unresolved tags and rows before the reporting  *)
(* start are dropped; everything else becomes a row of fact_call.           *)
Usable(c) == spend[c].outcome # "copy" /\ Resolved(c) /\ InScope(c)

Succeeded == {c \in fact : spend[c].outcome = "ok"}
Watermark == Max({spend[c].start : c \in fact})

\* Variant: the read starts at the watermark itself.
Readable_NoOverlap(full) ==
    {c \in Logged : full \/ fact = {} \/ spend[c].start > Watermark
                      \/ spend[c].tags \cap pending # {}}

(* read_ledger: everything, or what started after the rewound watermark and *)
(* whatever carries the tag of an agent that waits for its backfill.        *)
Readable(full) ==
    {c \in Logged : full \/ fact = {} \/ spend[c].start + Overlap > Watermark
                      \/ spend[c].tags \cap pending # {}}

-----------------------------------------------------------------------------
(* The gateway and the registry. *)

Tick ==
    /\ now < MaxTime
    /\ \A c \in Calls : spend[c].state = "running" => now < spend[c].start + MaxDelay
    /\ now' = now + 1
    /\ UNCHANGED <<spend, known, pending, tables, job, claimed, failures>>

CallStarts(c) ==
    /\ spend[c].state = "unused"
    /\ \A d \in Calls : d < c => spend[d].state # "unused"
    /\ \E tags \in TagSets, outcome \in Outcomes :
         spend' = [spend EXCEPT ![c] = [state |-> "running", start |-> now,
                                        tags |-> tags, outcome |-> outcome]]
    /\ UNCHANGED <<now, known, pending, tables, job, claimed, failures>>

CallLogged(c) ==
    /\ spend[c].state = "running"
    /\ spend' = [spend EXCEPT ![c].state = "logged"]
    /\ UNCHANGED <<now, known, pending, tables, job, claimed, failures>>

\* Variant: agents are registered without the lock.
Register_NoLock(code) ==
    /\ code \notin known
    /\ known' = known \cup {code}
    /\ pending' = pending \cup {code}
    /\ UNCHANGED <<now, spend, tables, job, claimed, failures>>

(* apply_config under operation_lock, by the CLI or the connection worker.  *)
Register(code) ==
    /\ job = Idle
    /\ code \notin known
    /\ known' = known \cup {code}
    /\ pending' = pending \cup {code}
    /\ UNCHANGED <<now, spend, tables, job, claimed, failures>>

-----------------------------------------------------------------------------
(* A refresh cycle, or the load alone. *)

Start(kind) ==
    /\ job = Idle
    /\ job' = [Idle EXCEPT !.kind = kind, !.pc = "read"]
    /\ UNCHANGED <<now, spend, known, pending, tables, claimed, failures>>

StartCycle == Start("cycle")
StartLoad  == Start("load") \/ Start("full")

At(pc)   == job.pc = pc
GoTo(pc) == job' = [job EXCEPT !.pc = pc]
Release  == job' = Idle
World    == UNCHANGED <<now, spend, known, failures>>

Read ==
    /\ At("read")
    /\ job' = [job EXCEPT !.pc = "insert", !.rows = Readable(job.kind = "full")]
    /\ World /\ UNCHANGED <<pending, tables, claimed>>

Insert ==
    /\ At("insert")
    /\ fact' = fact \cup {c \in job.rows : Usable(c)}
    /\ GoTo("count")
    /\ World /\ UNCHANGED <<pending, daily, hourly, latency, claimed>>

(* The whole-ledger check reads the source twice: all of it, then what the  *)
(* rules skip.  Rows logged in between upset it.                            *)
Count ==
    /\ At("count")
    /\ job' = [job EXCEPT !.pc = "compare", !.counted = Logged]
    /\ World /\ UNCHANGED <<pending, tables, claimed>>

Balanced ==
    LET skipped == {c \in Logged : ~Usable(c)}
    IN  fact \cap skipped = {} /\ fact \cup skipped = job.counted

Compare ==
    /\ At("compare")
    /\ IF Balanced /\ job.kind = "cycle" THEN GoTo("daily") ELSE Release
    /\ World /\ UNCHANGED <<pending, tables, claimed>>

Daily ==
    /\ At("daily")
    /\ daily' = Succeeded
    /\ GoTo("hourly")
    /\ World /\ UNCHANGED <<pending, fact, hourly, latency, claimed>>

(* Rebuilt and committed, and only then compared with the daily table. *)
Hourly ==
    /\ At("hourly")
    /\ hourly' = Succeeded
    /\ IF hourly' = daily THEN GoTo("latency") ELSE Release
    /\ World /\ UNCHANGED <<pending, fact, daily, latency, claimed>>

Latency ==
    /\ At("latency")
    /\ latency' = Succeeded
    /\ GoTo("beat")
    /\ World /\ UNCHANGED <<pending, fact, daily, hourly, claimed>>

Beat ==
    /\ At("beat")
    /\ claimed' = {c \in job.counted : Usable(c)}
    /\ GoTo("clear")
    /\ World /\ UNCHANGED <<pending, tables>>

ClearBackfill ==
    /\ At("clear")
    /\ pending' = {}
    /\ Release
    /\ World /\ UNCHANGED <<tables, claimed>>

NextStep == [read |-> "insert", insert |-> "count", count |-> "compare",
             compare |-> "daily", daily |-> "hourly", hourly |-> "latency",
             latency |-> "beat", beat |-> "clear"]

\* Variant: the cycle goes on after a step that failed.
StepFails_GoesOn ==
    /\ job # Idle
    /\ failures < MaxFailures
    /\ failures' = failures + 1
    /\ IF job.pc \in DOMAIN NextStep /\ job.kind = "cycle" THEN GoTo(NextStep[job.pc]) ELSE Release
    /\ UNCHANGED <<now, spend, known, pending, tables, claimed>>

(* A step that fails or times out, or a process that dies: its transaction  *)
(* is rolled back and the lock goes with the session.                       *)
StepFails ==
    /\ job # Idle
    /\ failures < MaxFailures
    /\ failures' = failures + 1
    /\ Release
    /\ UNCHANGED <<now, spend, known, pending, tables, claimed>>

JobStep == \/ Read \/ Insert \/ Count \/ Compare \/ Daily \/ Hourly \/ Latency
           \/ Beat \/ ClearBackfill

Next ==
    \/ Tick
    \/ \E c \in Calls : CallStarts(c) \/ CallLogged(c)
    \/ \E code \in Codes : Register(code)
    \/ StartCycle \/ StartLoad
    \/ JobStep \/ StepFails

Spec == Init /\ [][Next]_vars

-----------------------------------------------------------------------------
(* Safety. *)

(* The incremental read never leaves a hole: a row that the next read will  *)
(* not look at again, of an agent whose history was read, is in the ledger. *)
(* (OVERLAP against late logging; pending_backfill against late registering;*)
(* the registry lock against registering during a cycle.)                   *)
NothingLostBelow ==
    \A c \in Logged \ fact :
        Usable(c) /\ fact # {} /\ Hits(c) \cap pending = {}
          => spend[c].start + Overlap > Watermark

(* A heartbeat means that all the gateway had logged when the cycle checked *)
(* it is in the ledger and, when successful, in all three rollups; failed   *)
(* later cycles do not take that back.                                      *)
HeartbeatIsHonest ==
    \A c \in claimed :
        /\ c \in fact
        /\ spend[c].outcome = "ok" => c \in daily /\ c \in hourly /\ c \in latency

(* Each table is built from what the one before it was built from: whatever *)
(* step a cycle stops at, a reader never finds a call in a later table that *)
(* an earlier one lacks.                                                    *)
RollupChain ==
    latency \subseteq hourly /\ hourly \subseteq daily /\ daily \subseteq fact

(* The tables are well formed, each follows from the one before, and a      *)
(* heartbeat stands for all of them.                                        *)
TablesAgree == TypeOK /\ RollupChain /\ HeartbeatIsHonest

-----------------------------------------------------------------------------
(* Liveness. *)

(* refresh runs in a loop, a step either ends or is killed by its timeout,  *)
(* and the lock is free again and again.                                    *)
Fairness == WF_vars(JobStep) /\ SF_vars(StartCycle)

LiveSpec == Spec /\ Fairness

(* Every successful call that counts is reported under a heartbeat. *)
EveryCallReported ==
    \A c \in Calls :
      (c \in Logged /\ Usable(c)) ~> c \in claimed

=============================================================================
