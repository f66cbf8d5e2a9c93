------------------------------ MODULE AgentHealth ------------------------------
(***************************************************************************)
(* Health checks of the agents (scripts/watch_agents.py): a service polls  *)
(* the database for a queued "run now" and for the daily schedule; an      *)
(* administrator queues runs and moves the hour (backend/connection_api.py)*)
(* and may start a run from a shell with --once.  The rows, the unique     *)
(* index on active runs and the schedule are db/migrations/sql/016.        *)
(*                                                                         *)
(* Every transaction is a step.  It may be refused, and it may be applied  *)
(* while its acknowledgement is lost.  The service may die between any two *)
(* steps and is restarted by Docker; a shell's run may be killed.          *)
(***************************************************************************)
EXTENDS Naturals, Sequences, FiniteSets

CONSTANTS
    Total,     \* steps of a run: the checks of all agents in the file
    Hours,     \* hours of a day, 0..Hours-1
    MaxManual, \* bound: manual runs, from the tab and from a shell
    MaxDay,    \* bound: days
    MaxShell,  \* bound: runs started from a shell
    MaxEdits,  \* bound: moves of the hour
    MaxCrashes,\* bound: crashes
    MaxFaults, \* bound: transactions refused and result files not written
    MaxLost    \* bound: transactions applied without an acknowledgement

ASSUME HealthAssumption ==
    /\ Total \in Nat \ {0}
    /\ Hours \in Nat \ {0}
    /\ MaxDay \in Nat \ {0}
    /\ {MaxManual, MaxShell, MaxEdits, MaxCrashes, MaxFaults, MaxLost} \subseteq Nat

VARIABLES
    clock,    \* the day and the hour in Vietnam
    setting,  \* agent_health_setting: run_at, and last_run_date (0: null)
    runs,     \* agent_health_run, in the order of requested_at
    files,    \* files[r]: results in result.json of run r, 0 when absent
    proc,     \* where the service and the shell are
    asked,    \* history: asked[r], the checks made for run r
    spent     \* bounds used up: shells, edits, crashes, faults and losses

vars == <<clock, setting, runs, files, proc, asked, spent>>

Procs == {"service", "shell"}

\* The steps of execute, in order.
Executing == {"begin", "label", "check", "record", "write", "finish"}

\* A row as the run's INSERT leaves it.  day is history: the day of the claim.
RunRow(trigger, status, day) ==
    [trigger |-> trigger, status |-> status, day |-> day, total |-> 0,
     label |-> 0, done |-> 0, results |-> 0, note |-> FALSE]

Active == {r \in DOMAIN runs : runs[r].status \in {"queued", "running"}}

\* The partial unique index agent_health_run_one_active rejects a second row.
IndexAllows == Active = {}

IsDue == clock.hour >= setting.runAt /\ setting.lastRun # clock.day

At(p, pc) == proc[p].pc = pc
Run(p) == proc[p].run
Goto(p, pc) == proc' = [proc EXCEPT ![p].pc = pc]
Start(p, r) == proc' = [proc EXCEPT ![p] = [pc |-> "begin", run |-> r, note |-> FALSE]]

\* Where an exception in a transaction leads: out of execute to the interrupt,
\* out of a tick to the next one, out of main to the end of the process.
ExceptionOf(p) ==
    IF proc[p].pc \in Executing THEN "interrupt"
    ELSE IF p = "service" /\ proc[p].pc # "startup" THEN "idle" ELSE "down"

Fault == spent.faults < MaxFaults /\ spent' = [spent EXCEPT !.faults = @ + 1]
Loss  == spent.lost < MaxLost /\ spent' = [spent EXCEPT !.lost = @ + 1]

\* What follows a transaction that is applied: next, or an exception when the
\* acknowledgement is lost.
Applied(p, next) ==
    \/ /\ Goto(p, next)
       /\ UNCHANGED spent
    \/ /\ Loss
       /\ Goto(p, ExceptionOf(p))

AppliedStart(p, r) ==
    \/ /\ Start(p, r)
       /\ UNCHANGED spent
    \/ /\ Loss
       /\ Goto(p, ExceptionOf(p))

Manual == {r \in DOMAIN runs : runs[r].trigger = "manual"}

Insert(row) ==
    /\ runs' = Append(runs, row)
    /\ files' = Append(files, 0)
    /\ asked' = Append(asked, 0)

Init ==
    /\ clock = [day |-> 1, hour |-> 0]
    /\ \E h \in 0..(Hours - 1) : setting = [runAt |-> h, lastRun |-> 0]
    /\ runs = <<>> /\ files = <<>> /\ asked = <<>>
    /\ proc = [p \in Procs |-> [pc |-> "down", run |-> 0, note |-> FALSE]]
    /\ spent = [shells |-> 0, edits |-> 0, crashes |-> 0, faults |-> 0, lost |-> 0]

-----------------------------------------------------------------------------
(* The administrator and the clock                                          *)

\* POST /api/agent-health/run; a second active run is answered 409.
RunNow ==
    /\ IndexAllows /\ Cardinality(Manual) < MaxManual
    /\ Insert(RunRow("manual", "queued", 0))
    /\ UNCHANGED <<clock, setting, proc, spent>>

\* PUT /api/agent-health/schedule.
Schedule ==
    /\ spent.edits < MaxEdits
    /\ spent' = [spent EXCEPT !.edits = @ + 1]
    /\ \E h \in (0..(Hours - 1)) \ {setting.runAt} :
           /\ setting' = [setting EXCEPT !.runAt = h]
    /\ UNCHANGED <<clock, runs, files, proc, asked>>

Tick ==
    /\ \/ /\ clock.hour < Hours - 1
          /\ clock' = [clock EXCEPT !.hour = @ + 1]
       \/ /\ clock.hour = Hours - 1 /\ clock.day < MaxDay
          /\ clock' = [day |-> clock.day + 1, hour |-> 0]
    /\ UNCHANGED <<setting, runs, files, proc, asked, spent>>

-----------------------------------------------------------------------------
(* The service's loop                                                       *)

Boot ==
    /\ At("service", "down")
    /\ Goto("service", "startup")
    /\ UNCHANGED <<clock, setting, runs, files, asked, spent>>

\* Mutant: nothing is declared dead.
InterruptRunning_Skipped ==
    /\ At("service", "startup")
    /\ Goto("service", "idle")
    /\ UNCHANGED <<clock, setting, runs, files, asked, spent>>

\* At its start the loop declares every running row dead.
InterruptRunning ==
    /\ At("service", "startup")
    /\ runs' = [r \in DOMAIN runs |->
                  IF runs[r].status = "running"
                  THEN [runs[r] EXCEPT !.status = "interrupted"] ELSE runs[r]]
    /\ Applied("service", "idle")
    /\ UNCHANGED <<clock, setting, files, asked>>

\* A tick looks for a queued manual run first ...
Queued == {r \in Manual : runs[r].status = "queued"}

TakeManual ==
    /\ At("service", "idle")
    /\ \/ \E r \in Queued :
             /\ \A q \in Queued : r <= q
             /\ runs' = [runs EXCEPT ![r].status = "running"]
             /\ AppliedStart("service", r)
       \/ /\ Queued = {}
          /\ Goto("service", "claim")
          /\ UNCHANGED <<runs, spent>>
    /\ UNCHANGED <<clock, setting, files, asked>>

\* Mutant: the day stays claimed when the index rejects the run.
ClaimSchedule_Split ==
    /\ At("service", "claim")
    /\ \/ /\ IsDue /\ IndexAllows
          /\ Insert(RunRow("schedule", "running", clock.day))
          /\ AppliedStart("service", Len(runs) + 1)
       \/ /\ ~IsDue \/ ~IndexAllows
          /\ Goto("service", "idle")
          /\ UNCHANGED <<runs, files, asked, spent>>
    /\ setting' = IF IsDue THEN [setting EXCEPT !.lastRun = clock.day] ELSE setting
    /\ UNCHANGED clock

\* ... and then at the schedule: the day is claimed and the run inserted in one
\* transaction, which the unique index rolls back when a run is active.
ClaimSchedule ==
    /\ At("service", "claim")
    /\ \/ /\ IsDue /\ IndexAllows
          /\ Insert(RunRow("schedule", "running", clock.day))
          /\ setting' = [setting EXCEPT !.lastRun = clock.day]
          /\ AppliedStart("service", Len(runs) + 1)
       \/ /\ ~IsDue \/ ~IndexAllows
          /\ Goto("service", "idle")
          /\ UNCHANGED <<runs, files, asked, setting, spent>>
    /\ UNCHANGED clock

\* --once inserts its run as running; it does not declare other runs dead.
CreateCliRun ==
    /\ At("shell", "down") /\ spent.shells < MaxShell
    /\ IndexAllows /\ Cardinality(Manual) < MaxManual
    /\ Insert(RunRow("manual", "running", 0))
    /\ \/ /\ Start("shell", Len(runs) + 1)
          /\ spent' = [spent EXCEPT !.shells = @ + 1]
       \/ /\ spent.lost < MaxLost
          /\ spent' = [spent EXCEPT !.shells = @ + 1, !.lost = @ + 1]
          /\ UNCHANGED proc
    /\ UNCHANGED <<clock, setting>>

-----------------------------------------------------------------------------
(* execute, for the service and for the shell                               *)

Begin(p) ==
    /\ At(p, "begin")
    /\ runs' = [runs EXCEPT ![Run(p)].total = Total]
    /\ Applied(p, "label")
    /\ UNCHANGED <<clock, setting, files, asked>>

\* current_label is written before the check it names.
Label(p) ==
    /\ At(p, "label")
    /\ runs' = [runs EXCEPT ![Run(p)].label = asked[Run(p)] + 1]
    /\ Applied(p, "check")
    /\ UNCHANGED <<clock, setting, files, asked>>

\* A check never stops the run: whatever it raises becomes its result.
Check(p) ==
    /\ At(p, "check")
    /\ asked' = [asked EXCEPT ![Run(p)] = @ + 1]
    /\ Goto(p, "record")
    /\ UNCHANGED <<clock, setting, runs, files, spent>>

\* Mutant: done is counted first, the document follows with the next result.
Record_DoneFirst(p) ==
    /\ At(p, "record")
    /\ runs' = [runs EXCEPT ![Run(p)].results = runs[Run(p)].done,
                            ![Run(p)].done = @ + 1]
    /\ Applied(p, IF asked[Run(p)] < Total THEN "label" ELSE "write")
    /\ UNCHANGED <<clock, setting, files, asked>>

\* The document and done are one UPDATE; no row is left out by its status.
Record(p) ==
    /\ At(p, "record")
    /\ runs' = [runs EXCEPT ![Run(p)].results = asked[Run(p)],
                            ![Run(p)].done = @ + 1]
    /\ Applied(p, IF asked[Run(p)] < Total THEN "label" ELSE "write")
    /\ UNCHANGED <<clock, setting, files, asked>>

\* result.json appears by a rename; a failure to write it is noted in the
\* document that finish stores.
WriteResult(p) ==
    /\ At(p, "write")
    /\ \/ /\ files' = [files EXCEPT ![Run(p)] = asked[Run(p)]]
          /\ Goto(p, "finish")
          /\ UNCHANGED spent
       \/ /\ Fault
          /\ proc' = [proc EXCEPT ![p].pc = "finish", ![p].note = TRUE]
          /\ UNCHANGED files
    /\ UNCHANGED <<clock, setting, runs, asked>>

AfterRun(p) == IF p = "service" THEN "idle" ELSE "down"

Finish(p) ==
    /\ At(p, "finish")
    /\ runs' = [runs EXCEPT ![Run(p)].status = "done", ![Run(p)].label = 0,
                            ![Run(p)].results = asked[Run(p)],
                            ![Run(p)].note = proc[p].note]
    /\ Applied(p, AfterRun(p))
    /\ UNCHANGED <<clock, setting, files, asked>>

\* The run of an execute that raised, unless it is no longer running.
Interrupt(p) ==
    /\ At(p, "interrupt")
    /\ runs' = IF runs[Run(p)].status = "running"
               THEN [runs EXCEPT ![Run(p)].status = "interrupted"] ELSE runs
    /\ Goto(p, AfterRun(p))
    /\ UNCHANGED <<clock, setting, files, asked, spent>>

-----------------------------------------------------------------------------
(* Failures                                                                 *)

\* A transaction raises and is not applied.
Refused(p) ==
    /\ proc[p].pc \in (Executing \ {"check", "write"}) \cup {"startup", "claim", "interrupt"}
    /\ Fault
    /\ Goto(p, IF At(p, "interrupt") THEN AfterRun(p) ELSE ExceptionOf(p))
    /\ UNCHANGED <<clock, setting, runs, files, asked>>

Crash(p) ==
    /\ ~At(p, "down") /\ spent.crashes < MaxCrashes
    /\ spent' = [spent EXCEPT !.crashes = @ + 1]
    /\ Goto(p, "down")
    /\ UNCHANGED <<clock, setting, runs, files, asked>>

Execute(p) ==
    \/ Begin(p) \/ Label(p) \/ Check(p) \/ Record(p)
    \/ WriteResult(p) \/ Finish(p) \/ Interrupt(p)

Service ==
    \/ Boot \/ InterruptRunning \/ TakeManual \/ ClaimSchedule
    \/ Execute("service")

Next ==
    \/ RunNow \/ Schedule \/ Tick
    \/ Service
    \/ CreateCliRun \/ Execute("shell")
    \/ \E p \in Procs : Refused(p) \/ Crash(p)

Spec == Init /\ [][Next]_vars

\* Docker restarts the service, its loop goes on, and every transaction and
\* check has a timeout; nothing obliges anybody to start or to kill a run.
LiveSpec == Spec /\ WF_vars(Service) /\ WF_vars(Execute("shell"))

-----------------------------------------------------------------------------
(* Properties                                                               *)

Row == [trigger : {"schedule", "manual"},
        status : {"queued", "running", "done", "interrupted"},
        day : 0..MaxDay, total : {0, Total}, label : 0..Total,
        done : 0..Total, results : 0..Total, note : BOOLEAN]

\* The types of the variables; the rows are within their CHECK constraints and
\* the index agent_health_run_one_active holds.
TypeOK ==
    /\ clock \in [day : 1..MaxDay, hour : 0..(Hours - 1)]
    /\ setting \in [runAt : 0..(Hours - 1), lastRun : 0..MaxDay]
    /\ runs \in Seq(Row)
    /\ files \in [DOMAIN runs -> {0, Total}]
    /\ asked \in [DOMAIN runs -> 0..Total]
    /\ \A p \in Procs :
         /\ proc[p].pc \in Executing \cup {"down", "startup", "idle", "claim", "interrupt"}
         /\ proc[p].pc \in Executing \cup {"interrupt"} => proc[p].run \in DOMAIN runs
    /\ Cardinality(Active) <= 1

\* The schedule's day is claimed by exactly one run: a day that last_run_date
\* has named has its run, a day without a run can still get one, and no crash,
\* lost acknowledgement or competing run splits the two
\* (claim_schedule's single transaction).
DayHasItsRun ==
    LET claims == {r \in DOMAIN runs : runs[r].trigger = "schedule"} IN
    /\ \A r, q \in claims : r < q => runs[r].day < runs[q].day
    /\ IF claims = {} THEN setting.lastRun = 0
       ELSE setting.lastRun \in {runs[r].day : r \in claims}
            /\ \A r \in claims : runs[r].day <= setting.lastRun

\* No check of a run is made twice, whatever dies and restarts: each costs a
\* call of the agent's model.
AskedOnce ==
    \A r \in DOMAIN runs :
        /\ asked[r] <= runs[r].done + 1
        /\ asked[r] <= Total

\* What is scheduled or asked of an agent is done once: no day is run twice or
\* passed over, and no check is repeated.
WorkIsDoneOnce == DayHasItsRun /\ AskedOnce

\* The progress bar is never ahead of the results, nor is a done run short of
\* any, and the results survive whatever ends the run.
ProgressIsHonest ==
    \A r \in DOMAIN runs :
        /\ runs[r].done = runs[r].results
        /\ runs[r].done <= asked[r]
        /\ runs[r].label <= asked[r] + 1
        /\ runs[r].status = "done" => runs[r].done = runs[r].total

\* A reader that finds result.json finds every check in it, and a done run
\* without the file says why.
FileIsComplete ==
    \A r \in DOMAIN runs :
        /\ files[r] # 0 => files[r] = runs[r].total /\ runs[r].results = files[r]
        /\ runs[r].status = "done" => (files[r] = 0) = runs[r].note

\* Row, results and file of a run tell the same story.
StoriesAgree == TypeOK /\ ProgressIsHonest /\ FileIsComplete

\* What has ended is never touched again: a restart or a late interrupt does
\* not reopen a run nor change how it ended.  A shell's run that a restart of
\* the service declared dead goes on, but a done one stays as it is.
EndedStaysEnded ==
    [][\A r \in DOMAIN runs :
         (\/ runs[r].status = "done"
          \/ runs[r].status = "interrupted" /\ Run("shell") # r)
         => runs'[r] = runs[r]]_vars

\* The service alone, one refused statement at most, none unacknowledged.
Undisturbed == spent.shells = 0 /\ spent.faults <= 1 /\ spent.lost = 0

\* "Run now" is unlocked and the tab's warning that today's schedule has not run
\* goes away: no run stays active, whatever it was doing when the service died or
\* a statement was refused, and the schedule gets its turn after the runs in its
\* way.  (enqueue in connection_api; store.agent_health, schedule_missed_today.)
ServiceCatchesUp == []<>((Active = {} /\ ~IsDue) \/ ~Undisturbed)

\* A run ends, and once it has ended it stays so.
RunsEndForGood == EndedStaysEnded /\ ServiceCatchesUp

\* The comment in tick(): an error of the database half-way leaves no run stuck
\* in "running" (two statements refused in a row included).
NoRunStaysStuck == []<>(Active = {})
=============================================================================
