--------------------------- MODULE ConnectionVerify ---------------------------
(***************************************************************************)
(* Testing a deployed connection (backend/connection_worker.py): one       *)
(* billable request with the agent's key, then the search for its evidence *)
(* in the gateway's log and in the dashboard's ledger, which both come     *)
(* late; and the check of a request the agent claims to have made itself.  *)
(*                                                                         *)
(* The first part runs in the RPC handler under the deployment lock.  The  *)
(* rest is done by the drain loop, which polls the oldest pending test     *)
(* without the lock, refreshes the ledger once, and declares a test that a *)
(* dead handler left running interrupted.  The refresh service loads the   *)
(* ledger at its own pace.  A handler or a poll may fail at any step, the  *)
(* answer of the gateway may be lost, and the worker may crash anywhere.   *)
(*                                                                         *)
(* The call made for operation o is called o; call 0 is one of the agent's *)
(* own.  A deadline is kept as the time that is left.                      *)
(***************************************************************************)
EXTENDS ConnectionStore

CONSTANTS
    Drainers,   \* processes that run drain(): "serve", possibly also "once"
    Flaws,      \* of AllFlaws, what may be wrong with a test's call
    Limit,      \* how long a test waits for its evidence
    MaxLosses   \* bound: steps that fail and crashes of the worker

ASSUME VerifyAssumption ==
    /\ "serve" \in Drainers
    /\ Flaws \subseteq {"none", "other-route", "no-route", "bad", "no-cost", "misfit"}
    /\ Limit \in Nat \ {0}
    /\ MaxLosses \in Nat

VARIABLES
    claim,      \* claim[o]: the call whose id was submitted, None for a test
    calls,      \* operations whose RPC is on its way to the worker
    job,        \* who holds the deployment lock, and where it is
    log,        \* log[c]: call c, and whether LiteLLM_SpendLogs shows it
    ledger,     \* the worker's calls that fact_call holds
    result,     \* result[o]: the evidence kept in the operation row
    drain,      \* drain[d]: where drain d is and what it has read
    billed,     \* history: billable requests sent for an operation
    refreshes,  \* history: refreshes started for an operation
    losses      \* faults and crashes so far

vars == <<profile, ops, lastOp, recoveryOp, claim, calls, job, log, ledger,
          result, drain, billed, refreshes, losses>>

Calls == 0..MaxOps
None  == MaxOps + 1

\* A call as the gateway answers and logs it, and the first thing about it that
\* is not as it should be: the route (or its header), the tag or the status, the
\* recorded cost, the figures in the ledger.
AllFlaws == {"none", "other-route", "no-route", "bad", "no-cost", "misfit"}
Row == [state : {"none", "made", "logged"}, flaw : AllFlaws]
Result == [call : BOOLEAN, refreshed : BOOLEAN, left : 0..Limit, observed : BOOLEAN]
Blank  == [call |-> FALSE, refreshed |-> FALSE, left |-> 0, observed |-> FALSE]
Verdicts == {"pending", "failed", "inconclusive", "verified"}
Job  == [pc : {"idle", "other", "send", "judge", "stage"}, op : 0..MaxOps,
         verdict : Verdicts, call : BOOLEAN]
Idle == [pc |-> "idle", op |-> 0, verdict |-> "pending", call |-> FALSE]
Drain == [pc : {"start", "interrupt", "poll", "refresh", "stage"}, op : 0..MaxOps,
          verdict : Verdicts, refreshed : BOOLEAN]
Start == [pc |-> "start", op |-> 0, verdict |-> "pending", refreshed |-> FALSE]

TypeOK ==
    /\ StoreTypeOK
    /\ claim \in [OpIds -> Calls \cup {None}]
    /\ calls \subseteq OpIds
    /\ job \in Job
    /\ log \in [Calls -> Row]
    /\ ledger \subseteq OpIds
    /\ result \in [OpIds -> Result]
    /\ drain \in [Drainers -> Drain]
    /\ billed \in [OpIds -> Nat] /\ refreshes \in [OpIds -> Nat]
    /\ losses \in 0..MaxLosses

(* Every profile is deployed; the agent has made a call of its own. *)
Init ==
    /\ profile = [c \in Codes |-> [rev |-> 1, applied |-> 1]]
    /\ ops = [o \in OpIds |-> NoOp]
    /\ lastOp = 0 /\ recoveryOp = 0
    /\ claim = [o \in OpIds |-> None]
    /\ calls = {}
    /\ job = Idle
    /\ log = [c \in Calls |-> [state |-> IF c = 0 THEN "logged" ELSE "none",
                              flaw |-> "none"]]
    /\ ledger = {}
    /\ result = [o \in OpIds |-> Blank]
    /\ drain = [d \in Drainers |-> Start]
    /\ billed = [o \in OpIds |-> 0] /\ refreshes = [o \in OpIds |-> 0]
    /\ losses = 0

Unlocked == job.pc = "idle"
Ended(o) == ops[o].status \in {"failed", "inconclusive", "verified"}

Rest == UNCHANGED <<profile, lastOp, claim>>
NoHistory == UNCHANGED <<billed, refreshes>>

-----------------------------------------------------------------------------
(* The API, and what goes on beside the worker. *)

Request(c) ==
    /\ Enqueue(c, "verify")
    /\ \E r \in {None} \cup {k \in Calls : log[k].state = "logged"} :
         claim' = [claim EXCEPT ![lastOp + 1] = r]
    /\ calls' = calls \cup {lastOp + 1}
    /\ UNCHANGED <<job, log, ledger, result, drain, billed, refreshes, losses>>

(* The same request again: the idempotency key names the old operation. *)
Replay(o) ==
    /\ ops[o].status # "none"
    /\ calls' = calls \cup {o}
    /\ UNCHANGED <<storeVars, claim, job, log, ledger, result, drain, billed,
                   refreshes, losses>>

(* The call is lost, finds the lock taken or the catalog unavailable. *)
CallRefused(o) ==
    /\ o \in calls
    /\ calls' = calls \ {o}
    /\ UNCHANGED <<storeVars, claim, job, log, ledger, result, drain, billed,
                   refreshes, losses>>

(* Deployments, issuances and the like hold the same lock. *)
OtherTakes ==
    /\ Unlocked
    /\ job' = [Idle EXCEPT !.pc = "other"]
    /\ UNCHANGED <<storeVars, claim, calls, log, ledger, result, drain, billed,
                   refreshes, losses>>

OtherReleases ==
    /\ job.pc = "other"
    /\ job' = Idle
    /\ UNCHANGED <<storeVars, claim, calls, log, ledger, result, drain, billed,
                   refreshes, losses>>

(* LiteLLM writes its log seconds after the answer. *)
Logged(c) ==
    /\ log[c].state = "made"
    /\ log' = [log EXCEPT ![c].state = "logged"]
    /\ UNCHANGED <<storeVars, claim, calls, job, ledger, result, drain, billed,
                   refreshes, losses>>

Loadable == {c \in OpIds : log[c].state = "logged"}

(* The refresh service loads what is logged. *)
Loaded ==
    /\ ledger # Loadable
    /\ ledger' = Loadable
    /\ UNCHANGED <<storeVars, claim, calls, job, log, result, drain, billed,
                   refreshes, losses>>

Waiting == {o \in OpIds : result[o].left > 0 /\ ops[o].status = "pending"}

Tick ==
    /\ Waiting # {}
    /\ result' = [o \in OpIds |-> IF o \in Waiting THEN [result[o] EXCEPT !.left = @ - 1]
                                  ELSE result[o]]
    /\ UNCHANGED <<storeVars, claim, calls, job, log, ledger, drain, billed,
                   refreshes, losses>>

-----------------------------------------------------------------------------
(* evidence *)

Evidence(c) ==
    IF log[c].state # "logged" THEN "pending"
    ELSE IF log[c].flaw = "bad" THEN "failed"
    ELSE IF log[c].flaw = "no-cost" THEN "inconclusive"
    ELSE IF c \notin ledger THEN "pending"
    ELSE IF log[c].flaw = "misfit" THEN "failed"
    ELSE "verified"

\* The log was found and the ledger is what is missing.
AwaitsLedger(c) == log[c].state = "logged" /\ Evidence(c) = "pending"

-----------------------------------------------------------------------------
(* verify, in the handler of the RPC *)

\* Mutant: a test whose handler died is sent again.
Startable_Running(o) == ops[o].status \in {"queued", "running"}

\* "Never duplicate a billable test after HTTP retry."
Startable(o) == ops[o].status = "queued"

Called(o) ==
    /\ o \in calls
    /\ Unlocked
    /\ Startable(o)
    /\ calls' = calls \ {o}

(* No model can be chosen for the test: nothing is sent. *)
TestRejected(o) ==
    /\ claim[o] = None /\ Called(o)
    /\ Stage(o, "failed")
    /\ UNCHANGED <<job, log, ledger, result, drain, losses>>
    /\ Rest /\ NoHistory

TestBegin(o) ==
    /\ claim[o] = None /\ Called(o)
    /\ profile[ops[o].code].applied # 0
    /\ Stage(o, "running")
    /\ job' = [Idle EXCEPT !.pc = "send", !.op = o]
    /\ UNCHANGED <<log, ledger, result, drain, losses>>
    /\ Rest /\ NoHistory

Sent == billed' = [billed EXCEPT ![job.op] = @ + 1]
Made(flaw) == log' = [log EXCEPT ![job.op] = [state |-> "made", flaw |-> flaw]]
Judged(verdict, call) ==
    job' = [job EXCEPT !.pc = "stage", !.verdict = verdict, !.call = call]
Unstaged == UNCHANGED <<ops, recoveryOp, calls, ledger, result, drain, refreshes, losses>> /\ Rest

(* The gateway answers with what it did: the correlation and the route are *)
(* in the headers of the answer.                                            *)
TestSend ==
    /\ job.pc = "send"
    /\ Sent
    /\ \E flaw \in Flaws :
         /\ Made(flaw)
         /\ job' = [job EXCEPT !.pc = "judge", !.call = TRUE]
    /\ Unstaged

(* The call fails, the quota message comes back instead of an answer, or   *)
(* the answer is lost after the call was made: the test has failed.        *)
TestUnanswered ==
    /\ job.pc = "send"
    /\ Sent
    /\ UNCHANGED log \/ \E flaw \in Flaws : Made(flaw)
    /\ Judged("failed", FALSE)
    /\ Unstaged

(* Another route fails the test, a missing one leaves it open for good. *)
TestJudge ==
    /\ job.pc = "judge"
    /\ LET flaw == log[job.op].flaw
       IN Judged(CASE flaw = "other-route" -> "failed"
                   [] flaw = "no-route" -> "inconclusive"
                   [] OTHER -> Evidence(job.op), TRUE)
    /\ UNCHANGED <<log, billed>> /\ Unstaged

TestStage ==
    /\ job.pc = "stage"
    /\ Stage(job.op, job.verdict)
    /\ result' = [result EXCEPT ![job.op] =
                    [Blank EXCEPT !.call = job.call, !.left = IF job.call THEN Limit ELSE 0]]
    /\ job' = Idle
    /\ UNCHANGED <<calls, log, ledger, drain, losses>>
    /\ Rest /\ NoHistory

(* An error no one catches: the lock is released, the test stays running. *)
TestFails ==
    /\ job.pc \in {"send", "judge", "stage"}
    /\ losses < MaxLosses
    /\ losses' = losses + 1
    /\ job' = Idle
    /\ UNCHANGED <<storeVars, claim, calls, log, ledger, result, drain, billed, refreshes>>

TestStep == TestSend \/ TestUnanswered \/ TestJudge \/ TestStage

-----------------------------------------------------------------------------
(* external_verify *)

\* Mutant: the worker's own calls are not looked for.
IsWorkers_Never(c) == FALSE

\* The call id is in the result of one of the worker's own tests.
IsWorkers(c) == \E o \in OpIds : claim[o] = None /\ result[o].call /\ c = o

(* The best a claimed call can get is "inconclusive": tag and identity are *)
(* as expected, and nothing retained proves where it came from.            *)
ExternalCheck(o) ==
    /\ claim[o] # None /\ Called(o)
    /\ LET c == claim[o]
           observed == log[c].flaw # "bad" /\ ~IsWorkers(c)
       IN /\ Stage(o, IF observed THEN "inconclusive" ELSE "failed")
          /\ result' = [result EXCEPT ![o].observed = observed]
    /\ UNCHANGED <<job, log, ledger, drain, losses>>
    /\ Rest /\ NoHistory

(* The log of the request was not retained. *)
ExternalLost(o) ==
    /\ claim[o] # None /\ Called(o)
    /\ Stage(o, "inconclusive")
    /\ UNCHANGED <<job, log, ledger, result, drain, losses>>
    /\ Rest /\ NoHistory

-----------------------------------------------------------------------------
(* drain *)

Oldest(o, status) ==
    /\ ops[o].status = status
    /\ \A p \in OpIds : p < o => ops[p].status # status
NoneHas(status) == \A o \in OpIds : ops[o].status # status

Move(d, to) == drain' = [drain EXCEPT ![d] = to]
Elsewhere == UNCHANGED <<calls, log, losses>> /\ Rest

FindInterrupted(d) ==
    /\ drain[d].pc = "start"
    /\ \/ \E o \in OpIds : Oldest(o, "running") /\ Move(d, [Start EXCEPT !.pc = "interrupt", !.op = o])
       \/ NoneHas("running") /\ Move(d, [Start EXCEPT !.pc = "poll"])
    /\ UNCHANGED <<ops, recoveryOp, job, ledger, result>> /\ Elsewhere /\ NoHistory

(* The lock is taken, by the handler of the test perhaps: the cycle ends. *)
InterruptRefused(d) ==
    /\ drain[d].pc = "interrupt" /\ ~Unlocked
    /\ Move(d, Start)
    /\ UNCHANGED <<ops, recoveryOp, job, ledger, result>> /\ Elsewhere /\ NoHistory

(* With the lock in hand no handler can be alive.  The result is replaced, *)
(* and with it goes the id of the call.                                    *)
Interrupt(d) ==
    /\ drain[d].pc = "interrupt" /\ Unlocked
    /\ IF ops[drain[d].op].status = "running"
       THEN /\ Stage(drain[d].op, "inconclusive")
            /\ result' = [result EXCEPT ![drain[d].op] = Blank]
       ELSE UNCHANGED <<ops, recoveryOp, result>>
    /\ Move(d, [Start EXCEPT !.pc = "poll"])
    /\ UNCHANGED <<job, ledger>> /\ Elsewhere /\ NoHistory

\* "Refresh once, only after the log is visible."
Wants(o) == AwaitsLedger(o) /\ ~result[o].refreshed

Read(o, pc) == [pc |-> pc, op |-> o, verdict |-> Evidence(o), refreshed |-> result[o].refreshed]

Poll(d) ==
    /\ drain[d].pc = "poll"
    /\ \/ \E o \in OpIds :
            Oldest(o, "pending") /\ Move(d, Read(o, IF Wants(o) THEN "refresh" ELSE "stage"))
       \/ NoneHas("pending") /\ Move(d, Start)
    /\ UNCHANGED <<ops, recoveryOp, job, ledger, result>> /\ Elsewhere /\ NoHistory

(* The refresh loads the ledger, or finds it locked, fails or times out;   *)
(* then the evidence is read again.                                        *)
Refresh(d) ==
    /\ drain[d].pc = "refresh"
    /\ refreshes' = [refreshes EXCEPT ![drain[d].op] = @ + 1]
    /\ ledger' \in {ledger, Loadable}
    /\ LET o == drain[d].op
       IN Move(d, [drain[d] EXCEPT !.pc = "stage", !.refreshed = TRUE,
                     !.verdict = IF ledger' = ledger THEN Evidence(o)
                                 ELSE IF log[o].flaw = "misfit" THEN "failed" ELSE "verified"])
    /\ UNCHANGED <<ops, recoveryOp, job, result, billed>> /\ Elsewhere

\* Mutant: a test waits for its evidence for ever.
StagePolled_NoDeadline(d) ==
    /\ drain[d].pc = "stage"
    /\ Stage(drain[d].op, drain[d].verdict)
    /\ result' = [result EXCEPT ![drain[d].op].refreshed = drain[d].refreshed]
    /\ Move(d, Start)
    /\ UNCHANGED <<job, ledger>> /\ Elsewhere /\ NoHistory

(* Past its deadline a test without its evidence is given up.  The row is  *)
(* written whatever became of it since it was read.                        *)
StagePolled(d) ==
    /\ drain[d].pc = "stage"
    /\ LET o == drain[d].op
       IN /\ Stage(o, IF drain[d].verdict = "pending" /\ result[o].left = 0
                      THEN "inconclusive" ELSE drain[d].verdict)
          /\ result' = [result EXCEPT ![o].refreshed = drain[d].refreshed]
    /\ Move(d, Start)
    /\ UNCHANGED <<job, ledger>> /\ Elsewhere /\ NoHistory

(* A database or the gateway's database is away: the cycle ends. *)
DrainFails(d) ==
    /\ drain[d].pc # "start"
    /\ losses < MaxLosses
    /\ losses' = losses + 1
    /\ Move(d, Start)
    /\ UNCHANGED <<storeVars, claim, calls, job, log, ledger, result, billed, refreshes>>

DrainStep(d) ==
    \/ FindInterrupted(d) \/ InterruptRefused(d) \/ Interrupt(d)
    \/ Poll(d) \/ Refresh(d) \/ StagePolled(d)

(* The worker dies with its handlers and its drain loop, and starts again. *)
Crash ==
    /\ losses < MaxLosses
    /\ losses' = losses + 1
    /\ calls' = {}
    /\ job' = Idle
    /\ drain' = [drain EXCEPT !["serve"] = Start]
    /\ UNCHANGED <<storeVars, claim, log, ledger, result, billed, refreshes>>

-----------------------------------------------------------------------------
Next ==
    \/ \E c \in Codes : Request(c)
    \/ \E o \in OpIds : \/ Replay(o) \/ CallRefused(o) \/ TestRejected(o) \/ TestBegin(o)
                        \/ ExternalCheck(o) \/ ExternalLost(o)
    \/ OtherTakes \/ OtherReleases
    \/ \E c \in Calls : Logged(c)
    \/ Loaded \/ Tick
    \/ TestStep \/ TestFails
    \/ \E d \in Drainers : DrainStep(d) \/ DrainFails(d)
    \/ Crash

Spec == Init /\ [][Next]_vars

(* Handlers go on (every call has a timeout), whoever holds the lock lets  *)
(* it go, the drain loop polls every 2 s, time passes; and administrators  *)
(* do not ask for other operations for ever, each of which might take the  *)
(* lock just when drain tries it.                                          *)
LiveSpec ==
    /\ Spec
    /\ WF_vars(TestStep) /\ WF_vars(OtherReleases) /\ WF_vars(Tick)
    /\ WF_vars(DrainStep("serve"))
    /\ <>[][~OtherTakes]_vars

-----------------------------------------------------------------------------
(* Properties *)

(* An operation costs one request: retries of the browser, a handler that  *)
(* died and the drain loop never send it a second time.                    *)
BilledOnce == \A o \in OpIds : billed[o] <= 1

(* "verified" stands on all of its evidence: the expected route, the log   *)
(* with tag, success and cost, and the agreeing row of the ledger.         *)
VerifiedHasEvidence ==
    \A o \in OpIds : ops[o].status = "verified" =>
        /\ log[o] = [state |-> "logged", flaw |-> "none"]
        /\ o \in ledger

(* What has ended stays as it ended: a test that a live handler finished   *)
(* while drain waited for the lock is not declared interrupted.            *)
EndedStaysEnded ==
    [][\A o \in OpIds : Ended(o) => ops'[o].status = ops[o].status]_vars

(* The ledger is refreshed once for a test, unless the note of it is lost. *)
RefreshedOnce ==
    \A o \in OpIds : refreshes[o] <= 1 + losses

(* What costs money or work is done once per operation.                    *)
DoneOnce == TypeOK /\ BilledOnce /\ RefreshedOnce

(* A call of the worker's own passes for the agent's only if the test it   *)
(* was made for has lost its id.                                           *)
OwnCallIsKnown ==
    \A o \in OpIds : result[o].observed /\ claim[o] # 0 =>
        /\ ~result[claim[o]].call
        /\ ops[claim[o]].status \notin {"pending", "verified"}

(* A verdict is about a call of the agent, with all of its evidence.       *)
VerdictsAreTrue == VerifiedHasEvidence /\ OwnCallIsKnown

(* No started test is left without an end.  (drain looks at the oldest one *)
(* only: a test that stayed would hold up all that were asked for after it.)*)
EveryTestEnds ==
    []<>(\A o \in OpIds : ops[o].status \notin {"running", "pending"})

(* A test ends once, and once it has ended it stays so.                    *)
TestsEndForGood == EndedStaysEnded /\ EveryTestEnds

=============================================================================
