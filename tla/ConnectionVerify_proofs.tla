------------------------ MODULE ConnectionVerify_proofs ------------------------
(***************************************************************************)
(* Theorems about ConnectionVerify, for every set of agents, flaws and     *)
(* drains and every bound.                                                 *)
(***************************************************************************)
EXTENDS ConnectionVerify, TLAPS

Testing  == {"send", "judge", "stage"}
Polling  == {"refresh", "stage"}
Awaited  == {"none", "queued", "running"}
Settled  == {"pending", "failed", "inconclusive", "verified"}

(* Whoever works on an operation holds the number of one.                  *)
TargetsOK ==
    /\ job.pc \in Testing => job.op \in OpIds
    /\ \A d \in Drainers : drain[d].pc \in Polling \cup {"interrupt"} => drain[d].op \in OpIds

TypeInv == TypeOK /\ TargetsOK

(* An operation that has not been staged after its start is as it was made,*)
(* and numbers not given out are unused.                                   *)
RowsOK ==
    /\ \A o \in OpIds : ops[o].status \in Awaited \cup Settled
    /\ \A o \in OpIds : o > lastOp => ops[o].status = "none"
    /\ \A o \in OpIds : ops[o].status \in Awaited => result[o] = Blank

(* The test whose handler holds the lock is running.                       *)
HandlerRuns ==
    /\ job.pc \in Testing => ops[job.op].status = "running" /\ claim[job.op] = None
    /\ job.pc = "send" => log[job.op].state = "none"

(* What is logged was sent for a test, and only what is logged is claimed. *)
LogsOK ==
    /\ \A k \in OpIds : log[k].state # "none" =>
         claim[k] = None /\ ops[k].status \notin {"none", "queued"}
    /\ ledger \subseteq Loadable
    /\ \A o \in OpIds : claim[o] \in OpIds => log[claim[o]].state = "logged"
    /\ \A o \in OpIds : result[o].observed => claim[o] # None

(* All the evidence there is; and a route that did not rule it out.        *)
Proven(o) == log[o] = [state |-> "logged", flaw |-> "none"] /\ o \in ledger
Routed(o) == log[o].flaw \notin {"other-route", "no-route"}

(* A test that waits has the id of its call, and so has a verdict on the   *)
(* way to its row.                                                         *)
EvidenceOK ==
    /\ \A o \in OpIds : ops[o].status \in {"pending", "verified"} => result[o].call
    /\ \A o \in OpIds : ops[o].status = "pending" => Routed(o)
    /\ \A o \in OpIds : ops[o].status = "verified" => Proven(o)

VerdictOK ==
    /\ job.pc = "stage" /\ job.verdict \in {"pending", "verified"} => job.call
    /\ job.pc = "stage" /\ job.verdict = "pending" => Routed(job.op)
    /\ job.pc = "stage" /\ job.verdict = "verified" => Proven(job.op)

PolledOK ==
    \A d \in Drainers :
      LET o == drain[d].op IN
      /\ drain[d].pc \in Polling => ops[o].status \in Settled /\ result[o].call /\ Routed(o)
      /\ drain[d].pc = "refresh" => log[o].state = "logged" /\ log[o].flaw \notin {"bad", "no-cost"}
      /\ drain[d].pc = "stage" /\ drain[d].verdict = "verified" => Proven(o)

(* A request is paid for after its test was taken, and once.               *)
BillsOK ==
    /\ \A o \in OpIds : ops[o].status \in {"none", "queued"} => billed[o] = 0
    /\ job.pc = "send" => billed[job.op] = 0
    /\ BilledOnce

(* A call that passed for the agent's is not one a test still waits for.   *)
ClaimsOK ==
    \A o \in OpIds : result[o].observed /\ claim[o] \in OpIds =>
        /\ ~result[claim[o]].call
        /\ job.pc \in Testing => job.op # claim[o]

VerifyInv == 
    /\ TypeInv /\ RowsOK /\ HandlerRuns /\ LogsOK /\ EvidenceOK /\ VerdictOK
    /\ PolledOK /\ BillsOK /\ ClaimsOK

(* With one drain: what it has polled still waits, and a refresh that was  *)
(* started is noted or its note was lost with a step.                      *)
Noted(o) == \/ result[o].refreshed
            \/ drain["serve"].pc = "stage" /\ drain["serve"].op = o /\ drain["serve"].refreshed
RefreshInv ==
    /\ drain["serve"].pc \in Polling => 
         /\ ops[drain["serve"].op].status = "pending"
         /\ drain["serve"].pc = "refresh" => ~result[drain["serve"].op].refreshed
         /\ result[drain["serve"].op].refreshed => drain["serve"].refreshed
    /\ \A o \in OpIds : ops[o].status \in Awaited => refreshes[o] = 0
    /\ \A o \in OpIds : refreshes[o] <= losses + (IF Noted(o) THEN 1 ELSE 0)

-----------------------------------------------------------------------------
(* Types. *)

USE DEF OpIds, Calls

LEMMA ConstantTypes ==
    /\ NoOp \in OpRow
    /\ Blank \in Result
    /\ Idle \in Job
    /\ Start \in Drain
    /\ None \notin Calls
<1> USE StoreAssumption, VerifyAssumption
<1>1. NoOp \in OpRow
  BY DEF NoOp, OpRow, Kinds, Statuses, Revs
<1>2. Blank \in Result
  BY DEF Blank, Result
<1>3. Idle \in Job
  BY DEF Idle, Job, Verdicts
<1>4. Start \in Drain
  BY DEF Start, Drain, Verdicts
<1>5. None \notin Calls
  BY DEF None
<1> QED
  BY <1>1, <1>2, <1>3, <1>4, <1>5

LEMMA InitTypeInv == Init => TypeInv
<1> USE StoreAssumption, VerifyAssumption
<1> SUFFICES ASSUME Init PROVE TypeInv
  OBVIOUS
<1> USE ConstantTypes
<1>1. StoreTypeOK
  BY DEF Init, StoreTypeOK, ProfileRow, Revs
<1>2. log \in [Calls -> Row]
  <2>1. \A s \in {"none", "logged"} : [state |-> s, flaw |-> "none"] \in Row
    BY DEF Row, AllFlaws
  <2> QED
    BY <2>1 DEF Init
<1>3. /\ claim \in [OpIds -> Calls \cup {None}] /\ calls \subseteq OpIds
      /\ job \in Job /\ ledger \subseteq OpIds
      /\ result \in [OpIds -> Result]
      /\ drain \in [Drainers -> Drain]
  BY DEF Init
<1>4. billed \in [OpIds -> Nat] /\ refreshes \in [OpIds -> Nat] /\ losses \in 0..MaxLosses
  BY DEF Init
<1>5. TypeOK
  BY <1>1, <1>2, <1>3, <1>4 DEF TypeOK
<1>6. TargetsOK
  BY DEF Init, TargetsOK, Idle, Start, Testing, Polling
<1> QED
  BY <1>5, <1>6 DEF TypeInv

(* A transaction of the store that gives an operation another status.      *)
LEMMA StageType ==
  ASSUME StoreTypeOK, NEW o \in OpIds, NEW s \in Statuses \ {"recovery-required"},
         Stage(o, s), UNCHANGED <<profile, lastOp>>
  PROVE  /\ StoreTypeOK'
         /\ recoveryOp' = recoveryOp
         /\ ops' = [ops EXCEPT ![o].status = s]
         /\ ops'[o].status = s
         /\ \A p \in OpIds : p # o => ops'[p] = ops[p]
<1> USE StoreAssumption, VerifyAssumption
<1>1. ops' = [ops EXCEPT ![o].status = s] /\ recoveryOp' = recoveryOp
  BY DEF Stage
<1>2. ops[o] \in OpRow
  BY DEF StoreTypeOK
<1>3. [ops[o] EXCEPT !.status = s] \in OpRow
  BY <1>2 DEF OpRow
<1> QED
  BY <1>1, <1>2, <1>3 DEF StoreTypeOK, OpRow

LEMMA EvidenceType ==
  ASSUME NEW c PROVE Evidence(c) \in Verdicts
BY StoreAssumption, VerifyAssumption DEF Evidence, Verdicts

LEMMA VerdictStatus == Verdicts \subseteq Statuses \ {"recovery-required"}
BY StoreAssumption, VerifyAssumption DEF Verdicts, Statuses

LEMMA RequestType ==
  ASSUME TypeInv, NEW c \in Codes, Request(c)
  PROVE  /\ TypeInv'
         /\ lastOp + 1 \in OpIds
         /\ ops' = [ops EXCEPT ![lastOp + 1] = ops'[lastOp + 1]]
         /\ ops'[lastOp + 1].status = "queued"
         /\ \E r \in {None} \cup {k \in Calls : log[k].state = "logged"} :
              claim' = [claim EXCEPT ![lastOp + 1] = r]
         /\ lastOp' = lastOp + 1
<1> USE StoreAssumption, VerifyAssumption
<1> DEFINE n == lastOp + 1
           row == [code |-> c, kind |-> "verify", rev |-> profile[c].rev, status |-> "queued"]
<1>1. n \in OpIds /\ ops' = [ops EXCEPT ![n] = row] /\ lastOp' = n /\ UNCHANGED <<profile, recoveryOp>>
  BY DEF Request, Enqueue, TypeInv, TypeOK, StoreTypeOK
<1>2. row \in OpRow
  BY DEF TypeInv, TypeOK, StoreTypeOK, OpRow, ProfileRow, Kinds, Statuses
<1>3. StoreTypeOK'
  BY <1>1, <1>2 DEF TypeInv, TypeOK, StoreTypeOK
<1>4. claim' \in [OpIds -> Calls \cup {None}] /\ calls' \subseteq OpIds
  BY <1>1 DEF Request, TypeInv, TypeOK
<1>5. TypeOK'
  BY <1>3, <1>4 DEF Request, TypeInv, TypeOK
<1>6. TargetsOK'
  BY DEF Request, TypeInv, TargetsOK
<1>7. ops'[n] = row /\ row.status = "queued"
  BY <1>1 DEF TypeInv, TypeOK, StoreTypeOK
<1>8. TypeInv'
  BY <1>5, <1>6 DEF TypeInv
<1>9. ops' = [ops EXCEPT ![lastOp + 1] = ops'[lastOp + 1]] /\ ops'[lastOp + 1].status = "queued"
  BY <1>1, <1>7
<1> QED
  BY <1>1, <1>8, <1>9 DEF Request

(* What goes on around the tests.                                          *)
LEMMA OutsideType ==
  ASSUME TypeInv,
         \/ \E o \in OpIds : Replay(o) \/ CallRefused(o)
         \/ OtherTakes \/ OtherReleases
         \/ \E c \in Calls : Logged(c)
         \/ Loaded \/ Tick
  PROVE  TypeInv'
<1> USE StoreAssumption, VerifyAssumption
<1> USE DEF TypeInv, TypeOK
<1>1. ASSUME NEW o \in OpIds, Replay(o) \/ CallRefused(o) PROVE TypeInv'
  BY <1>1 DEF Replay, CallRefused, StoreTypeOK, storeVars, TargetsOK
<1>2. CASE OtherTakes \/ OtherReleases
  <2>1. job' \in Job /\ job'.pc \in {"idle", "other"}
    <3>1. [Idle EXCEPT !.pc = "other"] \in Job
      BY ConstantTypes DEF Job
    <3>2. [Idle EXCEPT !.pc = "other"].pc = "other" /\ Idle.pc = "idle"
      BY DEF Idle
    <3> QED
      BY <1>2, <3>1, <3>2, ConstantTypes DEF OtherTakes, OtherReleases
  <2> QED
    BY <1>2, <2>1 DEF OtherTakes, OtherReleases, StoreTypeOK, storeVars, TargetsOK, Testing
<1>3. ASSUME NEW c \in Calls, Logged(c) PROVE TypeInv'
  <2>1. [log[c] EXCEPT !.state = "logged"] \in Row
    BY DEF Row
  <2> QED
    BY <1>3, <2>1 DEF Logged, StoreTypeOK, storeVars, TargetsOK
<1>4. CASE Loaded
  BY <1>4 DEF Loaded, Loadable, StoreTypeOK, storeVars, TargetsOK
<1>5. CASE Tick
  <2>1. ASSUME NEW o \in Waiting PROVE [result[o] EXCEPT !.left = @ - 1] \in Result
    <3>1. result[o] \in Result /\ result[o].left \in 1..Limit
      BY DEF Waiting, Result
    <3>2. result[o].left - 1 \in 0..Limit
      BY <3>1
    <3> QED
      BY <3>1, <3>2 DEF Result
  <2>2. result' \in [OpIds -> Result]
    BY <1>5, <2>1 DEF Tick
  <2> QED
    BY <1>5, <2>2 DEF Tick, StoreTypeOK, storeVars, TargetsOK
<1> QED
  BY <1>1, <1>2, <1>3, <1>4, <1>5

LEMMA HandlerType ==
  ASSUME TypeInv, TestStep \/ TestFails
  PROVE  TypeInv'
<1> USE StoreAssumption, VerifyAssumption
<1> USE DEF TypeInv, TypeOK
<1>1. CASE job.pc = "send" /\ Unstaged /\ Sent /\ log' \in [Calls -> Row]
           /\ job' \in Job /\ job'.op = job.op
  <2>1. job.op \in OpIds
    BY <1>1 DEF TargetsOK, Testing
  <2>2. billed' \in [OpIds -> Nat]
    BY <1>1, <2>1 DEF Sent
  <2> QED
    BY <1>1, <2>1, <2>2 DEF Unstaged, Rest, StoreTypeOK, TargetsOK
<1>2. ASSUME NEW flaw \in AllFlaws, Made(flaw), job.op \in Calls PROVE log' \in [Calls -> Row]
  BY <1>2 DEF Made, Row
<1>3. \A v \in Verdicts, k \in BOOLEAN : Judged(v, k) => job' \in Job /\ job'.op = job.op /\ job'.pc = "stage"
  BY DEF Judged, Job
<1>4. Flaws \subseteq AllFlaws /\ "failed" \in Verdicts
  BY DEF AllFlaws, Verdicts
<1>5. CASE TestSend
  <2>1. PICK flaw \in Flaws : Made(flaw) /\ job' = [job EXCEPT !.pc = "judge", !.call = TRUE]
    BY <1>5 DEF TestSend
  <2>2. job' \in Job /\ job'.op = job.op
    BY <2>1 DEF Job
  <2> QED
    BY <1>5, <1>1, <1>2, <1>4, <2>1, <2>2 DEF TestSend, Job
<1>6. CASE TestUnanswered
  BY <1>6, <1>1, <1>2, <1>3, <1>4 DEF TestUnanswered, Job
<1>7. CASE TestJudge
  <2>1. \E v \in Verdicts : Judged(v, TRUE)
    BY <1>7, EvidenceType DEF TestJudge, Verdicts
  <2>2. job' \in Job /\ job'.op = job.op
    BY <2>1, <1>3
  <2> QED
    BY <1>7, <2>2 DEF TestJudge, Unstaged, Rest, StoreTypeOK, TargetsOK, Testing
<1>8. CASE TestStage
  <2>1. job.op \in OpIds /\ job.verdict \in Verdicts /\ job.call \in BOOLEAN
    BY <1>8 DEF TestStage, TargetsOK, Testing, Job
  <2>2. StoreTypeOK'
    BY <1>8, <2>1, StageType, VerdictStatus DEF TestStage, Rest
  <2>3. \A k \in BOOLEAN : [Blank EXCEPT !.call = k, !.left = IF k THEN Limit ELSE 0] \in Result
    <3>1. 0 \in 0..Limit /\ Limit \in 0..Limit
      OBVIOUS
    <3> QED
      BY <3>1, ConstantTypes DEF Result
  <2>4. result' \in [OpIds -> Result]
    BY <1>8, <2>1, <2>3 DEF TestStage
  <2>5. job' \in Job /\ job'.pc \notin Testing
    BY <1>8, ConstantTypes DEF TestStage, Idle, Testing
  <2> QED
    BY <1>8, <2>2, <2>4, <2>5 DEF TestStage, Rest, NoHistory, TargetsOK
<1>9. CASE TestFails
  BY <1>9, ConstantTypes DEF TestFails, StoreTypeOK, storeVars, TargetsOK, Idle, Testing
<1> QED
  BY <1>5, <1>6, <1>7, <1>8, <1>9 DEF TestStep

(* The first step of a test, and the whole check of a claimed request.     *)
LEMMA BeginType ==
  ASSUME TypeInv, NEW o \in OpIds,
         TestRejected(o) \/ TestBegin(o) \/ ExternalCheck(o) \/ ExternalLost(o)
  PROVE  TypeInv'
<1> USE StoreAssumption, VerifyAssumption
<1> USE DEF TypeInv, TypeOK
<1>0. {"failed", "running", "inconclusive"} \subseteq Statuses \ {"recovery-required"}
  BY DEF Statuses
<1>1. StoreTypeOK'
  BY <1>0, StageType DEF TestRejected, TestBegin, ExternalCheck, ExternalLost, Rest
<1>2. calls' \subseteq OpIds /\ UNCHANGED <<claim, log, ledger, drain, billed, refreshes, losses>>
  BY DEF TestRejected, TestBegin, ExternalCheck, ExternalLost, Rest, NoHistory, Called
<1>3. result' \in [OpIds -> Result]
  <2>1. \A b \in BOOLEAN : [result[o] EXCEPT !.observed = b] \in Result
    BY DEF Result
  <2> QED
    BY <2>1 DEF TestRejected, TestBegin, ExternalCheck, ExternalLost
<1>4. job' \in Job /\ (job'.pc \in Testing => job'.op \in OpIds)
  <2>1. CASE TestBegin(o)
    <3>1. o \in 0..MaxOps
      OBVIOUS
    <3>2. [Idle EXCEPT !.pc = "send", !.op = o] \in Job
      BY <3>1, ConstantTypes DEF Job
    <3>3. [Idle EXCEPT !.pc = "send", !.op = o].op = o
      BY DEF Idle
    <3> QED
      BY <2>1, <3>2, <3>3 DEF TestBegin
  <2>2. CASE UNCHANGED job
    BY <2>2 DEF TargetsOK
  <2> QED
    BY <2>1, <2>2 DEF TestRejected, ExternalCheck, ExternalLost
<1> QED
  BY <1>1, <1>2, <1>3, <1>4 DEF TargetsOK

LEMMA DrainType ==
  ASSUME TypeInv, NEW d \in Drainers, DrainStep(d) \/ DrainFails(d)
  PROVE  TypeInv'
<1> USE StoreAssumption, VerifyAssumption
<1> USE DEF TypeInv, TypeOK
<1>0. drain[d] \in Drain
  OBVIOUS
<1>1. ASSUME NEW to \in Drain, Move(d, to), to.pc \in Polling \cup {"interrupt"} => to.op \in OpIds
      PROVE  /\ drain' \in [Drainers -> Drain]
             /\ \A e \in Drainers : drain'[e].pc \in Polling \cup {"interrupt"} => drain'[e].op \in OpIds
  BY <1>1 DEF Move, TargetsOK
<1>2. Start \in Drain /\ Start.pc \notin Polling \cup {"interrupt"}
  BY ConstantTypes DEF Start, Polling
<1>3. CASE FindInterrupted(d)
  <2>1. PICK to \in Drain : Move(d, to) /\ (to.pc \in Polling \cup {"interrupt"} => to.op \in OpIds)
    <3>1. ASSUME NEW o \in OpIds
          PROVE  LET to == [Start EXCEPT !.pc = "interrupt", !.op = o]
                 IN to \in Drain /\ to.op \in OpIds
      <4>1. o \in 0..MaxOps
        OBVIOUS
      <4> QED
        BY <4>1, ConstantTypes DEF Drain, Start
    <3>2. LET to == [Start EXCEPT !.pc = "poll"] IN to \in Drain /\ to.pc = "poll"
      BY ConstantTypes DEF Drain, Start
    <3> QED
      BY <1>3, <3>1, <3>2 DEF FindInterrupted, Polling
  <2> QED
    BY <1>3, <1>1, <2>1 DEF FindInterrupted, Elsewhere, Rest, NoHistory, StoreTypeOK, TargetsOK
<1>4. CASE InterruptRefused(d)
  BY <1>4, <1>1, <1>2 DEF InterruptRefused, Elsewhere, Rest, NoHistory, StoreTypeOK, TargetsOK
<1>5. CASE Interrupt(d)
  <2>1. drain[d].op \in OpIds
    BY <1>5 DEF Interrupt, TargetsOK
  <2>2. PICK to \in Drain : Move(d, to) /\ (to.pc \in Polling \cup {"interrupt"} => to.op \in OpIds)
    <3>1. [Start EXCEPT !.pc = "poll"] \in Drain
      BY ConstantTypes DEF Drain
    <3> QED
      BY <1>5, <3>1 DEF Interrupt, Start, Polling
  <2>3. "inconclusive" \in Statuses \ {"recovery-required"}
    BY DEF Statuses
  <2>4. StoreTypeOK'
    <3>1. CASE Stage(drain[d].op, "inconclusive")
      BY <1>5, <2>1, <2>3, <3>1, StageType DEF Interrupt, Elsewhere, Rest
    <3>2. CASE UNCHANGED <<ops, recoveryOp>>
      BY <1>5, <3>2 DEF Interrupt, Elsewhere, Rest, StoreTypeOK
    <3> QED
      BY <1>5, <3>1, <3>2 DEF Interrupt
  <2>5. result' \in [OpIds -> Result]
    BY <1>5, <2>1, ConstantTypes DEF Interrupt
  <2> QED
    BY <1>5, <1>1, <2>2, <2>4, <2>5 DEF Interrupt, Elsewhere, Rest, NoHistory, TargetsOK
<1>6. CASE Poll(d)
  <2>1. ASSUME NEW o \in OpIds, NEW pc \in Polling
        PROVE  Read(o, pc) \in Drain /\ Read(o, pc).op \in OpIds
    BY <2>1, EvidenceType DEF Read, Drain, Polling, Result
  <2>2. PICK to \in Drain : Move(d, to) /\ (to.pc \in Polling \cup {"interrupt"} => to.op \in OpIds)
    BY <1>6, <1>2, <2>1 DEF Poll, Polling
  <2> QED
    BY <1>6, <1>1, <2>2 DEF Poll, Elsewhere, Rest, NoHistory, StoreTypeOK, TargetsOK
<1>7. CASE Refresh(d)
  <2>1. drain[d].op \in OpIds
    BY <1>7 DEF Refresh, TargetsOK, Polling
  <2>2. \E v \in Verdicts : Move(d, [drain[d] EXCEPT !.pc = "stage", !.refreshed = TRUE, !.verdict = v])
    BY <1>7, EvidenceType DEF Refresh, Verdicts
  <2>3. PICK to \in Drain : Move(d, to) /\ (to.pc \in Polling \cup {"interrupt"} => to.op \in OpIds)
    <3>1. ASSUME NEW v \in Verdicts
          PROVE  LET to == [drain[d] EXCEPT !.pc = "stage", !.refreshed = TRUE, !.verdict = v]
                 IN to \in Drain /\ to.op \in OpIds
      BY <1>0, <2>1 DEF Drain
    <3> QED
      BY <2>2, <3>1
  <2>4. ledger' \subseteq OpIds /\ refreshes' \in [OpIds -> Nat]
    BY <1>7, <2>1 DEF Refresh, Loadable
  <2> QED
    BY <1>7, <1>1, <2>3, <2>4 DEF Refresh, Elsewhere, Rest, StoreTypeOK, TargetsOK
<1>8. CASE StagePolled(d)
  <2>1. drain[d].op \in OpIds /\ drain[d].verdict \in Verdicts /\ drain[d].refreshed \in BOOLEAN
    BY <1>0, <1>8 DEF StagePolled, TargetsOK, Polling, Drain
  <2>2. \E v \in Verdicts : Stage(drain[d].op, v)
    BY <1>8, <2>1 DEF StagePolled, Verdicts
  <2>3. StoreTypeOK'
    BY <1>8, <2>1, <2>2, StageType, VerdictStatus DEF StagePolled, Elsewhere, Rest
  <2>4. result' \in [OpIds -> Result]
    BY <1>8, <2>1 DEF StagePolled, Result
  <2> QED
    BY <1>8, <1>1, <1>2, <2>3, <2>4 DEF StagePolled, Elsewhere, Rest, NoHistory, TargetsOK
<1>9. CASE DrainFails(d)
  BY <1>9, <1>1, <1>2 DEF DrainFails, StoreTypeOK, storeVars, TargetsOK
<1> QED
  BY <1>3, <1>4, <1>5, <1>6, <1>7, <1>8, <1>9 DEF DrainStep

LEMMA CrashType ==
  ASSUME TypeInv, Crash PROVE TypeInv'
BY StoreAssumption, VerifyAssumption, ConstantTypes DEF Crash, TypeInv, TypeOK, StoreTypeOK, storeVars, TargetsOK, Idle, Start, Testing, Polling

LEMMA StepTypeInv == TypeInv /\ [Next]_vars => TypeInv'
<1> USE StoreAssumption, VerifyAssumption
<1> SUFFICES ASSUME TypeInv, [Next]_vars PROVE TypeInv'
  OBVIOUS
<1>1. CASE UNCHANGED vars
  BY <1>1 DEF vars, TypeInv, TypeOK, StoreTypeOK, TargetsOK
<1>2. CASE \E c \in Codes : Request(c)
  BY <1>2, RequestType
<1> QED
  BY <1>1, <1>2, OutsideType, BeginType, HandlerType, DrainType, CrashType DEF Next

-----------------------------------------------------------------------------
(* Who knows what of a test. *)

USE DEF Testing, Polling, Awaited, Settled, Proven, Routed

LEMMA InitVerifyInv == Init => VerifyInv
<1> USE StoreAssumption, VerifyAssumption
<1> SUFFICES ASSUME Init PROVE VerifyInv
  OBVIOUS
<1>1. /\ \A o \in OpIds : /\ ops[o].status = "none" /\ result[o] = Blank /\ claim[o] = None
                          /\ log[o].state = "none" /\ billed[o] = 0
      /\ job.pc = "idle" /\ \A d \in Drainers : drain[d].pc = "start"
  BY DEF Init, NoOp, Idle, Start
<1>2. RowsOK /\ HandlerRuns
  BY <1>1 DEF RowsOK, HandlerRuns
<1>3. None \notin OpIds
  BY DEF None
<1>4. LogsOK /\ ClaimsOK
  BY <1>1, <1>3 DEF Init, LogsOK, ClaimsOK, Blank
<1>5. EvidenceOK /\ VerdictOK /\ PolledOK /\ BillsOK
  BY <1>1 DEF EvidenceOK, VerdictOK, PolledOK, BillsOK, BilledOnce
<1> QED
  BY <1>2, <1>4, <1>5, InitTypeInv DEF VerifyInv

(* A step that writes no row, sends nothing and at most lets go of a job.  *)
LEMMA QuietStep ==
  ASSUME VerifyInv, TypeInv', UNCHANGED <<ops, lastOp, claim, result, log, billed>>,
         ledger' = ledger \/ ledger' = Loadable,
         job' = job \/ job'.pc \notin Testing,
         \A d \in Drainers : drain'[d] = drain[d] \/ drain'[d].pc \notin Polling
  PROVE  VerifyInv'
<1> USE DEF VerifyInv
<1>0. ledger \subseteq ledger' /\ Loadable' = Loadable
  BY DEF LogsOK, Loadable
<1>1. RowsOK' /\ HandlerRuns' /\ LogsOK' /\ EvidenceOK'
  BY <1>0 DEF RowsOK, HandlerRuns, LogsOK, EvidenceOK
<1>2. VerdictOK'
  BY <1>0 DEF VerdictOK
<1>3. PolledOK'
  BY <1>0 DEF PolledOK
<1>4. BillsOK' /\ ClaimsOK'
  BY DEF BillsOK, ClaimsOK, BilledOnce
<1> QED
  BY <1>1, <1>2, <1>3, <1>4

LEMMA RequestInv ==
  ASSUME VerifyInv, NEW c \in Codes, Request(c)
  PROVE  VerifyInv'
<1> USE StoreAssumption, VerifyAssumption DEF VerifyInv
<1> DEFINE n == lastOp + 1
<1>1. /\ TypeInv' /\ n \in OpIds /\ lastOp' = n
      /\ ops'[n].status = "queued" /\ \A o \in OpIds : o # n => ops'[o] = ops[o]
  BY RequestType DEF TypeInv, TypeOK, StoreTypeOK
<1>2. PICK r \in {None} \cup {k \in Calls : log[k].state = "logged"} : claim' = [claim EXCEPT ![n] = r]
  BY RequestType
<1>3. claim'[n] = r /\ \A o \in OpIds : o # n => claim'[o] = claim[o]
  BY <1>1, <1>2 DEF TypeInv, TypeOK
<1>4. UNCHANGED <<job, log, ledger, result, drain, billed>>
  BY DEF Request
<1>5. n > lastOp /\ ops[n].status = "none" /\ result[n] = Blank
  BY <1>1 DEF RowsOK, TypeInv, TypeOK, StoreTypeOK
<1>6. log[n].state = "none" /\ billed[n] = 0
  BY <1>1, <1>5 DEF LogsOK, BillsOK
<1>7. RowsOK'
  <2>1. \A o \in OpIds : o > lastOp' => o > lastOp /\ o # n
    BY <1>1 DEF TypeInv, TypeOK, StoreTypeOK
  <2> QED
    BY <1>1, <1>4, <1>5, <2>1 DEF RowsOK
<1>8. HandlerRuns'
  BY <1>1, <1>3, <1>4, <1>5, <1>6 DEF HandlerRuns, TypeInv, TargetsOK
<1>9. None \notin OpIds /\ None \notin Calls
  BY DEF None
<1>10. LogsOK'
  BY <1>1, <1>3, <1>4, <1>5, <1>6, <1>9 DEF LogsOK, Blank, Loadable
<1>11. EvidenceOK'
  BY <1>1, <1>4 DEF EvidenceOK
<1>12. VerdictOK'
  BY <1>4 DEF VerdictOK
<1>13. PolledOK'
  BY <1>1, <1>4, <1>5 DEF PolledOK, TypeInv, TargetsOK
<1>14. BillsOK'
  BY <1>1, <1>4, <1>6 DEF BillsOK, BilledOnce
<1>15. ClaimsOK'
  BY <1>1, <1>3, <1>4, <1>5 DEF ClaimsOK, Blank
<1> QED
  BY <1>1, <1>7, <1>8, <1>10, <1>11, <1>12, <1>13, <1>14, <1>15

LEMMA LoggedInv ==
  ASSUME VerifyInv, NEW c \in Calls, Logged(c)
  PROVE  VerifyInv'
<1> USE DEF VerifyInv
<1>1. /\ TypeInv' /\ UNCHANGED <<ops, lastOp, claim, result, job, ledger, drain, billed>>
      /\ log[c].state = "made"
  BY OutsideType DEF Logged, storeVars
<1>2. /\ log'[c].state = "logged" /\ log'[c].flaw = log[c].flaw
      /\ \A k \in Calls : k # c => log'[k] = log[k]
  BY DEF Logged, TypeInv, TypeOK, Row
<1>3. OpIds \subseteq Calls
  OBVIOUS
<1>4. RowsOK' /\ HandlerRuns' /\ BillsOK' /\ ClaimsOK'
  BY <1>1, <1>2, <1>3 DEF RowsOK, HandlerRuns, BillsOK, ClaimsOK, BilledOnce, TypeInv, TargetsOK
<1>5. LogsOK'
  BY <1>1, <1>2, <1>3 DEF LogsOK, Loadable
<1>6. \A k \in OpIds : Routed(k) => Routed(k)'
  BY <1>2, <1>3
<1>7. \A k \in OpIds : Proven(k) => Proven(k)'
  BY <1>1, <1>2, <1>3
<1>8. EvidenceOK' /\ VerdictOK'
  BY <1>1, <1>6, <1>7 DEF EvidenceOK, VerdictOK, TypeInv, TargetsOK
<1>9. PolledOK'
  BY <1>1, <1>2, <1>3, <1>6, <1>7 DEF PolledOK, TypeInv, TargetsOK
<1> QED
  BY <1>1, <1>4, <1>5, <1>8, <1>9

LEMMA TickInv ==
  ASSUME VerifyInv, Tick
  PROVE  VerifyInv'
<1> USE DEF VerifyInv
<1>1. /\ TypeInv' /\ UNCHANGED <<ops, lastOp, claim, log, job, ledger, drain, billed>>
  BY OutsideType DEF Tick, storeVars
<1>2. \A o \in OpIds : /\ result'[o].call = result[o].call
                       /\ result'[o].observed = result[o].observed
                       /\ ops[o].status # "pending" => result'[o] = result[o]
  BY DEF Tick, Waiting, TypeInv, TypeOK, Result
<1>3. RowsOK' /\ HandlerRuns' /\ BillsOK' /\ ClaimsOK'
  BY <1>1, <1>2 DEF RowsOK, HandlerRuns, BillsOK, ClaimsOK, BilledOnce
<1>4. LogsOK' /\ EvidenceOK' /\ VerdictOK'
  BY <1>1, <1>2 DEF LogsOK, EvidenceOK, VerdictOK, Loadable
<1>5. PolledOK'
  BY <1>1, <1>2 DEF PolledOK, TypeInv, TargetsOK
<1> QED
  BY <1>1, <1>3, <1>4, <1>5

LEMMA OutsideInv ==
  ASSUME VerifyInv, \/ \E o \in OpIds : Replay(o) \/ CallRefused(o)
                    \/ OtherTakes \/ OtherReleases \/ Loaded
  PROVE  VerifyInv'
<1>1. TypeInv'
  BY OutsideType DEF VerifyInv
<1>2. UNCHANGED <<ops, lastOp, claim, result, log, billed, drain>>
  BY DEF Replay, CallRefused, OtherTakes, OtherReleases, Loaded, storeVars
<1>3. job' = job \/ job'.pc \notin Testing
  BY DEF Replay, CallRefused, OtherTakes, OtherReleases, Loaded, Idle
<1>4. ledger' = ledger \/ ledger' = Loadable
  BY DEF Replay, CallRefused, OtherTakes, OtherReleases, Loaded
<1> QED
  BY <1>1, <1>2, <1>3, <1>4, QuietStep

(* A queued operation that was asked about: nothing was sent for it yet.   *)
LEMMA StartableFacts ==
  ASSUME VerifyInv, NEW o \in OpIds, Called(o)
  PROVE  /\ ops[o].status = "queued" /\ job.pc \notin Testing
         /\ log[o].state = "none" /\ result[o] = Blank /\ billed[o] = 0
         /\ \A p \in OpIds : claim[p] # o
         /\ \A d \in Drainers : drain[d].pc \in Polling => drain[d].op # o
<1> USE DEF VerifyInv
<1>1. ops[o].status = "queued" /\ job.pc \notin Testing
  BY DEF Called, Startable, Unlocked
<1>2. log[o].state = "none" /\ result[o] = Blank /\ billed[o] = 0
  BY <1>1 DEF LogsOK, RowsOK, BillsOK
<1>3. \A p \in OpIds : claim[p] # o
  BY <1>2 DEF LogsOK
<1>4. \A d \in Drainers : drain[d].pc \in Polling => drain[d].op # o
  BY <1>1 DEF PolledOK
<1> QED
  BY <1>1, <1>2, <1>3, <1>4

(* An operation that ends without a call, or whose test is begun.          *)
LEMMA TakenInv ==
  ASSUME VerifyInv, TypeInv', NEW o \in OpIds, Called(o),
         NEW s \in {"failed", "inconclusive", "running"}, Stage(o, s),
         UNCHANGED <<profile, lastOp, claim, log, ledger, drain, billed>>,
         \/ job' = job /\ s # "running" /\ UNCHANGED result
         \/ job' = [Idle EXCEPT !.pc = "send", !.op = o] /\ s = "running" /\ claim[o] = None
            /\ UNCHANGED result
         \/ /\ job' = job /\ s # "running" /\ claim[o] # None
            /\ \E b \in BOOLEAN :
                 /\ result' = [result EXCEPT ![o].observed = b]
                 /\ b => ~IsWorkers(claim[o])
  PROVE  VerifyInv'
<1> USE DEF VerifyInv
<1>1. s \in Statuses \ {"recovery-required"}
  BY DEF Statuses
<1>2. ops'[o].status = s /\ \A p \in OpIds : p # o => ops'[p] = ops[p]
  BY <1>1, StageType DEF TypeInv, TypeOK
<1>3. /\ ops[o].status = "queued" /\ job.pc \notin Testing
      /\ log[o].state = "none" /\ result[o] = Blank /\ billed[o] = 0
      /\ \A p \in OpIds : claim[p] # o
      /\ \A d \in Drainers : drain[d].pc \in Polling => drain[d].op # o
  BY StartableFacts
<1>4. /\ \A p \in OpIds : p # o => result'[p] = result[p]
      /\ result'[o].call = FALSE
      /\ result'[o].observed => claim[o] # None /\ ~IsWorkers(claim[o])
      /\ s = "running" => result'[o] = Blank
  BY <1>3 DEF TypeInv, TypeOK, Result, Blank
<1>5. job'.pc \in Testing => job'.pc = "send" /\ job'.op = o /\ s = "running" /\ claim[o] = None
  BY <1>3 DEF Idle
<1>6. RowsOK'
  BY <1>2, <1>3, <1>4 DEF RowsOK
<1>7. HandlerRuns'
  BY <1>2, <1>3, <1>5 DEF HandlerRuns
<1>8. LogsOK'
  BY <1>2, <1>3, <1>4 DEF LogsOK, Loadable
<1>9. EvidenceOK'
  BY <1>2, <1>3, <1>4 DEF EvidenceOK
<1>10. VerdictOK'
  BY <1>5 DEF VerdictOK
<1>11. PolledOK'
  BY <1>2, <1>3, <1>4 DEF PolledOK, TypeInv, TargetsOK
<1>12. BillsOK'
  BY <1>2, <1>3, <1>5 DEF BillsOK, BilledOnce
<1>13. ClaimsOK'
  <2> SUFFICES ASSUME NEW p \in OpIds, result'[p].observed, claim[p] \in OpIds
               PROVE  ~result'[claim[p]].call /\ (job'.pc \in Testing => job'.op # claim[p])
    BY DEF ClaimsOK
  <2>1. claim[p] # o
    BY <1>3
  <2>2. CASE p = o
    <3>1. log[claim[o]].state # "none" /\ claim[claim[o]] = None
      BY <2>2 DEF LogsOK
    <3>2. ~result[claim[o]].call
      BY <1>4, <2>2, <3>1 DEF IsWorkers
    <3> QED
      BY <1>4, <1>5, <2>1, <2>2, <3>2
  <2>3. CASE p # o
    BY <1>4, <1>5, <2>1, <2>3 DEF ClaimsOK
  <2> QED
    BY <2>2, <2>3
<1> QED
  BY <1>6, <1>7, <1>8, <1>9, <1>10, <1>11, <1>12, <1>13

LEMMA BeginInv ==
  ASSUME VerifyInv, NEW o \in OpIds,
         TestRejected(o) \/ TestBegin(o) \/ ExternalCheck(o) \/ ExternalLost(o)
  PROVE  VerifyInv'
<1>0. TypeInv' /\ Called(o)
  BY BeginType DEF VerifyInv, TestRejected, TestBegin, ExternalCheck, ExternalLost
<1>1. UNCHANGED <<profile, lastOp, claim, log, ledger, drain, billed>>
  BY DEF TestRejected, TestBegin, ExternalCheck, ExternalLost, Rest, NoHistory
<1>2. CASE TestRejected(o)
  BY <1>0, <1>1, <1>2, TakenInv DEF TestRejected
<1>3. CASE TestBegin(o)
  BY <1>0, <1>1, <1>3, TakenInv DEF TestBegin
<1>4. CASE ExternalCheck(o)
  <2> DEFINE b == log[claim[o]].flaw # "bad" /\ ~IsWorkers(claim[o])
  <2>1. PICK s \in {"failed", "inconclusive"} : Stage(o, s)
    BY <1>4 DEF ExternalCheck
  <2>2. b \in BOOLEAN /\ result' = [result EXCEPT ![o].observed = b] /\ (b => ~IsWorkers(claim[o]))
    BY <1>4 DEF ExternalCheck
  <2> QED
    BY <1>0, <1>1, <1>4, <2>1, <2>2, TakenInv DEF ExternalCheck
<1>5. CASE ExternalLost(o)
  BY <1>0, <1>1, <1>5, TakenInv DEF ExternalLost
<1> QED
  BY <1>2, <1>3, <1>4, <1>5

(* The handler sends the request, or reads what there is of its evidence.  *)
LEMMA SendInv ==
  ASSUME VerifyInv, TestSend \/ TestUnanswered
  PROVE  VerifyInv'
<1> USE DEF VerifyInv
<1>1. TypeInv' /\ job.op \in OpIds
  BY HandlerType DEF TestStep, TestSend, TestUnanswered, TypeInv, TargetsOK
<1>2. /\ UNCHANGED <<ops, lastOp, claim, result, ledger, drain>>
      /\ job'.op = job.op /\ job'.pc \in {"judge", "stage"}
      /\ job'.pc = "stage" => job'.verdict = "failed"
  <2>1. "failed" \in Verdicts
    BY DEF Verdicts
  <2> QED
    BY <2>1 DEF TestSend, TestUnanswered, Judged, Unstaged, Rest, TypeInv, TypeOK, Job
<1>3. /\ billed'[job.op] = billed[job.op] + 1
      /\ \A o \in OpIds : o # job.op => billed'[o] = billed[o]
  BY <1>1 DEF TestSend, TestUnanswered, Sent, TypeInv, TypeOK
<1>4. \A k \in OpIds : k # job.op => log'[k] = log[k]
  <2>1. log' = log \/ \E flaw \in Flaws : Made(flaw)
    BY DEF TestSend, TestUnanswered
  <2>2. OpIds \subseteq Calls
    OBVIOUS
  <2> QED
    BY <2>1, <2>2 DEF Made, TypeInv, TypeOK
<1>5. /\ ops[job.op].status = "running" /\ claim[job.op] = None
      /\ log[job.op].state = "none" /\ billed[job.op] = 0
  BY DEF TestSend, TestUnanswered, HandlerRuns, BillsOK
<1>6. job.op \notin ledger /\ \A p \in OpIds : claim[p] # job.op
  BY <1>1, <1>5 DEF LogsOK, Loadable
<1>7. RowsOK' /\ HandlerRuns'
  BY <1>2, <1>5 DEF RowsOK, HandlerRuns
<1>8. LogsOK'
  BY <1>1, <1>2, <1>4, <1>5, <1>6 DEF LogsOK, Loadable
<1>9. EvidenceOK'
  BY <1>1, <1>2, <1>4, <1>5 DEF EvidenceOK
<1>10. VerdictOK'
  BY <1>2 DEF VerdictOK
<1>11. PolledOK'
  BY <1>1, <1>2, <1>4, <1>5 DEF PolledOK, TypeInv, TargetsOK
<1>12. BillsOK'
  BY <1>1, <1>2, <1>3, <1>5 DEF BillsOK, BilledOnce
<1>13. ClaimsOK'
  BY <1>2, <1>6 DEF ClaimsOK
<1> QED
  BY <1>1, <1>7, <1>8, <1>9, <1>10, <1>11, <1>12, <1>13

LEMMA ProvenEvidence ==
  ASSUME TypeInv, NEW o \in OpIds, Evidence(o) = "verified", Routed(o)
  PROVE  Proven(o)
BY DEF Evidence, TypeInv, TypeOK, Row, AllFlaws

LEMMA JudgeInv ==
  ASSUME VerifyInv, TestJudge
  PROVE  VerifyInv'
<1> USE DEF VerifyInv
<1>1. TypeInv' /\ job.op \in OpIds
  BY HandlerType DEF TestStep, TestJudge, TypeInv, TargetsOK
<1>2. /\ UNCHANGED <<ops, lastOp, claim, result, log, ledger, drain, billed>>
      /\ job'.op = job.op /\ job'.pc = "stage" /\ job'.call = TRUE
      /\ job'.verdict = CASE log[job.op].flaw = "other-route" -> "failed"
                          [] log[job.op].flaw = "no-route" -> "inconclusive"
                          [] OTHER -> Evidence(job.op)
  BY DEF TestJudge, Judged, Unstaged, Rest, TypeInv, TypeOK, Job
<1>3. job'.verdict \in {"pending", "verified"} => Routed(job.op) /\ Evidence(job.op) = job'.verdict
  BY <1>2
<1>4. VerdictOK'
  BY <1>1, <1>2, <1>3, ProvenEvidence DEF VerdictOK
<1>5. HandlerRuns' /\ BillsOK' /\ ClaimsOK'
  BY <1>1, <1>2 DEF TestJudge, HandlerRuns, BillsOK, ClaimsOK, BilledOnce
<1>6. RowsOK' /\ LogsOK' /\ EvidenceOK' /\ PolledOK'
  BY <1>2 DEF RowsOK, LogsOK, EvidenceOK, PolledOK, Loadable
<1> QED
  BY <1>1, <1>4, <1>5, <1>6

LEMMA StageInv ==
  ASSUME VerifyInv, TestStage
  PROVE  VerifyInv'
<1> USE StoreAssumption, VerifyAssumption DEF VerifyInv
<1>1. TypeInv' /\ job.op \in OpIds /\ job.verdict \in Verdicts
  BY HandlerType DEF TestStep, TestStage, TypeInv, TargetsOK, TypeOK, Job
<1>2. /\ UNCHANGED <<lastOp, claim, log, ledger, drain, billed>>
      /\ job'.pc \notin Testing
  BY DEF TestStage, Rest, NoHistory, Idle
<1>3. ops'[job.op].status = job.verdict /\ \A o \in OpIds : o # job.op => ops'[o] = ops[o]
  BY <1>1, StageType, VerdictStatus DEF TestStage, Rest, TypeInv, TypeOK
<1>4. /\ result'[job.op].call = job.call /\ result'[job.op].observed = FALSE
      /\ \A o \in OpIds : o # job.op => result'[o] = result[o]
  BY <1>1 DEF TestStage, TypeInv, TypeOK, Blank
<1>5. ops[job.op].status = "running" /\ claim[job.op] = None
  BY DEF TestStage, HandlerRuns
<1>6. RowsOK' /\ HandlerRuns'
  BY <1>1, <1>2, <1>3, <1>4, <1>5 DEF RowsOK, HandlerRuns, Verdicts
<1>7. LogsOK'
  BY <1>1, <1>2, <1>3, <1>4, <1>5 DEF LogsOK, Loadable, Verdicts
<1>8. EvidenceOK'
  BY <1>1, <1>2, <1>3, <1>4 DEF EvidenceOK, VerdictOK, TestStage
<1>9. VerdictOK'
  BY <1>2 DEF VerdictOK
<1>10. PolledOK'
  <2>1. \A d \in Drainers : drain[d].pc \in Polling => drain[d].op # job.op
    BY <1>5 DEF PolledOK
  <2> QED
    BY <1>2, <1>3, <1>4, <2>1 DEF PolledOK, TypeInv, TargetsOK
<1>11. BillsOK'
  BY <1>1, <1>2, <1>3 DEF BillsOK, BilledOnce, Verdicts
<1>12. ClaimsOK'
  BY <1>1, <1>2, <1>4 DEF ClaimsOK, TestStage
<1> QED
  BY <1>1, <1>6, <1>7, <1>8, <1>9, <1>10, <1>11, <1>12

LEMMA HandlerInv ==
  ASSUME VerifyInv, TestStep \/ TestFails
  PROVE  VerifyInv'
<1>1. CASE TestFails
  <2>1. TypeInv' /\ job'.pc \notin Testing
    BY <1>1, HandlerType DEF VerifyInv, TestFails, Idle
  <2> QED
    BY <1>1, <2>1, QuietStep DEF TestFails, storeVars
<1> QED
  BY <1>1, SendInv, JudgeInv, StageInv DEF TestStep

(* The drain loop.                                                         *)
LEMMA InterruptInv ==
  ASSUME VerifyInv, NEW d \in Drainers, Interrupt(d)
  PROVE  VerifyInv'
<1> USE StoreAssumption, VerifyAssumption DEF VerifyInv
<1> DEFINE o == drain[d].op
<1>1. TypeInv' /\ o \in OpIds
  BY DrainType DEF DrainStep, Interrupt, TypeInv, TargetsOK
<1>2. /\ UNCHANGED <<lastOp, claim, log, ledger, job, billed>>
      /\ job.pc \notin Testing
  BY DEF Interrupt, Elsewhere, Rest, NoHistory, Unlocked
<1>3. drain'[d].pc = "poll" /\ \A e \in Drainers : e # d => drain'[e] = drain[e]
  BY DEF Interrupt, Move, Start, TypeInv, TypeOK
<1>4. CASE ops[o].status # "running"
  <2>1. UNCHANGED <<ops, result>>
    BY <1>4 DEF Interrupt
  <2> QED
    BY <1>1, <1>2, <1>3, <2>1, QuietStep
<1>5. CASE ops[o].status = "running"
  <2>1. "inconclusive" \in Statuses \ {"recovery-required"}
    BY DEF Statuses
  <2>2. ops'[o].status = "inconclusive" /\ \A p \in OpIds : p # o => ops'[p] = ops[p]
    BY <1>1, <1>5, <2>1, StageType DEF Interrupt, Elsewhere, Rest, TypeInv, TypeOK
  <2>3. result'[o] = Blank /\ \A p \in OpIds : p # o => result'[p] = result[p]
    BY <1>1, <1>5 DEF Interrupt, TypeInv, TypeOK
  <2>4. result' = result
    <3>1. \A p \in OpIds : result'[p] = result[p]
      BY <1>1, <1>5, <2>3 DEF RowsOK
    <3> QED
      BY <1>1, <3>1 DEF TypeInv, TypeOK
  <2>5. RowsOK' /\ HandlerRuns'
    BY <1>1, <1>2, <1>5, <2>2, <2>4 DEF RowsOK, HandlerRuns
  <2>6. LogsOK' /\ EvidenceOK' /\ VerdictOK'
    BY <1>1, <1>2, <1>5, <2>2, <2>4 DEF LogsOK, EvidenceOK, VerdictOK, Loadable
  <2>7. PolledOK'
    BY <1>1, <1>2, <1>3, <1>5, <2>2, <2>4 DEF PolledOK, TypeInv, TargetsOK
  <2>8. BillsOK' /\ ClaimsOK'
    BY <1>1, <1>2, <2>2, <2>4 DEF BillsOK, ClaimsOK, BilledOnce
  <2> QED
    BY <1>1, <2>5, <2>6, <2>7, <2>8
<1> QED
  BY <1>4, <1>5

LEMMA PollInv ==
  ASSUME VerifyInv, NEW d \in Drainers, Poll(d)
  PROVE  VerifyInv'
<1> USE DEF VerifyInv
<1>1. TypeInv' /\ UNCHANGED <<ops, lastOp, claim, result, log, ledger, job, billed>>
  BY DrainType DEF DrainStep, Poll, Elsewhere, Rest, NoHistory
<1>2. \A e \in Drainers : e # d => drain'[e] = drain[e]
  BY DEF Poll, Move, TypeInv, TypeOK
<1>3. CASE Move(d, Start)
  <2>1. drain'[d].pc = "start"
    BY <1>3 DEF Move, Start, TypeInv, TypeOK
  <2> QED
    BY <1>1, <1>2, <2>1, QuietStep
<1>4. ASSUME NEW o \in OpIds, Oldest(o, "pending"),
             Move(d, Read(o, IF Wants(o) THEN "refresh" ELSE "stage"))
      PROVE  VerifyInv'
  <2>1. /\ drain'[d].op = o /\ drain'[d].verdict = Evidence(o)
        /\ drain'[d].pc = IF Wants(o) THEN "refresh" ELSE "stage"
    BY <1>4 DEF Move, Read, TypeInv, TypeOK
  <2>2. ops[o].status = "pending" /\ result[o].call /\ Routed(o)
    BY <1>4 DEF Oldest, EvidenceOK
  <2>3. drain'[d].pc = "refresh" => log[o].state = "logged" /\ log[o].flaw \notin {"bad", "no-cost"}
    BY <2>1 DEF Wants, AwaitsLedger, Evidence
  <2>4. Evidence(o) = "verified" => Proven(o)
    BY <2>2, ProvenEvidence
  <2>5. PolledOK'
    BY <1>1, <1>2, <2>1, <2>2, <2>3, <2>4 DEF PolledOK
  <2>6. RowsOK' /\ HandlerRuns' /\ LogsOK' /\ EvidenceOK'
    BY <1>1 DEF RowsOK, HandlerRuns, LogsOK, EvidenceOK, Loadable
  <2>7. VerdictOK' /\ BillsOK' /\ ClaimsOK'
    BY <1>1 DEF VerdictOK, BillsOK, ClaimsOK, BilledOnce
  <2> QED
    BY <1>1, <2>5, <2>6, <2>7
<1> QED
  BY <1>3, <1>4 DEF Poll

LEMMA RefreshStepInv ==
  ASSUME VerifyInv, NEW d \in Drainers, Refresh(d)
  PROVE  VerifyInv'
<1> USE DEF VerifyInv
<1> DEFINE o == drain[d].op
<1>1. TypeInv' /\ UNCHANGED <<ops, lastOp, claim, result, log, job, billed>> /\ o \in OpIds
  BY DrainType DEF DrainStep, Refresh, Elsewhere, Rest, TypeInv, TargetsOK
<1>2. /\ \A e \in Drainers : e # d => drain'[e] = drain[e]
      /\ drain'[d].op = o /\ drain'[d].pc = "stage"
      /\ drain'[d].verdict = IF ledger' = ledger THEN Evidence(o)
                             ELSE IF log[o].flaw = "misfit" THEN "failed" ELSE "verified"
  BY DEF Refresh, Move, TypeInv, TypeOK, Drain
<1>3. ledger \subseteq ledger' /\ ledger' \subseteq Loadable /\ Loadable' = Loadable
      /\ ledger' \in {ledger, Loadable}
  BY <1>1 DEF Refresh, LogsOK, Loadable
<1>4. /\ ops[o].status \in Settled /\ result[o].call /\ Routed(o)
      /\ log[o].state = "logged" /\ log[o].flaw \notin {"bad", "no-cost"}
  BY DEF PolledOK, Refresh
<1>5. drain'[d].verdict = "verified" => Proven(o)'
  <2>1. CASE ledger' = ledger
    BY <1>1, <1>2, <1>4, <2>1, ProvenEvidence
  <2>2. CASE ledger' # ledger
    <3>1. o \in ledger'
      BY <1>1, <1>3, <1>4, <2>2 DEF Loadable
    <3>2. log[o].flaw \in AllFlaws /\ log[o] \in Row
      BY <1>1 DEF TypeInv, TypeOK, Row
    <3> QED
      BY <1>1, <1>2, <1>4, <2>2, <3>1, <3>2 DEF AllFlaws, Row
  <2> QED
    BY <2>1, <2>2
<1>6. PolledOK'
  BY <1>1, <1>2, <1>3, <1>4, <1>5 DEF PolledOK
<1>7. RowsOK' /\ HandlerRuns' /\ BillsOK' /\ ClaimsOK'
  BY <1>1 DEF RowsOK, HandlerRuns, BillsOK, ClaimsOK, BilledOnce
<1>8. LogsOK' /\ EvidenceOK' /\ VerdictOK'
  BY <1>1, <1>3 DEF LogsOK, EvidenceOK, VerdictOK, Loadable
<1> QED
  BY <1>1, <1>6, <1>7, <1>8

LEMMA StagePolledInv ==
  ASSUME VerifyInv, NEW d \in Drainers, StagePolled(d)
  PROVE  VerifyInv'
<1> USE DEF VerifyInv
<1> DEFINE o == drain[d].op
           v == IF drain[d].verdict = "pending" /\ result[o].left = 0
                THEN "inconclusive" ELSE drain[d].verdict
<1>1. /\ TypeInv' /\ UNCHANGED <<lastOp, claim, log, ledger, job, billed>>
      /\ o \in OpIds /\ v \in Verdicts
  <2>1. drain[d].verdict \in Verdicts
    BY DEF TypeInv, TypeOK, Drain
  <2> QED
    BY <2>1, DrainType DEF DrainStep, StagePolled, Elsewhere, Rest, NoHistory, TypeInv, TargetsOK, Verdicts
<1>2. ops'[o].status = v /\ \A p \in OpIds : p # o => ops'[p] = ops[p]
  BY <1>1, StageType, VerdictStatus DEF StagePolled, Elsewhere, Rest, TypeInv, TypeOK
<1>3. /\ result'[o].call = result[o].call /\ result'[o].observed = result[o].observed
      /\ \A p \in OpIds : p # o => result'[p] = result[p]
  BY <1>1 DEF StagePolled, TypeInv, TypeOK, Result
<1>4. drain'[d].pc = "start" /\ \A e \in Drainers : e # d => drain'[e] = drain[e]
  BY DEF StagePolled, Move, Start, TypeInv, TypeOK
<1>5. /\ ops[o].status \in Settled /\ result[o].call /\ Routed(o)
      /\ v = "verified" => Proven(o)
  BY DEF PolledOK, StagePolled
<1>6. v \in Settled
  BY <1>1 DEF Verdicts
<1>7. RowsOK' /\ HandlerRuns'
  <2>1. RowsOK'
    BY <1>1, <1>2, <1>3, <1>5, <1>6 DEF RowsOK
  <2>2. HandlerRuns'
    BY <1>1, <1>2, <1>5 DEF HandlerRuns, TypeInv, TargetsOK
  <2> QED
    BY <2>1, <2>2
<1>8. LogsOK'
  BY <1>1, <1>2, <1>3, <1>6 DEF LogsOK, Loadable
<1>9. EvidenceOK'
  BY <1>1, <1>2, <1>3, <1>5 DEF EvidenceOK
<1>10. VerdictOK' /\ BillsOK'
  BY <1>1, <1>2, <1>6 DEF VerdictOK, BillsOK, BilledOnce
<1>11. PolledOK'
  <2> SUFFICES ASSUME NEW e \in Drainers, e # d, drain[e].pc \in Polling
               PROVE  LET p == drain[e].op IN
                      /\ ops'[p].status \in Settled /\ result'[p].call /\ Routed(p)
                      /\ drain[e].pc = "refresh" => log[p].state = "logged" /\ log[p].flaw \notin {"bad", "no-cost"}
                      /\ drain[e].pc = "stage" /\ drain[e].verdict = "verified" => Proven(p)
    BY <1>1, <1>4 DEF PolledOK
  <2>1. drain[e].op \in OpIds
    BY DEF TypeInv, TargetsOK
  <2> QED
    BY <1>1, <1>2, <1>3, <1>5, <1>6, <2>1 DEF PolledOK
<1>12. ClaimsOK'
  BY <1>1, <1>3 DEF ClaimsOK
<1> QED
  BY <1>1, <1>7, <1>8, <1>9, <1>10, <1>11, <1>12

LEMMA DrainInv ==
  ASSUME VerifyInv, NEW d \in Drainers, DrainStep(d) \/ DrainFails(d)
  PROVE  VerifyInv'
<1>1. CASE FindInterrupted(d) \/ InterruptRefused(d) \/ DrainFails(d)
  <2>1. TypeInv' /\ UNCHANGED <<ops, lastOp, claim, result, log, ledger, job, billed>>
    BY <1>1, DrainType DEF VerifyInv, DrainStep, FindInterrupted, InterruptRefused, DrainFails,
                           Elsewhere, Rest, NoHistory, storeVars
  <2>2. \A e \in Drainers : drain'[e] = drain[e] \/ drain'[e].pc \notin Polling
    <3>1. \E to : Move(d, to) /\ to.pc \notin Polling
      <4>1. Start.pc \notin Polling
        BY DEF Start
      <4>2. [Start EXCEPT !.pc = "poll"].pc \notin Polling
        BY DEF Start
      <4>3. \A o \in OpIds : [Start EXCEPT !.pc = "interrupt", !.op = o].pc \notin Polling
        BY DEF Start
      <4> QED
        BY <1>1, <4>1, <4>2, <4>3 DEF FindInterrupted, InterruptRefused, DrainFails
    <3> QED
      BY <3>1 DEF Move, VerifyInv, TypeInv, TypeOK
  <2> QED
    BY <2>1, <2>2, QuietStep
<1> QED
  BY <1>1, InterruptInv, PollInv, RefreshStepInv, StagePolledInv DEF DrainStep

LEMMA CrashInv ==
  ASSUME VerifyInv, Crash PROVE VerifyInv'
<1>1. TypeInv' /\ UNCHANGED <<ops, lastOp, claim, result, log, ledger, billed>>
  BY CrashType DEF Crash, VerifyInv, storeVars
<1>2. job'.pc \notin Testing
  BY DEF Crash, Idle
<1>3. \A d \in Drainers : drain'[d] = drain[d] \/ drain'[d].pc \notin Polling
  BY DEF Crash, Start, VerifyInv, TypeInv, TypeOK
<1> QED
  BY <1>1, <1>2, <1>3, QuietStep

LEMMA StepVerifyInv == VerifyInv /\ [Next]_vars => VerifyInv'
<1> SUFFICES ASSUME VerifyInv, [Next]_vars PROVE VerifyInv'
  OBVIOUS
<1>1. CASE UNCHANGED vars
  <2>1. TypeInv'
    BY <1>1, StepTypeInv DEF VerifyInv
  <2> QED
    BY <1>1, <2>1, QuietStep DEF vars
<1>2. CASE \E c \in Codes : Request(c)
  BY <1>2, RequestInv
<1>3. CASE \E o \in OpIds : TestRejected(o) \/ TestBegin(o) \/ ExternalCheck(o) \/ ExternalLost(o)
  BY <1>3, BeginInv
<1>4. CASE \E d \in Drainers : DrainStep(d) \/ DrainFails(d)
  BY <1>4, DrainInv
<1>5. CASE \E c \in Calls : Logged(c)
  BY <1>5, LoggedInv
<1> QED
  BY <1>1, <1>2, <1>3, <1>4, <1>5, OutsideInv, TickInv, HandlerInv, CrashInv DEF Next

(* A verdict is about a call of the agent, with all of its evidence: no    *)
(* interleaving of handlers, polls, refreshes and crashes calls a test     *)
(* verified that lacks a part of it, or takes a call of the worker's own   *)
(* for the agent's while a test still answers for it (verify,              *)
(* external_verify and drain in connection_worker.py).                     *)
THEOREM VerdictsAreSupported == Spec => []VerdictsAreTrue
<1>1. VerifyInv => VerdictsAreTrue
  <2> USE StoreAssumption, VerifyAssumption DEF VerifyInv
  <2> SUFFICES ASSUME VerifyInv PROVE VerdictsAreTrue
    OBVIOUS
  <2>1. VerifiedHasEvidence
    BY DEF VerifiedHasEvidence, EvidenceOK
  <2>2. ASSUME NEW o \in OpIds, result[o].observed, claim[o] # 0
        PROVE  ~result[claim[o]].call /\ ops[claim[o]].status \notin {"pending", "verified"}
    <3>1. claim[o] \in OpIds
      BY <2>2 DEF LogsOK, TypeInv, TypeOK
    <3> QED
      BY <2>2, <3>1 DEF ClaimsOK, EvidenceOK
  <2> QED
    BY <2>1, <2>2 DEF VerdictsAreTrue, OwnCallIsKnown
<1> QED
  BY InitVerifyInv, StepVerifyInv, <1>1, PTL DEF Spec

-----------------------------------------------------------------------------
(* The one drain loop of the service.                                      *)

LEMMA InitRefreshInv == Init => RefreshInv
BY StoreAssumption, VerifyAssumption
   DEF Init, RefreshInv, Noted, Start, Blank, NoOp

(* What a step beside the drain does to a row: it never takes a test that  *)
(* waits away from it, nor forgets a refresh that was paid for.            *)
LEMMA BesideDrain ==
  ASSUME TypeInv, TypeInv', RefreshInv, UNCHANGED <<drain, refreshes>>, losses' \in {losses, losses + 1},
         \A o \in OpIds :
           /\ ops[o].status = "pending" =>
                ops'[o].status = "pending" /\ result'[o].refreshed = result[o].refreshed
           /\ ops'[o].status \in Awaited => ops[o].status \in Awaited
           /\ result'[o].refreshed = result[o].refreshed \/ ops[o].status \in Awaited
  PROVE  RefreshInv'
<1> USE StoreAssumption, VerifyAssumption
<1> DEFINE S == drain["serve"]
<1>1. S.pc \in Polling => S.op \in OpIds
  BY DEF TypeInv, TargetsOK
<1>2. \A o \in OpIds : refreshes[o] \in Nat /\ losses \in Nat /\ losses' >= losses
  BY DEF TypeInv, TypeOK
<1>3. \A o \in OpIds : refreshes[o] <= losses' + (IF Noted(o)' THEN 1 ELSE 0)
  <2> SUFFICES ASSUME NEW o \in OpIds
               PROVE  refreshes[o] <= losses' + (IF Noted(o)' THEN 1 ELSE 0)
    OBVIOUS
  <2>1. CASE ops[o].status \in Awaited
    BY <1>2, <2>1 DEF RefreshInv
  <2>2. CASE ops[o].status \notin Awaited
    <3>1. Noted(o)' <=> Noted(o)
      BY <2>2 DEF Noted
    <3> QED
      BY <1>2, <3>1 DEF RefreshInv
  <2> QED
    BY <2>1, <2>2
<1> QED
  BY <1>1, <1>3 DEF RefreshInv

(* The drain stops where it was: a note it had not written yet is lost     *)
(* with one of the losses.                                                 *)
LEMMA DrainLoses ==
  ASSUME TypeInv, RefreshInv, UNCHANGED <<ops, result, refreshes>>,
         drain'["serve"].pc \notin Polling,
         losses' = losses + 1
  PROVE  RefreshInv'
<1> USE StoreAssumption, VerifyAssumption
<1>1. \A o \in OpIds : refreshes[o] \in Nat /\ losses \in Nat
  BY DEF TypeInv, TypeOK
<1>2. \A o \in OpIds : refreshes[o] <= losses + 1
  BY <1>1 DEF RefreshInv
<1>3. \A o \in OpIds : refreshes[o] <= losses' + (IF Noted(o)' THEN 1 ELSE 0)
  BY <1>1, <1>2
<1> QED
  BY <1>3 DEF RefreshInv

(* What the steps beside the drain do to the rows.                         *)
LEMMA RowsBesideDrain ==
  ASSUME VerifyInv, Drainers = {"serve"}, Next,
         ~(\E d \in Drainers : DrainStep(d) \/ DrainFails(d)), ~Crash
  PROVE  /\ UNCHANGED <<drain, refreshes>> /\ losses' \in {losses, losses + 1}
         /\ \A o \in OpIds :
              /\ ops[o].status \in Settled => ops'[o].status = ops[o].status
              /\ ops[o].status = "pending" => result'[o].refreshed = result[o].refreshed
              /\ ops'[o].status \in Awaited => ops[o].status \in Awaited
              /\ result'[o].refreshed = result[o].refreshed \/ ops[o].status \in Awaited
<1> USE StoreAssumption, VerifyAssumption
<1> DEFINE Kept == \A o \in OpIds :
              /\ ops[o].status \in Settled => ops'[o].status = ops[o].status
              /\ ops[o].status = "pending" => result'[o].refreshed = result[o].refreshed
              /\ ops'[o].status \in Awaited => ops[o].status \in Awaited
              /\ result'[o].refreshed = result[o].refreshed \/ ops[o].status \in Awaited
<1>1. ASSUME NEW c \in Codes, Request(c) PROVE Kept
  <2>1. ops[lastOp + 1].status = "none"
    BY <1>1, RequestType DEF VerifyInv, TypeInv, TypeOK, StoreTypeOK, RowsOK
  <2>2. \A o \in OpIds : o # lastOp + 1 => ops'[o] = ops[o]
    BY <1>1, RequestType DEF VerifyInv, TypeInv, TypeOK, StoreTypeOK
  <2>3. result' = result
    BY <1>1 DEF Request
  <2> QED
    BY <2>1, <2>2, <2>3
<1>2. ASSUME NEW o \in OpIds, TestRejected(o) \/ TestBegin(o) \/ ExternalCheck(o) \/ ExternalLost(o)
      PROVE  Kept
  <2>1. ops[o].status = "queued"
    BY <1>2, StartableFacts DEF TestRejected, TestBegin, ExternalCheck, ExternalLost
  <2>2. PICK s \in {"failed", "inconclusive", "running"} : Stage(o, s)
    BY <1>2 DEF TestRejected, TestBegin, ExternalCheck, ExternalLost
  <2>3. s \in Statuses \ {"recovery-required"}
    BY DEF Statuses
  <2>4. UNCHANGED <<profile, lastOp>>
    BY <1>2 DEF TestRejected, TestBegin, ExternalCheck, ExternalLost, Rest
  <2>5. \A p \in OpIds : p # o => ops'[p] = ops[p]
    BY <2>2, <2>3, <2>4, StageType DEF VerifyInv, TypeInv, TypeOK
  <2>6. \A p \in OpIds : p # o => result'[p] = result[p]
    BY <1>2 DEF TestRejected, TestBegin, ExternalCheck, ExternalLost, VerifyInv, TypeInv, TypeOK
  <2> QED
    BY <2>1, <2>5, <2>6
<1>3. ASSUME TestStage PROVE Kept
  <2>1. job.op \in OpIds /\ job.verdict \in Verdicts /\ ops[job.op].status = "running"
    BY <1>3 DEF TestStage, VerifyInv, TypeInv, TargetsOK, TypeOK, Job, HandlerRuns
  <2>2. \A p \in OpIds : p # job.op => ops'[p] = ops[p]
    BY <1>3, <2>1, StageType, VerdictStatus DEF TestStage, Rest, VerifyInv, TypeInv, TypeOK
  <2>3. \A p \in OpIds : p # job.op => result'[p] = result[p]
    BY <1>3 DEF TestStage, VerifyInv, TypeInv, TypeOK
  <2> QED
    BY <2>1, <2>2, <2>3
<1>4. ASSUME Tick PROVE Kept
  <2>1. \A o \in OpIds : result'[o].refreshed = result[o].refreshed
    BY <1>4 DEF Tick, VerifyInv, TypeInv, TypeOK, Result
  <2> QED
    BY <1>4, <2>1 DEF Tick, storeVars
<1>5. ASSUME UNCHANGED <<ops, result>> PROVE Kept
  BY <1>5
<1>6. Kept
  BY <1>1, <1>2, <1>3, <1>4, <1>5
     DEF Next, Replay, CallRefused, OtherTakes, OtherReleases, Logged, Loaded, storeVars,
         TestStep, TestSend, TestUnanswered, TestJudge, Unstaged, TestFails
<1>7. UNCHANGED <<drain, refreshes>> /\ losses' \in {losses, losses + 1}
  BY DEF Next, Request, Replay, CallRefused, OtherTakes, OtherReleases, Logged, Loaded, Tick,
         TestRejected, TestBegin, ExternalCheck, ExternalLost, NoHistory,
         TestStep, TestSend, TestUnanswered, TestJudge, TestStage, Unstaged, TestFails
<1> QED
  BY <1>6, <1>7

LEMMA MoveTo ==
  ASSUME TypeInv, NEW to, Move("serve", to)
  PROVE  drain'["serve"] = to
BY VerifyAssumption DEF Move, TypeInv, TypeOK

LEMMA StepRefreshInv ==
  ASSUME Drainers = {"serve"}, VerifyInv, RefreshInv, [Next]_vars
  PROVE  RefreshInv'
<1> USE StoreAssumption, VerifyAssumption
<1> DEFINE S == drain["serve"]
<1>0. TypeInv /\ TypeInv'
  BY StepTypeInv DEF VerifyInv
<1>1. \A o \in OpIds : refreshes[o] \in Nat /\ losses \in Nat
  BY <1>0 DEF TypeInv, TypeOK
<1>2. CASE UNCHANGED vars
  BY <1>0, <1>2, BesideDrain DEF vars
<1>3. CASE Crash
  <2>1. drain'["serve"].pc \notin Polling
    BY <1>0, <1>3 DEF Crash, Start, TypeInv, TypeOK
  <2> QED
    BY <1>0, <1>3, <2>1, DrainLoses DEF Crash, storeVars
<1>4. CASE DrainFails("serve")
  <2>1. drain'["serve"].pc \notin Polling
    BY <1>0, <1>4 DEF DrainFails, Move, Start, TypeInv, TypeOK
  <2> QED
    BY <1>0, <1>4, <2>1, DrainLoses DEF DrainFails, storeVars
<1>5. CASE DrainStep("serve") /\ S.pc # "stage" /\ drain'["serve"].pc \notin Polling
  <2>1. UNCHANGED <<refreshes, losses>>
    <3>1. ~Refresh("serve")
      <4> SUFFICES ASSUME Refresh("serve") PROVE FALSE
        OBVIOUS
      <4>1. S \in Drain
        BY <1>0 DEF TypeInv, TypeOK
      <4>2. \E v : Move("serve", [S EXCEPT !.pc = "stage", !.refreshed = TRUE, !.verdict = v])
        BY DEF Refresh
      <4>3. \A v : [S EXCEPT !.pc = "stage", !.refreshed = TRUE, !.verdict = v].pc = "stage"
        BY <4>1 DEF Drain
      <4> QED
        BY <1>0, <1>5, <4>2, <4>3, MoveTo
    <3> QED
      BY <1>5, <3>1 DEF DrainStep, FindInterrupted, InterruptRefused, Interrupt, Poll, StagePolled,
                        Elsewhere, NoHistory
  <2>2. \A o \in OpIds : /\ result'[o].refreshed = result[o].refreshed \/ ops[o].status \in Awaited
                         /\ ops'[o].status \in Awaited => ops[o].status \in Awaited
    <3>1. CASE UNCHANGED <<ops, result>>
      BY <3>1
    <3>2. CASE Interrupt("serve") /\ ops[S.op].status = "running"
      <4>1. S.op \in OpIds
        BY <1>0, <3>2 DEF Interrupt, TypeInv, TargetsOK
      <4>2. "inconclusive" \in Statuses \ {"recovery-required"}
        BY DEF Statuses
      <4>3. \A p \in OpIds : p # S.op => ops'[p] = ops[p]
        BY <1>0, <3>2, <4>1, <4>2, StageType DEF Interrupt, Elsewhere, Rest, TypeInv, TypeOK
      <4>4. \A p \in OpIds : p # S.op => result'[p] = result[p]
        BY <1>0, <3>2 DEF Interrupt, TypeInv, TypeOK
      <4> QED
        BY <3>2, <4>3, <4>4
    <3> QED
      BY <1>5, <3>1, <3>2 DEF DrainStep, FindInterrupted, InterruptRefused, Interrupt, Poll, Refresh,
                              StagePolled
  <2>3. \A o \in OpIds : ops[o].status \notin Awaited => (Noted(o)' <=> Noted(o))
    BY <1>5, <2>2 DEF Noted
  <2>4. \A o \in OpIds : refreshes'[o] <= losses' + (IF Noted(o)' THEN 1 ELSE 0)
    <3> SUFFICES ASSUME NEW o \in OpIds PROVE refreshes[o] <= losses + (IF Noted(o)' THEN 1 ELSE 0)
      BY <2>1
    <3>1. CASE ops[o].status \in Awaited
      BY <1>1, <3>1 DEF RefreshInv
    <3>2. CASE ops[o].status \notin Awaited
      BY <1>1, <2>3, <3>2 DEF RefreshInv
    <3> QED
      BY <3>1, <3>2
  <2> QED
    BY <1>5, <2>1, <2>2, <2>4 DEF RefreshInv
<1>6. CASE Poll("serve") /\ drain'["serve"].pc \in Polling
  <2>1. PICK o \in OpIds : Oldest(o, "pending") /\ Move("serve", Read(o, IF Wants(o) THEN "refresh" ELSE "stage"))
    <3>1. ~Move("serve", Start)
      BY <1>0, <1>6 DEF Move, Start, TypeInv, TypeOK
    <3> QED
      BY <1>6, <3>1 DEF Poll
  <2>2. /\ drain'["serve"].op = o /\ drain'["serve"].refreshed = result[o].refreshed
        /\ drain'["serve"].pc = "refresh" => ~result[o].refreshed
    BY <1>0, <2>1 DEF Move, Read, Wants, TypeInv, TypeOK
  <2>3. UNCHANGED <<ops, result, refreshes, losses>> /\ S.pc = "poll"
    BY <1>6 DEF Poll, Elsewhere, NoHistory
  <2>4. \A p \in OpIds : Noted(p) => Noted(p)'
    BY <2>3 DEF Noted
  <2>5. \A p \in OpIds : refreshes'[p] <= losses' + (IF Noted(p)' THEN 1 ELSE 0)
    <3> SUFFICES ASSUME NEW p \in OpIds PROVE refreshes[p] <= losses + (IF Noted(p)' THEN 1 ELSE 0)
      BY <2>3
    <3> QED
      BY <1>1, <2>4 DEF RefreshInv
  <2> QED
    BY <2>1, <2>2, <2>3, <2>5 DEF RefreshInv, Oldest
<1>7. CASE Refresh("serve")
  <2> DEFINE o == S.op
  <2>1. /\ UNCHANGED <<ops, result, losses>> /\ o \in OpIds /\ S.pc = "refresh"
        /\ refreshes' = [refreshes EXCEPT ![o] = @ + 1]
    BY <1>0, <1>7 DEF Refresh, Elsewhere, TypeInv, TargetsOK
  <2>2. /\ drain'["serve"].pc = "stage" /\ drain'["serve"].op = o /\ drain'["serve"].refreshed = TRUE
    BY <1>0, <1>7 DEF Refresh, Move, TypeInv, TypeOK, Drain
  <2>3. ops[o].status = "pending" /\ ~result[o].refreshed
    BY <2>1 DEF RefreshInv
  <2>4. ~Noted(o) /\ Noted(o)' /\ \A p \in OpIds : p # o => (Noted(p)' <=> Noted(p))
    BY <2>1, <2>2, <2>3 DEF Noted
  <2>5. \A p \in OpIds : refreshes'[p] <= losses' + (IF Noted(p)' THEN 1 ELSE 0)
    <3> SUFFICES ASSUME NEW p \in OpIds PROVE refreshes'[p] <= losses + (IF Noted(p)' THEN 1 ELSE 0)
      BY <2>1
    <3>1. CASE p = o
      <4>1. refreshes[o] <= losses + 0 /\ refreshes'[o] = refreshes[o] + 1 /\ refreshes[o] \in Nat
        BY <1>0, <2>1, <2>4 DEF RefreshInv, TypeInv, TypeOK
      <4> QED
        <5>1. refreshes'[o] <= losses + 1
          BY <1>1, <4>1
        <5> QED
          BY <2>2, <3>1, <5>1 DEF Noted
    <3>2. CASE p # o
      <4>1. refreshes'[p] = refreshes[p]
        BY <1>0, <2>1, <3>2 DEF TypeInv, TypeOK
      <4> QED
        BY <2>4, <3>2, <4>1 DEF RefreshInv
    <3> QED
      BY <3>1, <3>2
  <2>6. \A p \in OpIds : ops[p].status \in Awaited => refreshes'[p] = 0
    BY <1>0, <2>1, <2>3 DEF RefreshInv, TypeInv, TypeOK
  <2> QED
    BY <2>1, <2>2, <2>3, <2>5, <2>6 DEF RefreshInv
<1>8. CASE StagePolled("serve")
  <2> DEFINE o == S.op
  <2>1. UNCHANGED <<refreshes, losses>> /\ o \in OpIds /\ S.pc = "stage"
    BY <1>0, <1>8 DEF StagePolled, Elsewhere, NoHistory, TypeInv, TargetsOK
  <2>2. drain'["serve"].pc = "start"
    BY <1>0, <1>8 DEF StagePolled, Move, Start, TypeInv, TypeOK
  <2>3. \E v \in Verdicts : Stage(o, v)
    <3>1. S.verdict \in Verdicts
      BY <1>0 DEF TypeInv, TypeOK, Drain
    <3> QED
      BY <1>8, <3>1 DEF StagePolled, Verdicts
  <2>4. ops'[o].status \in Verdicts /\ \A p \in OpIds : p # o => ops'[p] = ops[p]
    BY <1>0, <1>8, <2>1, <2>3, StageType, VerdictStatus DEF StagePolled, Elsewhere, Rest, TypeInv, TypeOK
  <2>5. result'[o].refreshed = S.refreshed /\ \A p \in OpIds : p # o => result'[p] = result[p]
    BY <1>0, <1>8, <2>1 DEF StagePolled, TypeInv, TypeOK, Result
  <2>6. \A p \in OpIds : Noted(p) => Noted(p)'
    BY <2>1, <2>5 DEF Noted, RefreshInv
  <2>7. \A p \in OpIds : refreshes'[p] <= losses' + (IF Noted(p)' THEN 1 ELSE 0)
    <3> SUFFICES ASSUME NEW p \in OpIds PROVE refreshes[p] <= losses + (IF Noted(p)' THEN 1 ELSE 0)
      BY <2>1
    <3> QED
      BY <1>1, <2>6 DEF RefreshInv
  <2> QED
    BY <2>1, <2>2, <2>4, <2>7 DEF RefreshInv, Verdicts
<1>9. CASE Next /\ ~(\E d \in Drainers : DrainStep(d) \/ DrainFails(d)) /\ ~Crash
  BY <1>0, <1>9, RowsBesideDrain, BesideDrain
<1>10. ASSUME DrainStep("serve"), S.pc # "stage", drain'["serve"].pc \in Polling
       PROVE  Poll("serve") \/ Refresh("serve")
  <2>1. \A o \in OpIds : [Start EXCEPT !.pc = "interrupt", !.op = o].pc = "interrupt"
    BY DEF Start
  <2>2. [Start EXCEPT !.pc = "poll"].pc = "poll" /\ Start.pc = "start"
    BY DEF Start
  <2>3. ~FindInterrupted("serve")
    BY <1>0, <1>10, <2>1, <2>2, MoveTo DEF FindInterrupted
  <2>4. ~InterruptRefused("serve") /\ ~Interrupt("serve")
    BY <1>0, <1>10, <2>2, MoveTo DEF InterruptRefused, Interrupt
  <2> QED
    BY <1>10, <2>3, <2>4 DEF DrainStep, StagePolled
<1>11. ASSUME DrainStep("serve"), S.pc = "stage" PROVE StagePolled("serve")
  BY <1>11 DEF DrainStep, FindInterrupted, InterruptRefused, Interrupt, Poll, Refresh
<1> QED
  BY <1>2, <1>3, <1>4, <1>5, <1>6, <1>7, <1>8, <1>9, <1>10, <1>11

(* An operation costs one request, however often its call is repeated, its *)
(* handler dies or the drain comes by; and the ledger is refreshed once    *)
(* for it, but for the notes that are lost with a step (verify: "Never     *)
(* duplicate a billable test"; drain: "Refresh once").                     *)
THEOREM EverythingIsDoneOnce ==
  ASSUME Drainers = {"serve"}
  PROVE  Spec => []DoneOnce
<1>1. VerifyInv /\ RefreshInv => DoneOnce
  <2> USE StoreAssumption, VerifyAssumption
  <2> SUFFICES ASSUME VerifyInv, RefreshInv PROVE DoneOnce
    OBVIOUS
  <2>1. RefreshedOnce
    BY DEF VerifyInv, RefreshInv, RefreshedOnce, TypeInv, TypeOK
  <2> QED
    BY <2>1 DEF VerifyInv, TypeInv, BillsOK, DoneOnce
<1>2. VerifyInv /\ RefreshInv /\ [Next]_vars => RefreshInv'
  BY StepRefreshInv
<1> QED
  BY InitVerifyInv, StepVerifyInv, InitRefreshInv, <1>1, <1>2, PTL DEF Spec

(* What has ended stays as it ended: the unconditional write of the drain  *)
(* only reaches a test that still waits, and an interrupted one is not     *)
(* declared so after its handler has finished it.                          *)
THEOREM EndedTestsStay ==
  ASSUME Drainers = {"serve"}
  PROVE  Spec => EndedStaysEnded
<1>1. ASSUME VerifyInv, RefreshInv, [Next]_vars
      PROVE  [\A o \in OpIds : Ended(o) => ops'[o].status = ops[o].status]_vars
  <2> USE StoreAssumption, VerifyAssumption
  <2> SUFFICES ASSUME NEW o \in OpIds, Ended(o), Next PROVE ops'[o].status = ops[o].status
    BY <1>1
  <2>0. TypeInv /\ ops[o].status \in Settled /\ ops[o].status # "pending"
    BY <1>1 DEF VerifyInv, Ended
  <2>1. CASE Crash \/ DrainFails("serve")
    BY <2>1 DEF Crash, DrainFails, storeVars
  <2>2. CASE Interrupt("serve")
    <3>1. drain["serve"].op \in OpIds /\ "inconclusive" \in Statuses \ {"recovery-required"}
      BY <1>1, <2>0, <2>2 DEF Interrupt, TypeInv, TargetsOK, Statuses
    <3>2. CASE ops[drain["serve"].op].status = "running"
      <4>1. \A p \in OpIds : p # drain["serve"].op => ops'[p] = ops[p]
        BY <2>0, <2>2, <3>1, <3>2, StageType DEF Interrupt, Elsewhere, Rest, TypeInv, TypeOK
      <4> QED
        BY <2>0, <3>2, <4>1
    <3>3. CASE ops[drain["serve"].op].status # "running"
      BY <2>2, <3>3 DEF Interrupt
    <3> QED
      BY <3>2, <3>3
  <2>3. CASE StagePolled("serve")
    <3>1. drain["serve"].op \in OpIds /\ drain["serve"].verdict \in Verdicts
      BY <2>0, <2>3 DEF StagePolled, TypeInv, TargetsOK, TypeOK, Drain
    <3>2. \E v \in Verdicts : Stage(drain["serve"].op, v)
      BY <2>3, <3>1 DEF StagePolled, Verdicts
    <3>3. \A p \in OpIds : p # drain["serve"].op => ops'[p] = ops[p]
      BY <2>0, <2>3, <3>1, <3>2, StageType, VerdictStatus
         DEF StagePolled, Elsewhere, Rest, TypeInv, TypeOK
    <3>4. ops[drain["serve"].op].status = "pending"
      BY <1>1, <2>3 DEF StagePolled, RefreshInv
    <3> QED
      BY <2>0, <3>3, <3>4
  <2>4. CASE FindInterrupted("serve") \/ InterruptRefused("serve") \/ Poll("serve") \/ Refresh("serve")
    BY <2>4 DEF FindInterrupted, InterruptRefused, Poll, Refresh
  <2>5. CASE ~(\E d \in Drainers : DrainStep(d) \/ DrainFails(d)) /\ ~Crash
    BY <1>1, <2>0, <2>5, RowsBesideDrain
  <2> QED
    BY <2>1, <2>2, <2>3, <2>4, <2>5 DEF DrainStep
<1>2. VerifyInv /\ RefreshInv /\ [Next]_vars => RefreshInv'
  BY StepRefreshInv
<1>3. VerifyInv /\ RefreshInv /\ [Next]_vars =>
        [\A o \in OpIds : Ended(o) => ops'[o].status = ops[o].status]_vars
  BY <1>1
<1> QED
  BY InitVerifyInv, StepVerifyInv, InitRefreshInv, <1>2, <1>3, PTL DEF Spec, EndedStaysEnded
=============================================================================
