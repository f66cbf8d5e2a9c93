------------------------- MODULE ConnectionKeys_proofs -------------------------
(***************************************************************************)
(* Theorems about ConnectionKeys, for every set of agents and budgets and  *)
(* every bound on operations, keys, edits at the gateway and crashes.      *)
(***************************************************************************)
EXTENDS ConnectionKeys, TLAPS

Untouched == {"none", "queued"}
Reclaims  == {"running", "recovery-required"}
Answered  == {"issued", "deliver"}

(* What the operations name: a revocation some keys, a budget one of them. *)
PayloadOK ==
    /\ \A o \in OpIds : o > lastOp => ops[o].status = "none" /\ ops[o].kind = "apply"
    /\ \A o \in OpIds : ops[o].kind = "revoke" => payload[o].keys # {}
    /\ \A o \in OpIds : ops[o].kind = "budget" => \E k \in OpIds : payload[o].keys = {k}

(* The job that holds the lock, by its mode: which operation it works on,  *)
(* what that operation is, and which steps it can be at.                   *)
IssueJob ==
    job.mode = "issue" =>
        /\ job.pc \in IssueSteps /\ job.op \in OpIds /\ job.key = job.op
        /\ ops[job.op].kind = "issue"
        /\ ops[job.op].status = IF job.pc = "deliver" THEN "issued" ELSE "running"
ReclaimJob ==
    job.mode = "reclaim" =>
        /\ job.pc \in DeleteSteps \cup {"stageFailed"} /\ job.op \in OpIds
        /\ job.key = job.op /\ job.todo = {}
        /\ ops[job.op].kind = "issue" /\ ops[job.op].status \in Reclaims
RevokeJob ==
    job.mode = "revoke" =>
        /\ job.pc \in DeleteSteps \cup {"stageRevoked"} /\ job.op \in OpIds
        /\ job.key \in payload[job.op].keys /\ job.todo \subseteq payload[job.op].keys
        /\ ops[job.op].kind = "revoke"
BudgetJob ==
    job.mode = "budget" =>
        /\ job.pc \in BudgetSteps /\ job.op \in OpIds
        /\ job.target = job.op /\ payload[job.op].keys = {job.key}
        /\ ops[job.op].kind = "budget" /\ ops[job.op].status # "updated"
RecoverJob ==
    job.mode = "recover" =>
        /\ job.op \in OpIds /\ ops[job.op].kind = "recover" /\ job.target \in OpIds
        /\ \/ /\ ops[job.target].kind = "issue"
              /\ job.pc \in DeleteSteps \cup {"clear", "closeTarget", "closeSelf"}
              /\ job.key = job.target /\ job.todo = {}
              /\ ops[job.target].status \in {"recovery-required", "failed"}
           \/ /\ ops[job.target].kind = "revoke"
              /\ job.pc \in DeleteSteps \cup {"clear", "closeTarget", "closeSelf"}
              /\ job.key \in payload[job.target].keys
              /\ job.todo \subseteq payload[job.target].keys
           \/ /\ ops[job.target].kind = "budget"
              /\ job.pc \in (BudgetSteps \ {"start", "again", "updated"})
                              \cup {"clear", "closeTarget", "closeSelf"}
              /\ payload[job.target].keys = {job.key}
JobOK ==
    /\ job.mode = "none" => job.pc = "idle"
    /\ IssueJob /\ ReclaimJob /\ RevokeJob /\ BudgetJob /\ RecoverJob

(* A key without an issuance that was begun does not exist, and one that   *)
(* was delivered has been issued for good.                                 *)
RowsOK ==
    /\ \A k \in OpIds : ops[k].kind # "issue" \/ ops[k].status \in Untouched =>
         ~gkey[k].live /\ keyRow[k].status = "none"
    /\ \A k \in received :
         ops[k].kind = "issue" /\ ops[k].status = "issued" /\ keyRow[k].status # "none"
    /\ recoveryOp # 0 =>
         /\ ops[recoveryOp].status \notin Untouched
         /\ ops[recoveryOp].kind = "issue" =>
              ops[recoveryOp].status \in {"recovery-required", "failed"}
    /\ \A o \in OpIds : ops[o].kind = "budget" /\ ops[o].status \notin Untouched =>
         \A k \in payload[o].keys : keyRow[k].status # "none"

(* What a job knows of its key and the key's row.                          *)
ProgressOK ==
    /\ job.mode = "issue" => job.op \notin received
    /\ job.pc \in {"probe", "generate", "readback", "insert"} => keyRow[job.key].status = "none"
    /\ job.pc \in Answered => keyRow[job.key].status # "none"
    /\ job.pc \in {"row", "stageFailed"} => ~gkey[job.key].live
    /\ job.pc \in {"clear", "closeTarget"} /\ ops[job.target].kind = "issue" =>
         ~gkey[job.target].live
    /\ job.mode = "budget" => keyRow[job.key].status # "none"
    /\ job.mode = "recover" => ops[job.target].status \notin Untouched
    /\ job.mode = "revoke" =>
         \A k \in payload[job.op].keys :
           /\ keyRow[k].status # "none"
           /\ (k # job.key /\ k \notin job.todo) \/ job.pc = "stageRevoked"
                => keyRow[k].status = "revoked"

(* The quota log of a key: which operations set its budget.                *)
Marks(meta, t) == \E i \in DOMAIN meta.log : meta.log[i] = t
LogOf(meta, k) ==
    /\ \A i \in DOMAIN meta.log : payload[meta.log[i]].keys = {k} /\ ops[meta.log[i]].kind = "budget"
    /\ \A i, j \in DOMAIN meta.log : meta.log[i] = meta.log[j] => i = j
LogsOK == \A k \in OpIds : LogOf(gkey[k].meta, k)

(* The metadata a budget job is about to write, or has written.            *)
WantOK ==
    /\ job.pc \in {"start", "again", "update"} => LogOf(job.want, job.key)
    /\ job.pc \in {"start", "again"} => ~Marks(job.want, job.target)
    /\ job.pc = "update" =>
         job.want.log # <<>> /\ job.want.log[Len(job.want.log)] = job.target
    /\ job.pc \in {"update", "check"} => job.want.quota = Wanted /\ Marks(job.want, job.target)

(* While nobody edits: an operation that is updated left its mark.         *)
UpdatedMarked ==
    edits = 0 =>
      \A o, k \in OpIds :
        ops[o].kind = "budget" /\ ops[o].status = "updated" /\ payload[o].keys = {k}
          /\ gkey[k].live => Marks(gkey[k].meta, o)

(* While nobody edits: what a job writes is not updated yet and keeps the  *)
(* marks there are; what it has written is there, at the gateway and then  *)
(* in the row.                                                             *)
Closing == job.pc \in {"clear", "closeTarget"} /\ ops[job.target].kind = "budget"
WrittenOK ==
    edits = 0 =>
        /\ job.pc = "update" => ops[job.target].status # "updated"
        /\ job.pc = "update" /\ gkey[job.key].live =>
             \A i \in DOMAIN gkey[job.key].meta.log : Marks(job.want, gkey[job.key].meta.log[i])
        /\ (job.pc \in {"budgetRow", "updated"} \/ Closing) /\ gkey[job.key].live =>
               /\ gkey[job.key].meta.quota = Wanted
               /\ Marks(gkey[job.key].meta, job.target)
        /\ job.pc = "updated" \/ Closing => keyRow[job.key].budget = Wanted
        /\ job.pc \in {"readback", "insert"} /\ gkey[job.key].live =>
             gkey[job.key].meta.quota = payload[job.op].budget

(* The tables and the gateway; and the job with what it knows of them.     *)
Books == /\ PayloadOK /\ RowsOK /\ LiveKeysAccounted /\ RevokedIsGone
         /\ LogsOK /\ UpdatedMarked /\ BudgetAgrees
Plan  == JobOK /\ ProgressOK /\ WantOK /\ WrittenOK

KeysInv == TypeOK /\ Books /\ Plan

-----------------------------------------------------------------------------
(* Types. *)

USE DEF OpIds

LEMMA ConstantTypes ==
    /\ NoOp \in OpRow
    /\ NoBudget \in Budgets
    /\ NoMeta \in Metadata
    /\ NoKey \in GatewayKeys
    /\ Idle \in Jobs
<1> USE StoreAssumption, KeysAssumption
<1>1. NoOp \in OpRow
  BY DEF NoOp, OpRow, Kinds, Statuses, Revs
<1>2. NoBudget \in Budgets
  BY DEF NoBudget
<1>3. NoMeta \in Metadata
  BY <1>2 DEF NoMeta, Metadata
<1>4. NoKey \in GatewayKeys
  BY <1>3 DEF NoKey, GatewayKeys
<1>5. Idle \in Jobs
  BY <1>3 DEF Idle, Jobs, Modes, Steps
<1> QED
  BY <1>1, <1>2, <1>3, <1>4, <1>5

LEMMA InitType == Init => TypeOK
<1> USE StoreAssumption, KeysAssumption, ConstantTypes
<1> SUFFICES ASSUME Init PROVE TypeOK
  OBVIOUS
<1>1. StoreTypeOK
  BY DEF Init, StoreInit, StoreTypeOK, ProfileRow, Revs
<1>2. payload \in [OpIds -> Payloads] /\ gkey \in [OpIds -> GatewayKeys]
      /\ keyRow \in [OpIds -> KeyRows]
  BY DEF Init, Payloads, KeyRows
<1>3. calls \subseteq OpIds /\ job \in Jobs /\ received \subseteq OpIds /\ edits \in Nat
  BY DEF Init
<1>4. left \in [kinds : SUBSET Kinds, budgets : SUBSET Budgets, keys : Nat, edits : Nat,
                crashes : Nat]
  BY DEF Init, Kinds
<1> QED
  BY <1>1, <1>2, <1>3, <1>4 DEF TypeOK

(* A transaction that stages an operation, as the rest of the proofs use it*)
LEMMA StageShape ==
    ASSUME StoreTypeOK, NEW o \in OpIds, NEW s \in Statuses, Stage(o, s)
    PROVE  /\ ops' \in [OpIds -> OpRow] /\ recoveryOp' \in 0..MaxOps
           /\ ops' = [p \in OpIds |-> IF p = o THEN [ops[p] EXCEPT !.status = s] ELSE ops[p]]
           /\ \A p \in OpIds : ops'[p].kind = ops[p].kind /\ ops'[p].code = ops[p].code
           /\ \A p \in OpIds : ops'[p].status = IF p = o THEN s ELSE ops[p].status
           /\ recoveryOp' = IF s = "recovery-required" THEN o ELSE recoveryOp
<1> USE StoreAssumption
<1>1. \A p \in OpIds : [ops[p] EXCEPT !.status = s] \in OpRow
  BY DEF StoreTypeOK, OpRow
<1>2. ops' = [p \in OpIds |-> IF p = o THEN [ops[p] EXCEPT !.status = s] ELSE ops[p]]
  BY DEF Stage, StoreTypeOK
<1>3. ops' \in [OpIds -> OpRow]
  BY <1>1, <1>2 DEF StoreTypeOK
<1>4. recoveryOp' \in 0..MaxOps
  BY DEF Stage, StoreTypeOK
<1>5. \A p \in OpIds : ops'[p].kind = ops[p].kind /\ ops'[p].code = ops[p].code
  BY <1>2 DEF StoreTypeOK, OpRow
<1>6. \A p \in OpIds : ops'[p].status = IF p = o THEN s ELSE ops[p].status
  BY <1>2 DEF StoreTypeOK, OpRow
<1>7. recoveryOp' = IF s = "recovery-required" THEN o ELSE recoveryOp
  BY DEF Stage
<1> QED
  BY <1>2, <1>3, <1>4, <1>5, <1>6, <1>7

(* A step of the program of the job that changes nothing but its counter.  *)
LEMMA GoToShape ==
    ASSUME job \in Jobs, NEW pc \in Steps, GoTo(pc)
    PROVE  /\ job' \in Jobs /\ job'.pc = pc
           /\ job'.mode = job.mode /\ job'.op = job.op /\ job'.target = job.target
           /\ job'.todo = job.todo /\ job'.key = job.key /\ job'.want = job.want
           /\ job'.client = job.client
BY DEF GoTo, Jobs

LEMMA IdleShape ==
    /\ Idle.mode = "none" /\ Idle.pc = "idle" /\ Idle.op = 0 /\ Idle.target = 0
    /\ Idle.todo = {} /\ Idle.key = 0
BY DEF Idle

(* Which operation and key a job at each of its steps has.                 *)
LEMMA JobShape ==
    ASSUME TypeOK, JobOK
    PROVE  /\ job.pc \in IssueSteps => job.mode = "issue"
           /\ job.pc \in DeleteSteps => job.mode \in {"reclaim", "revoke", "recover"}
           /\ job.pc \in BudgetSteps => job.mode \in {"budget", "recover"}
                                        /\ job.target \in OpIds
                                        /\ ops[job.target].kind = "budget"
                                        /\ payload[job.target].keys = {job.key}
           /\ job.pc \in {"start", "again", "updated"} => job.mode = "budget" /\ job.target = job.op
           /\ job.pc = "stageFailed" => job.mode = "reclaim"
           /\ job.pc = "stageRevoked" => job.mode = "revoke"
           /\ job.pc \in {"clear", "closeTarget", "closeSelf"} => job.mode = "recover"
           /\ job.pc # "idle" => job.op \in OpIds /\ job.key \in OpIds
           /\ job.mode = "none" <=> job.pc = "idle"
<1>1. job.mode \in Modes /\ job.pc \in Steps
  BY DEF TypeOK, Jobs
<1>2. payload \in [OpIds -> [keys : SUBSET OpIds, budget : Budgets]]
  BY DEF TypeOK, Payloads
<1>3. CASE job.mode = "none"
  BY <1>3 DEF JobOK, IssueSteps, DeleteSteps, BudgetSteps
<1>4. CASE job.mode = "issue"
  BY <1>4 DEF JobOK, IssueJob, IssueSteps, DeleteSteps, BudgetSteps
<1>5. CASE job.mode = "reclaim"
  BY <1>5 DEF JobOK, ReclaimJob, IssueSteps, DeleteSteps, BudgetSteps
<1>6. CASE job.mode = "revoke"
  BY <1>2, <1>6 DEF JobOK, RevokeJob, IssueSteps, DeleteSteps, BudgetSteps
<1>7. CASE job.mode = "budget"
  BY <1>2, <1>7 DEF JobOK, BudgetJob, IssueSteps, DeleteSteps, BudgetSteps
<1>8. CASE job.mode = "recover"
  <2>1. CASE ops[job.target].kind = "issue"
    BY <1>8, <2>1 DEF JobOK, RecoverJob, IssueSteps, DeleteSteps, BudgetSteps
  <2>2. CASE ops[job.target].kind = "revoke"
    BY <1>2, <1>8, <2>2 DEF JobOK, RecoverJob, IssueSteps, DeleteSteps, BudgetSteps
  <2>3. CASE ops[job.target].kind = "budget"
    BY <1>2, <1>8, <2>3 DEF JobOK, RecoverJob, IssueSteps, DeleteSteps, BudgetSteps
  <2> QED
    BY <1>8, <2>1, <2>2, <2>3 DEF JobOK, RecoverJob
<1> QED
  BY <1>1, <1>3, <1>4, <1>5, <1>6, <1>7, <1>8 DEF Modes

-----------------------------------------------------------------------------
(* The types are preserved. *)

Others == <<profile, lastOp, payload, gkey, keyRow, received, edits, left>>

LEMMA WorldTypes ==
    ASSUME TypeOK, Plan,
           \/ \E c \in Codes : SaveDraft(c) \/ Deploy(c)
           \/ \E c \in Codes, kind \in left.kinds : Request(c, kind)
           \/ \E o \in OpIds : Replay(o) \/ CallRefused(o)
           \/ \E k \in OpIds : EditKey(k)
           \/ HangUp \/ Crash
    PROVE  TypeOK'
<1> USE StoreAssumption, KeysAssumption, ConstantTypes
<1>1. CASE \E c \in Codes : SaveDraft(c)
  <2>1. PICK c \in Codes : SaveDraft(c)
    BY <1>1
  <2>a. profile[c] \in [rev : 0..MaxRev, applied : 0..MaxRev]
    BY DEF TypeOK, StoreTypeOK, ProfileRow, Revs
  <2>b. profile[c].rev \in 0..MaxRev /\ profile[c].rev < MaxRev
    BY <2>1, <2>a DEF SaveDraft, Save
  <2>c. profile[c].rev + 1 \in 0..MaxRev
    BY <2>b
  <2>2. [profile[c] EXCEPT !.rev = @ + 1] \in ProfileRow
    BY <2>a, <2>c DEF ProfileRow, Revs
  <2>3. profile' \in [Codes -> ProfileRow]
    BY <2>1, <2>2 DEF SaveDraft, Save, TypeOK, StoreTypeOK
  <2> QED
    BY <2>1, <2>3 DEF SaveDraft, Save, keyVars, TypeOK, StoreTypeOK
<1>2. CASE \E c \in Codes : Deploy(c)
  <2>1. PICK c \in Codes : Deploy(c)
    BY <1>2
  <2>2. [profile[c] EXCEPT !.applied = profile[c].rev] \in ProfileRow
    BY DEF TypeOK, StoreTypeOK, ProfileRow, Revs
  <2>3. profile' \in [Codes -> ProfileRow]
    BY <2>1, <2>2 DEF Deploy, TypeOK, StoreTypeOK
  <2> QED
    BY <2>1, <2>3 DEF Deploy, keyVars, TypeOK, StoreTypeOK
<1>3. CASE \E c \in Codes, kind \in left.kinds : Request(c, kind)
  <2>1. PICK c \in Codes, kind \in left.kinds : Request(c, kind)
    BY <1>3
  <2>2. kind \in Kinds /\ left.budgets \subseteq Budgets
    BY DEF TypeOK
  <2>3. lastOp \in 0..MaxOps /\ lastOp + 1 \in OpIds /\ lastOp' \in 0..MaxOps
    BY <2>1 DEF Request, Enqueue, TypeOK, StoreTypeOK
  <2>4. [code |-> c, kind |-> kind, rev |-> profile[c].rev, status |-> "queued"] \in OpRow
    BY <2>2 DEF TypeOK, StoreTypeOK, OpRow, ProfileRow, Statuses
  <2>5. StoreTypeOK'
    BY <2>1, <2>3, <2>4 DEF Request, Enqueue, TypeOK, StoreTypeOK
  <2>6. PICK budget \in left.budgets \cup {NoBudget}, keys \in SUBSET IssueOps :
          payload' = [payload EXCEPT ![lastOp + 1] = [keys |-> keys, budget |-> budget]]
    BY <2>1 DEF Request
  <2>7. [keys |-> keys, budget |-> budget] \in Payloads
    BY <2>2 DEF Payloads, IssueOps
  <2>8. payload' \in [OpIds -> Payloads]
    BY <2>3, <2>6, <2>7 DEF TypeOK
  <2>9. calls' \subseteq OpIds
    BY <2>1, <2>3 DEF Request, TypeOK
  <2> QED
    BY <2>1, <2>5, <2>8, <2>9 DEF Request, TypeOK
<1>4. CASE \E o \in OpIds : Replay(o)
  BY <1>4 DEF Replay, storeVars, TypeOK, StoreTypeOK
<1>5. CASE \E o \in OpIds : CallRefused(o)
  BY <1>5 DEF CallRefused, storeVars, TypeOK, StoreTypeOK
<1>6. CASE \E k \in OpIds : EditKey(k)
  <2>1. PICK k \in OpIds : EditKey(k)
    BY <1>6
  <2>2. gkey \in [OpIds -> GatewayKeys] /\ left.budgets \subseteq Budgets
    BY DEF TypeOK
  <2>3. gkey[k] \in [live : BOOLEAN, meta : Metadata] /\ gkey[k].meta \in Metadata
    BY <2>2 DEF GatewayKeys
  <2>4. \A m \in Metadata : [gkey[k] EXCEPT !.meta = m] \in GatewayKeys
    BY <2>3 DEF GatewayKeys
  <2>5. \A b \in left.budgets : [gkey[k].meta EXCEPT !.quota = b] \in Metadata
    BY <2>2, <2>3 DEF Metadata
  <2>6. [gkey[k].meta EXCEPT !.tagged = ~@] \in Metadata
    BY <2>3 DEF Metadata
  <2>7. \/ gkey' = [gkey EXCEPT ![k] = NoKey]
        \/ \E m \in Metadata : gkey' = [gkey EXCEPT ![k].meta = m]
    <3>1. CASE gkey' = [gkey EXCEPT ![k] = NoKey]
      BY <3>1
    <3>2. CASE \E b \in left.budgets : gkey' = [gkey EXCEPT ![k].meta.quota = b]
      <4>1. PICK b \in left.budgets : gkey' = [gkey EXCEPT ![k].meta.quota = b]
        BY <3>2
      <4>2. gkey' = [gkey EXCEPT ![k].meta = [gkey[k].meta EXCEPT !.quota = b]]
        BY <4>1, <2>2, <2>3
      <4> QED
        BY <4>2, <2>5
    <3>3. CASE gkey' = [gkey EXCEPT ![k].meta.tagged = ~@]
      <4>1. gkey' = [gkey EXCEPT ![k].meta = [gkey[k].meta EXCEPT !.tagged = ~@]]
        BY <3>3, <2>2, <2>3
      <4> QED
        BY <4>1, <2>6
    <3> QED
      BY <2>1, <3>1, <3>2, <3>3 DEF EditKey
  <2>8. gkey' \in [OpIds -> GatewayKeys]
    BY <2>2, <2>4, <2>7
  <2> QED
    BY <2>1, <2>8 DEF EditKey, storeVars, TypeOK, StoreTypeOK
<1>7. CASE HangUp
  <2>1. job' \in Jobs
    BY <1>7 DEF HangUp, TypeOK, Jobs
  <2> QED
    BY <1>7, <2>1 DEF HangUp, storeVars, TypeOK, StoreTypeOK
<1>8. CASE Crash
  <2>a. left.crashes \in Nat /\ left.crashes > 0
    BY <1>8 DEF Crash, TypeOK
  <2>b. left.crashes - 1 \in Nat
    BY <2>a
  <2>1. left' \in [kinds : SUBSET Kinds, budgets : SUBSET Budgets, keys : Nat, edits : Nat,
                   crashes : Nat]
    BY <1>8, <2>b DEF Crash, TypeOK
  <2> QED
    BY <1>8, <2>1 DEF Crash, Release, storeVars, TypeOK, StoreTypeOK
<1> QED
  BY <1>1, <1>2, <1>3, <1>4, <1>5, <1>6, <1>7, <1>8

(* What a begun operation knows of its job.                                *)
LEMMA TheKeyOf ==
    ASSUME TypeOK, PayloadOK, NEW o \in OpIds, ops[o].kind = "budget"
    PROVE  payload[o].keys = {TheKey(o)} /\ TheKey(o) \in OpIds
<1>1. PICK k \in OpIds : payload[o].keys = {k}
  BY DEF PayloadOK
<1> QED
  BY <1>1 DEF TheKey

LEMMA BeginTypes ==
    ASSUME TypeOK, PayloadOK, NEW o \in OpIds, Begin(o) \/ DrainIssue(o)
    PROVE  TypeOK'
<1> USE StoreAssumption, KeysAssumption, ConstantTypes
<1>0. o \in 0..MaxOps /\ OpIds \subseteq 0..MaxOps /\ "running" \in Statuses
  BY DEF Statuses
<1>2. payload \in [OpIds -> [keys : SUBSET OpIds, budget : Budgets]]
  BY DEF TypeOK, Payloads
<1>3. job' \in Jobs
  <2>1. /\ {"issue", "reclaim", "revoke", "budget", "recover"} \subseteq Modes
        /\ {"probe", "find", "look"} \subseteq Steps
    BY DEF Modes, Steps, IssueSteps, DeleteSteps, BudgetSteps
  <2>2. CASE IssueBegin(o)
    BY <1>0, <2>1, <2>2 DEF IssueBegin, Take, Jobs
  <2>3. CASE IssueAgain(o) \/ DrainIssue(o)
    BY <1>0, <2>1, <2>3 DEF IssueAgain, DrainIssue, ReclaimFields, Take, Jobs
  <2>4. CASE RevokeBegin(o)
    <3>1. PICK k \in payload[o].keys :
            Take(o, [Idle EXCEPT !.mode = "revoke", !.pc = "find", !.key = k,
                                 !.todo = payload[o].keys \ {k}])
      BY <2>4 DEF RevokeBegin
    <3>2. k \in 0..MaxOps /\ payload[o].keys \ {k} \in SUBSET OpIds
      BY <1>0, <1>2
    <3> QED
      BY <1>0, <2>1, <3>1, <3>2 DEF Take, Jobs
  <2>5. CASE BudgetBegin(o)
    <3>1. TheKey(o) \in 0..MaxOps
      BY <1>0, <2>5, TheKeyOf DEF BudgetBegin, Called
    <3> QED
      BY <1>0, <2>1, <2>5, <3>1 DEF BudgetBegin, Take, Jobs
  <2>6. CASE RecoverBegin(o)
    <3>0. recoveryOp # 0
      BY <2>6 DEF RecoverBegin
    <3>1. recoveryOp \in OpIds /\ recoveryOp \in 0..MaxOps
      BY <3>0 DEF TypeOK, StoreTypeOK
    <3>2. CASE ops[recoveryOp].kind = "issue" /\
               Take(o, [Idle EXCEPT !.mode = "recover", !.target = recoveryOp, !.pc = "find",
                                    !.key = recoveryOp, !.todo = {}])
      BY <1>0, <2>1, <3>1, <3>2 DEF Take, Jobs
    <3>3. CASE \E k \in payload[recoveryOp].keys :
               Take(o, [Idle EXCEPT !.mode = "recover", !.target = recoveryOp, !.pc = "find",
                                    !.key = k, !.todo = payload[recoveryOp].keys \ {k}])
      <4>1. PICK k \in payload[recoveryOp].keys :
               Take(o, [Idle EXCEPT !.mode = "recover", !.target = recoveryOp, !.pc = "find",
                                    !.key = k, !.todo = payload[recoveryOp].keys \ {k}])
        BY <3>3
      <4>2. k \in 0..MaxOps /\ payload[recoveryOp].keys \ {k} \in SUBSET OpIds
        BY <1>0, <1>2, <3>1
      <4> QED
        BY <1>0, <2>1, <3>1, <4>1, <4>2 DEF Take, Jobs
    <3>4. CASE ops[recoveryOp].kind = "budget" /\
               Take(o, [Idle EXCEPT !.mode = "recover", !.target = recoveryOp, !.pc = "look",
                                    !.key = TheKey(recoveryOp), !.todo = {}])
      <4>1. TheKey(recoveryOp) \in 0..MaxOps
        BY <1>0, <3>1, <3>4, TheKeyOf
      <4> QED
        BY <1>0, <2>1, <3>1, <3>4, <4>1 DEF Take, Jobs
    <3> QED
      BY <2>6, <3>2, <3>3, <3>4 DEF RecoverBegin
  <2> QED
    BY <2>2, <2>3, <2>4, <2>5, <2>6 DEF Begin
<1>5. /\ UNCHANGED Others /\ calls' \subseteq OpIds
      /\ UNCHANGED <<ops, recoveryOp>> \/ Stage(o, "running")
  BY DEF Begin, IssueBegin, IssueAgain, DrainIssue, RevokeBegin, BudgetBegin, RecoverBegin,
         Called, Take, Others, TypeOK
<1>6. StoreTypeOK'
  BY <1>0, <1>5, StageShape DEF Others, TypeOK, StoreTypeOK
<1> QED
  BY <1>3, <1>5, <1>6 DEF Others, TypeOK

(* What Trouble does: it gives the lock back and stages the operation.     *)
LEMMA TroubleShape ==
    ASSUME Trouble
    PROVE  /\ job' = Idle /\ Outside /\ NoRows
           /\ \/ job.mode = "reclaim" /\ NoStore
              \/ job.mode = "recover" /\ Stage(job.op, "failed")
              \/ job.mode \notin {"reclaim", "recover"} /\ Stage(job.op, "recovery-required")
<1>1. CASE job.mode = "reclaim"
  BY <1>1 DEF Trouble, Release
<1>2. CASE job.mode = "recover"
  BY <1>2 DEF Trouble, Release
<1>3. CASE job.mode \notin {"reclaim", "recover"}
  BY <1>3 DEF Trouble, Release
<1> QED
  BY <1>1, <1>2, <1>3

(* The operations a step of the job may leave staged, and the keys.        *)
LEMMA JobStoreType ==
    ASSUME TypeOK, UNCHANGED <<profile, lastOp>>,
           \/ NoStore
           \/ \E o \in OpIds, s \in Statuses : Stage(o, s)
           \/ UNCHANGED ops /\ recoveryOp' = 0
    PROVE  StoreTypeOK'
<1> USE StoreAssumption
<1>1. CASE \E o \in OpIds, s \in Statuses : Stage(o, s)
  BY <1>1, StageShape DEF TypeOK, StoreTypeOK
<1> QED
  BY <1>1 DEF NoStore, TypeOK, StoreTypeOK

LEMMA StoreOfJob ==
    ASSUME TypeOK, JobOK, JobStep
    PROVE  /\ UNCHANGED <<profile, lastOp, payload, edits, left, calls>>
           /\ job.pc # "idle"
           /\ \/ NoStore
              \/ \E o \in OpIds, s \in Statuses : Stage(o, s)
              \/ UNCHANGED ops /\ recoveryOp' = 0
<1> DEFINE Staging == \E o \in OpIds, s \in Statuses : Stage(o, s)
<1> DEFINE Kept == /\ UNCHANGED <<profile, lastOp, payload, edits, left, calls>>
                   /\ \/ NoStore \/ Staging
                      \/ UNCHANGED ops /\ recoveryOp' = 0
<1>1. job.pc # "idle"
  BY DEF JobStep, IssueStep, DeleteStep, BudgetStep, CloseStep, At, IssueProbe, IssueGenerate,
         IssueReadback, IssueInsert, IssueIssued, IssueDeliver, IssueCompensate, IssueConfirm,
         KeyFind, KeyDelete, KeyGone, KeyRowRevoked, BudgetLook, BudgetStart, BudgetAgain,
         BudgetUpdate, BudgetCheck, BudgetRow, StageReclaimed, StageRevoked, StageUpdated,
         RecoverClear, RecoverTarget, RecoverSelf
<1>2. job.op \in OpIds
  BY <1>1, JobShape
<1>3. /\ Stage(job.op, "issued") => Staging
      /\ Stage(job.op, "failed") => Staging
      /\ Stage(job.op, "recovery-required") => Staging
      /\ Stage(job.op, "revoked") => Staging
      /\ Stage(job.op, "updated") => Staging
      /\ Stage(job.op, "running") => Staging
      /\ Stage(job.op, "recovered") => Staging
  BY <1>2 DEF Statuses
<1> HIDE DEF Staging
<1>4. Trouble => Outside /\ (NoStore \/ Staging)
  BY <1>3, TroubleShape
<1>5. ASSUME IssueStep PROVE Kept
  BY <1>3, <1>5
     DEF IssueStep, IssueProbe, IssueGenerate, IssueReadback, IssueInsert, IssueIssued,
         IssueDeliver, IssueCompensate, IssueConfirm, Reads, Staged, Outside
<1>6. ASSUME DeleteStep PROVE Kept
  BY <1>3, <1>4, <1>6
     DEF DeleteStep, KeyFind, KeyDelete, KeyGone, KeyRowRevoked, Reads, Staged, Outside
<1>7. ASSUME BudgetStep PROVE Kept
  BY <1>3, <1>4, <1>7
     DEF BudgetStep, BudgetLook, BudgetStart, BudgetAgain, BudgetUpdate, BudgetCheck, BudgetRow,
         Reads, Staged, Outside, Declined
<1>8. ASSUME RecoverTarget PROVE Kept
  <2>1. job.target \in OpIds
    BY <1>8, JobShape DEF RecoverTarget, At, JobOK, RecoverJob
  <2>2. {"updated", "failed"} \subseteq Statuses
    BY DEF Statuses
  <2> QED
    BY <1>8, <2>1, <2>2 DEF RecoverTarget, Staged, Outside, Staging
<1>9. ASSUME CloseStep /\ ~RecoverTarget PROVE Kept
  BY <1>3, <1>9
     DEF CloseStep, StageReclaimed, StageRevoked, StageUpdated, RecoverClear, RecoverSelf,
         Staged, Outside
<1> QED
  BY <1>1, <1>5, <1>6, <1>7, <1>8, <1>9 DEF JobStep, Outside, Staging

(* What a budget job reads and writes.                                     *)
LEMMA UpdatedType ==
    ASSUME TypeOK, job.key \in OpIds, job.target \in OpIds
    PROVE  /\ gkey[job.key].meta \in Metadata
           /\ Updated \in Metadata
           /\ Updated.quota = Wanted /\ Updated.log = Append(gkey[job.key].meta.log, job.target)
           /\ Updated.tagged = gkey[job.key].meta.tagged
           /\ Wanted \in Budgets
<1>1. gkey[job.key] \in GatewayKeys /\ payload[job.target] \in Payloads
  BY DEF TypeOK
<1>2. gkey[job.key].meta \in [quota : Budgets, log : Seq(OpIds), tagged : BOOLEAN]
  BY <1>1 DEF GatewayKeys, Metadata
<1>3. Wanted \in Budgets
  BY <1>1 DEF Wanted, Payloads
<1>4. Append(gkey[job.key].meta.log, job.target) \in Seq(OpIds)
  BY <1>2
<1> QED
  BY <1>2, <1>3, <1>4 DEF Updated, K, Metadata

LEMMA KeyOfJob ==
    ASSUME TypeOK, JobOK, JobStep
    PROVE  /\ gkey' \in [OpIds -> GatewayKeys]
           /\ \/ UNCHANGED gkey
              \/ gkey' = [gkey EXCEPT ![job.key] = NoKey]
              \/ IssueGenerate
              \/ BudgetUpdate
<1> USE ConstantTypes
<1>1. job.key \in OpIds /\ job.op \in OpIds
  BY StoreOfJob, JobShape
<1>2. gkey \in [OpIds -> GatewayKeys]
  BY DEF TypeOK
<1>3. UNCHANGED gkey \/ gkey' = [gkey EXCEPT ![job.key] = NoKey] =>
        gkey' \in [OpIds -> GatewayKeys]
  BY <1>1, <1>2
<1>4. CASE IssueGenerate
  <2>1. payload[job.op] \in Payloads
    BY <1>1 DEF TypeOK
  <2>2. [live |-> TRUE, meta |-> [quota |-> payload[job.op].budget, log |-> <<>>, tagged |-> TRUE]]
          \in GatewayKeys
    BY <2>1 DEF Payloads, GatewayKeys, Metadata
  <2> QED
    BY <1>1, <1>2, <1>3, <1>4, <2>2 DEF IssueGenerate
<1>5. CASE BudgetUpdate
  <2>1. gkey[job.key] \in [live : BOOLEAN, meta : Metadata] /\ job.want \in Metadata
    BY <1>1, <1>2 DEF GatewayKeys, TypeOK, Jobs
  <2>2. [gkey[job.key] EXCEPT !.meta = job.want] \in GatewayKeys
    BY <2>1 DEF GatewayKeys
  <2>3. UNCHANGED gkey \/ gkey' = [gkey EXCEPT ![job.key].meta = job.want]
    BY <1>5 DEF BudgetUpdate
  <2> QED
    BY <1>1, <1>2, <1>3, <1>5, <2>2, <2>3
<1>6. CASE IssueStep /\ ~IssueGenerate
  BY <1>3, <1>6
     DEF IssueStep, IssueProbe, IssueReadback, IssueInsert, IssueIssued,
         IssueDeliver, IssueCompensate, IssueConfirm, Reads, Staged
<1>7. CASE DeleteStep
  BY <1>3, <1>7 DEF DeleteStep, KeyFind, KeyDelete, KeyGone, KeyRowRevoked, Reads
<1>8. CASE BudgetStep /\ ~BudgetUpdate
  BY <1>3, <1>8 DEF BudgetStep, BudgetLook, BudgetStart, BudgetAgain, BudgetCheck, BudgetRow,
                    Reads, Staged, Declined
<1>9. CASE CloseStep
  BY <1>3, <1>9 DEF CloseStep, StageReclaimed, StageRevoked, StageUpdated, RecoverClear,
                    RecoverTarget, RecoverSelf, Staged
<1> QED
  BY <1>4, <1>5, <1>6, <1>7, <1>8, <1>9 DEF JobStep

LEMMA RowOfJob ==
    ASSUME TypeOK, JobOK, JobStep
    PROVE  /\ keyRow' \in [OpIds -> KeyRows] /\ received' \subseteq OpIds
           /\ \/ UNCHANGED keyRow
              \/ IssueInsert \/ KeyRowRevoked \/ BudgetRow
           /\ UNCHANGED received \/ IssueDeliver
<1>1. job.key \in OpIds /\ job.op \in OpIds
  BY StoreOfJob, JobShape
<1>2. keyRow \in [OpIds -> KeyRows] /\ received \subseteq OpIds
      /\ payload \in [OpIds -> Payloads]
  BY DEF TypeOK
<1>3. NoRows => keyRow' \in [OpIds -> KeyRows] /\ received' \subseteq OpIds
  BY <1>2 DEF NoRows
<1>4. CASE IssueInsert
  <2>1. [status |-> "active", budget |-> payload[job.op].budget] \in KeyRows
    BY <1>1, <1>2 DEF Payloads, KeyRows
  <2> QED
    BY <1>1, <1>2, <1>4, <2>1 DEF IssueInsert
<1>5. CASE KeyRowRevoked
  <2>1. [keyRow[job.key] EXCEPT !.status = "revoked"] \in KeyRows
    BY <1>1, <1>2 DEF KeyRows
  <2> QED
    BY <1>1, <1>2, <1>5, <2>1 DEF KeyRowRevoked, MarkRevoked
<1>6. CASE BudgetRow
  <2>1. job.target \in OpIds
    BY <1>6, JobShape DEF BudgetRow, At, BudgetSteps
  <2>2. [keyRow[job.key] EXCEPT !.budget = Wanted] \in KeyRows
    BY <1>1, <1>2, <2>1 DEF KeyRows, Wanted, Payloads
  <2> QED
    BY <1>1, <1>2, <1>6, <2>2 DEF BudgetRow
<1>7. CASE IssueDeliver
  BY <1>1, <1>2, <1>7 DEF IssueDeliver
<1>8. Trouble => NoRows
  BY DEF Trouble
<1>9. CASE IssueStep /\ ~IssueInsert /\ ~IssueDeliver
  BY <1>3, <1>9
     DEF IssueStep, IssueProbe, IssueGenerate, IssueReadback, IssueIssued,
         IssueCompensate, IssueConfirm, Reads, Staged, NoRows
<1>10. CASE DeleteStep /\ ~KeyRowRevoked
  BY <1>3, <1>8, <1>10 DEF DeleteStep, KeyFind, KeyDelete, KeyGone, Reads, NoRows
<1>11. CASE BudgetStep /\ ~BudgetRow
  BY <1>3, <1>8, <1>11 DEF BudgetStep, BudgetLook, BudgetStart, BudgetAgain, BudgetUpdate,
                    BudgetCheck, Reads, Staged, Declined, NoRows
<1>12. CASE CloseStep
  BY <1>3, <1>12 DEF CloseStep, StageReclaimed, StageRevoked, StageUpdated, RecoverClear,
                    RecoverTarget, RecoverSelf, Staged, NoRows
<1> QED
  BY <1>4, <1>5, <1>6, <1>7, <1>9, <1>10, <1>11, <1>12 DEF JobStep

(* The job: it ends, goes on, looks at its next key, or knows what to write*)
LEMMA JobOfJob ==
    ASSUME TypeOK, JobOK, JobStep
    PROVE  job' \in Jobs
<1> USE ConstantTypes
<1>1. job.key \in OpIds /\ job.op \in OpIds /\ job \in Jobs
  BY StoreOfJob, JobShape DEF TypeOK
<1>2. {"generate", "readback", "insert", "issued", "deliver", "compensate", "confirm", "delete",
       "gone", "row", "again", "update", "check", "budgetRow", "updated", "stageFailed",
       "stageRevoked", "clear", "closeTarget", "closeSelf", "start"} \subseteq Steps
  BY DEF Steps, IssueSteps, DeleteSteps, BudgetSteps, CloseSteps
<1>3. \A pc \in Steps : GoTo(pc) => job' \in Jobs
  BY <1>1, GoToShape
<1>4. Release => job' \in Jobs
  BY DEF Release
<1>5. Trouble => job' \in Jobs
  BY TroubleShape
<1>6. CASE IssueStep
  BY <1>2, <1>3, <1>4, <1>6
     DEF IssueStep, IssueProbe, IssueGenerate, IssueReadback, IssueInsert, IssueIssued,
         IssueDeliver, IssueCompensate, IssueConfirm
<1>7. CASE KeyRowRevoked
  <2>1. AfterRow \in Steps
    BY <1>2 DEF AfterRow
  <2>2. ASSUME NEW k \in job.todo
        PROVE  [job EXCEPT !.pc = "find", !.key = k, !.todo = @ \ {k}] \in Jobs
    <3>1. k \in 0..MaxOps /\ job.todo \ {k} \subseteq OpIds /\ "find" \in Steps
      BY <1>1, StoreAssumption DEF Jobs, Steps, DeleteSteps
    <3> QED
      BY <1>1, <3>1 DEF Jobs
  <2> QED
    BY <1>3, <1>7, <2>1, <2>2 DEF KeyRowRevoked
<1>8. CASE DeleteStep /\ ~KeyRowRevoked
  <2>1. (IF K.live THEN "delete" ELSE "row") \in Steps
    BY <1>2
  <2> QED
    BY <1>2, <1>3, <1>5, <1>8, <2>1 DEF DeleteStep, KeyFind, KeyDelete, KeyGone
<1>9. CASE BudgetStep
  <2>1. job.target \in OpIds
    BY <1>9, JobShape DEF BudgetStep, BudgetLook, BudgetStart, BudgetAgain, BudgetUpdate,
          BudgetCheck, BudgetRow, At, BudgetSteps
  <2>2. K.meta \in Metadata /\ Updated \in Metadata
    BY <1>1, <2>1, UpdatedType DEF K
  <2>3. \A pc \in Steps, m \in Metadata : [job EXCEPT !.pc = pc, !.want = m] \in Jobs
    BY <1>1 DEF Jobs
  <2>4. CASE BudgetLook
    <3>1. CASE job' = [job EXCEPT !.want = K.meta,
                             !.pc = IF job.mode = "recover" THEN "check" ELSE "budgetRow"]
      BY <1>1, <1>2, <2>2, <3>1 DEF Jobs
    <3>2. CASE job' = [job EXCEPT !.pc = "update", !.want = Updated]
      BY <1>2, <2>2, <2>3, <3>2
    <3>3. CASE job' = [job EXCEPT !.pc = "start", !.want = K.meta]
      BY <1>2, <2>2, <2>3, <3>3
    <3>4. Declined => Release
      BY DEF Declined
    <3> QED
      BY <1>4, <2>4, <3>1, <3>2, <3>3, <3>4 DEF BudgetLook
  <2>5. CASE BudgetAgain
    <3>1. Release \/ job' = [job EXCEPT !.pc = "update", !.want = Updated]
      BY <2>5 DEF BudgetAgain
    <3>2. "update" \in Steps
      BY <1>2
    <3> QED
      BY <1>4, <2>2, <2>3, <3>1, <3>2
  <2>6. CASE BudgetRow
    BY <1>2, <1>3, <2>6 DEF BudgetRow
  <2>7. CASE BudgetStart \/ BudgetUpdate \/ BudgetCheck
    BY <1>2, <1>3, <1>4, <1>5, <2>7 DEF BudgetStart, BudgetUpdate, BudgetCheck
  <2> QED
    BY <1>9, <2>4, <2>5, <2>6, <2>7 DEF BudgetStep
<1>10. CASE CloseStep
  BY <1>2, <1>3, <1>4, <1>10 DEF CloseStep, StageReclaimed, StageRevoked, StageUpdated,
         RecoverClear, RecoverTarget, RecoverSelf
<1> QED
  BY <1>6, <1>7, <1>8, <1>9, <1>10 DEF JobStep

LEMMA StepType == TypeOK /\ Books /\ Plan /\ [Next]_vars => TypeOK'
<1> SUFFICES ASSUME TypeOK, Books, Plan, [Next]_vars PROVE TypeOK'
  OBVIOUS
<1>1. CASE JobStep
  <2>1. JobOK
    BY DEF Plan
  <2>2. StoreTypeOK'
    BY <1>1, <2>1, StoreOfJob, JobStoreType
  <2> QED
    BY <1>1, <2>1, <2>2, StoreOfJob, KeyOfJob, RowOfJob, JobOfJob DEF TypeOK
<1>2. CASE \E o \in OpIds : Begin(o) \/ DrainIssue(o)
  BY <1>2, BeginTypes DEF Books
<1>3. CASE UNCHANGED vars
  BY <1>3 DEF vars, TypeOK, StoreTypeOK
<1> QED
  BY <1>1, <1>2, <1>3, WorldTypes DEF Next

-----------------------------------------------------------------------------
(* The tables: what a transaction and a gateway call may do to them.       *)

(* What an operation may be staged as, the keys at the gateway being g.    *)
MayBecome(o, s, g) ==
    /\ o \in OpIds /\ ops[o].kind # "apply" /\ s \in Statuses \ Untouched
    /\ o \in received => s = "issued"
    /\ recoveryOp = o /\ ops[o].kind = "issue" => s \in {"recovery-required", "failed"}
    /\ ops[o].kind = "issue" => s \in {"running", "recovery-required", "issued"} \/ ~g[o].live
    /\ ops[o].kind = "budget" => \A k \in payload[o].keys : keyRow[k].status # "none"
    /\ ops[o].kind = "revoke" /\ s = "revoked" =>
         \A k \in payload[o].keys : keyRow[k].status = "revoked"
    /\ ops[o].kind = "budget" /\ s = "updated" /\ edits = 0 =>
         \A k \in OpIds : payload[o].keys = {k} /\ g[k].live =>
           Marks(g[k].meta, o) /\ g[k].meta.quota = keyRow[k].budget

Fewer(k) == gkey' \in {gkey, [gkey EXCEPT ![k] = NoKey]}

LEMMA FewerShape ==
    ASSUME TypeOK, NEW x \in OpIds, Fewer(x)
    PROVE  /\ \A k \in OpIds : gkey'[k] = gkey[k] \/ gkey'[k] = NoKey
           /\ \A k \in OpIds : gkey'[k].live => gkey'[k] = gkey[k] /\ gkey[k].live
           /\ \A k \in OpIds : gkey'[k].meta = gkey[k].meta \/ gkey'[k].meta.log = <<>>
<1>1. gkey \in [OpIds -> GatewayKeys]
  BY DEF TypeOK
<1>2. ~NoKey.live /\ NoKey.meta.log = <<>>
  BY DEF NoKey, NoMeta
<1>3. gkey' = gkey \/ gkey' = [gkey EXCEPT ![x] = NoKey]
  BY DEF Fewer
<1>4. \A k \in OpIds : gkey'[k] = gkey[k] \/ gkey'[k] = NoKey
  BY <1>1, <1>3
<1> QED
  BY <1>2, <1>4

(* A log whose operations keep what they are.                              *)
LEMMA LogKept ==
    ASSUME NEW k, UNCHANGED payload, \A p \in OpIds : ops'[p].kind = ops[p].kind,
           LogOf(gkey'[k].meta, k),
           \A i \in DOMAIN gkey'[k].meta.log : gkey'[k].meta.log[i] \in OpIds
    PROVE  LogOf(gkey[k].meta, k)'
BY DEF LogOf

LEMMA SequenceShape ==
    ASSUME NEW S, NEW log \in Seq(S)
    PROVE  /\ Len(log) \in Nat /\ DOMAIN log = 1..Len(log)
           /\ \A i \in 1..Len(log) : log[i] \in S
           /\ log # <<>> => Len(log) > 0
OBVIOUS

LEMMA LogType ==
    ASSUME TypeOK
    PROVE  \A k \in OpIds : /\ gkey[k].meta.log \in Seq(OpIds)
                            /\ \A i \in DOMAIN gkey[k].meta.log : gkey[k].meta.log[i] \in OpIds
                            /\ gkey[k].meta.log # <<>> =>
                                 /\ Len(gkey[k].meta.log) \in DOMAIN gkey[k].meta.log
                                 /\ gkey[k].meta.log[Len(gkey[k].meta.log)] \in OpIds
<1> TAKE k \in OpIds
<1> DEFINE log == gkey[k].meta.log
<1>1. log \in Seq(OpIds)
  BY DEF TypeOK, GatewayKeys, Metadata
<1> HIDE DEF log
<1>2. Len(log) \in Nat /\ DOMAIN log = 1..Len(log) /\ \A i \in 1..Len(log) : log[i] \in OpIds
  BY <1>1, SequenceShape
<1>3. log # <<>> => Len(log) > 0
  BY <1>1, SequenceShape
<1>4. log # <<>> => Len(log) \in DOMAIN log
  BY <1>2, <1>3
<1> QED
  BY <1>1, <1>2, <1>4 DEF log

LEMMA TablesStaged ==
    ASSUME TypeOK, Books, \A k \in OpIds : gkey'[k].live => gkey[k].live,
           UNCHANGED <<lastOp, payload, keyRow, received, edits>>,
           \/ NoStore
           \/ UNCHANGED ops /\ recoveryOp' = 0
           \/ \E o \in OpIds, s \in Statuses : Stage(o, s) /\ MayBecome(o, s, gkey')
    PROVE  PayloadOK' /\ RowsOK' /\ LiveKeysAccounted' /\ RevokedIsGone'
<1> USE StoreAssumption
<1>1. CASE ops' = ops /\ recoveryOp' \in {0, recoveryOp}
  <2>1. PayloadOK'
    BY <1>1 DEF Books, PayloadOK
  <2>2. RowsOK'
    BY <1>1 DEF Books, RowsOK
  <2>3. LiveKeysAccounted' /\ RevokedIsGone'
    BY <1>1 DEF Books, LiveKeysAccounted, RevokedIsGone
  <2> QED
    BY <2>1, <2>2, <2>3
<1>2. CASE \E o \in OpIds, s \in Statuses : Stage(o, s) /\ MayBecome(o, s, gkey')
  <2>1. PICK o \in OpIds, s \in Statuses : Stage(o, s) /\ MayBecome(o, s, gkey')
    BY <1>2
  <2>2. /\ \A p \in OpIds : ops'[p].kind = ops[p].kind
        /\ \A p \in OpIds : ops'[p].status = IF p = o THEN s ELSE ops[p].status
        /\ recoveryOp' = IF s = "recovery-required" THEN o ELSE recoveryOp
    <3>1. StoreTypeOK
      BY DEF TypeOK
    <3> QED
      BY <2>1, <3>1, StageShape
  <2>3. recoveryOp \in 0..MaxOps
    BY DEF TypeOK, StoreTypeOK
  <2>4. PayloadOK'
    BY <2>1, <2>2 DEF Books, PayloadOK, MayBecome
  <2>5. RowsOK'
    <3>1. \A k \in OpIds : ops'[k].kind # "issue" \/ ops'[k].status \in Untouched =>
            ~gkey'[k].live /\ keyRow'[k].status = "none"
      BY <2>1, <2>2 DEF Books, RowsOK, MayBecome
    <3>2. \A k \in received' :
            ops'[k].kind = "issue" /\ ops'[k].status = "issued" /\ keyRow'[k].status # "none"
      <4>1. received \subseteq OpIds /\ (o \in received => s = "issued")
        BY <2>1 DEF TypeOK, MayBecome
      <4>2. \A k \in received :
              ops[k].kind = "issue" /\ ops[k].status = "issued" /\ keyRow[k].status # "none"
        BY DEF Books, RowsOK
      <4> QED
        BY <2>2, <4>1, <4>2
    <3>3. recoveryOp' # 0 =>
            /\ ops'[recoveryOp'].status \notin Untouched
            /\ ops'[recoveryOp'].kind = "issue" =>
                 ops'[recoveryOp'].status \in {"recovery-required", "failed"}
      BY <2>1, <2>2, <2>3 DEF Books, RowsOK, MayBecome
    <3>4. \A p \in OpIds : ops'[p].kind = "budget" /\ ops'[p].status \notin Untouched =>
            \A k \in payload'[p].keys : keyRow'[k].status # "none"
      BY <2>1, <2>2 DEF Books, RowsOK, MayBecome
    <3> QED
      BY <3>1, <3>2, <3>3, <3>4 DEF RowsOK
  <2>6. LiveKeysAccounted'
    BY <2>1, <2>2 DEF Books, LiveKeysAccounted, MayBecome
  <2>7. RevokedIsGone'
    BY <2>1, <2>2 DEF Books, RevokedIsGone, MayBecome
  <2> QED
    BY <2>4, <2>5, <2>6, <2>7
<1> QED
  BY <1>1, <1>2 DEF NoStore

LEMMA BooksStaged ==
    ASSUME TypeOK, Books, NEW x \in OpIds, Fewer(x),
           UNCHANGED <<lastOp, payload, keyRow, received, edits>>,
           \/ NoStore
           \/ UNCHANGED ops /\ recoveryOp' = 0
           \/ \E o \in OpIds, s \in Statuses : Stage(o, s) /\ MayBecome(o, s, gkey')
    PROVE  Books'
<1>0. PayloadOK' /\ RowsOK' /\ LiveKeysAccounted' /\ RevokedIsGone'
  BY FewerShape, TablesStaged
<1>1. /\ \A k \in OpIds : gkey'[k].live => gkey'[k] = gkey[k] /\ gkey[k].live
      /\ \A k \in OpIds : gkey'[k].meta = gkey[k].meta \/ gkey'[k].meta.log = <<>>
  BY FewerShape
<1>2. CASE ops' = ops /\ recoveryOp' \in {0, recoveryOp}
  <2>1. LogsOK'
    <3>1. ASSUME NEW k \in OpIds PROVE LogOf(gkey'[k].meta, k)
      <4>1. CASE gkey'[k].meta = gkey[k].meta
        BY <4>1 DEF Books, LogsOK
      <4>2. CASE gkey'[k].meta.log = <<>>
        BY <4>2 DEF LogOf
      <4> QED
        BY <1>1, <4>1, <4>2
    <3>2. ASSUME NEW k \in OpIds, LogOf(gkey'[k].meta, k) PROVE LogOf(gkey[k].meta, k)'
      BY <1>2, <3>2 DEF LogOf
    <3> QED
      BY <3>1, <3>2 DEF LogsOK
  <2>2. UpdatedMarked'
    <3>1. UpdatedMarked
      BY DEF Books
    <3> QED
      BY <1>1, <1>2, <3>1 DEF UpdatedMarked, Marks
  <2>3. BudgetAgrees'
    <3>1. BudgetAgrees
      BY DEF Books
    <3> QED
      BY <1>1, <1>2, <3>1 DEF BudgetAgrees
  <2> QED
    BY <1>0, <2>1, <2>2, <2>3 DEF Books
<1>3. CASE \E o \in OpIds, s \in Statuses : Stage(o, s) /\ MayBecome(o, s, gkey')
  <2>1. PICK o \in OpIds, s \in Statuses : Stage(o, s) /\ MayBecome(o, s, gkey')
    BY <1>3
  <2>2. /\ \A p \in OpIds : ops'[p].kind = ops[p].kind
        /\ \A p \in OpIds : ops'[p].status = IF p = o THEN s ELSE ops[p].status
        /\ recoveryOp' = IF s = "recovery-required" THEN o ELSE recoveryOp
    <3>1. StoreTypeOK
      BY DEF TypeOK
    <3> QED
      BY <2>1, <3>1, StageShape
  <2>3. LogsOK'
    <3>1. ASSUME NEW k \in OpIds
          PROVE  /\ LogOf(gkey'[k].meta, k)
                 /\ \A i \in DOMAIN gkey'[k].meta.log : gkey'[k].meta.log[i] \in OpIds
      <4>1. CASE gkey'[k].meta = gkey[k].meta
        BY <4>1, LogType DEF Books, LogsOK
      <4>2. CASE gkey'[k].meta.log = <<>>
        BY <4>2 DEF LogOf
      <4> QED
        BY <1>1, <4>1, <4>2
    <3>2. ASSUME NEW k \in OpIds PROVE LogOf(gkey[k].meta, k)'
      BY <2>2, <3>1, LogKept
    <3> QED
      BY <3>2 DEF LogsOK
  <2>4. UpdatedMarked'
    BY <1>1, <2>1, <2>2 DEF Books, UpdatedMarked, MayBecome, Marks
  <2>5. BudgetAgrees'
    <3> SUFFICES ASSUME edits = 0, NEW k \in OpIds, gkey'[k].live, keyRow[k].status = "active",
                        \/ gkey'[k].meta.log = <<>>
                        \/ ops'[gkey'[k].meta.log[Len(gkey'[k].meta.log)]].status = "updated"
                 PROVE  gkey'[k].meta.quota = keyRow[k].budget
      BY DEF BudgetAgrees
    <3> DEFINE log == gkey[k].meta.log
               m   == log[Len(log)]
    <3>1. gkey'[k] = gkey[k] /\ gkey[k].live
      BY <1>1
    <3>2. CASE log = <<>>
      BY <3>1, <3>2 DEF Books, BudgetAgrees
    <3>3. CASE log # <<>> /\ m # o
      <4>1. m \in OpIds
        BY <3>3, LogType
      <4>2. ops[m].status = "updated"
        BY <2>2, <3>1, <3>3, <4>1
      <4> QED
        BY <3>1, <4>2 DEF Books, BudgetAgrees
    <3>4. CASE log # <<>> /\ m = o
      <4>1. Len(log) \in DOMAIN log
        BY <3>4, LogType
      <4>2. payload[o].keys = {k} /\ ops[o].kind = "budget"
        BY <3>4, <4>1 DEF Books, LogsOK, LogOf
      <4>3. s = "updated"
        BY <2>2, <3>1, <3>4
      <4> QED
        BY <2>1, <3>1, <4>2, <4>3 DEF MayBecome
    <3> QED
      BY <3>2, <3>3, <3>4
  <2> QED
    BY <1>0, <2>3, <2>4, <2>5 DEF Books
<1> QED
  BY <1>2, <1>3 DEF NoStore

(* Changes that leave every operation as it is.                            *)
LEMMA BooksGenerate ==
    ASSUME TypeOK, Books, Plan, IssueGenerate
    PROVE  Books'
<1> USE ConstantTypes
<1>1. /\ UNCHANGED <<ops, recoveryOp, lastOp, payload, keyRow, received, edits>>
      /\ job.pc = "generate"
  BY DEF IssueGenerate, Outside, NoStore, NoRows, At
<1>2. job.mode = "issue" /\ job.op \in OpIds /\ job.key = job.op /\ ops[job.op].kind = "issue"
      /\ ops[job.op].status = "running" /\ keyRow[job.key].status = "none"
  BY <1>1, JobShape DEF Plan, JobOK, IssueJob, IssueSteps, ProgressOK
<1> DEFINE new == [live |-> TRUE, meta |-> [quota |-> payload[job.op].budget, log |-> <<>>,
                                            tagged |-> TRUE]]
<1>3. new.live /\ new.meta.log = <<>>
  OBVIOUS
<1> HIDE DEF new
<1>4. gkey' = gkey \/ gkey' = [gkey EXCEPT ![job.key] = new]
  BY DEF IssueGenerate, new
<1>5. /\ \A k \in OpIds : k # job.key => gkey'[k] = gkey[k]
      /\ gkey'[job.key] = gkey[job.key] \/ gkey'[job.key] = new
  BY <1>2, <1>4 DEF TypeOK
<1>6. PayloadOK'
  BY <1>1 DEF Books, PayloadOK
<1>7. RowsOK'
  BY <1>1, <1>2, <1>5 DEF Books, RowsOK, Untouched
<1>8. LiveKeysAccounted' /\ RevokedIsGone'
  BY <1>1, <1>2, <1>5 DEF Books, LiveKeysAccounted, RevokedIsGone
<1>9. LogsOK'
  <2>1. ASSUME NEW k \in OpIds PROVE LogOf(gkey'[k].meta, k)
    <3>1. CASE gkey'[k].meta.log = <<>>
      BY <3>1 DEF LogOf
    <3>2. CASE gkey'[k] = gkey[k]
      BY <3>2 DEF Books, LogsOK
    <3> QED
      BY <1>3, <1>5, <3>1, <3>2
  <2>2. ASSUME NEW k \in OpIds, LogOf(gkey'[k].meta, k) PROVE LogOf(gkey[k].meta, k)'
    BY <1>1, <2>2 DEF LogOf
  <2> QED
    BY <2>1, <2>2 DEF LogsOK
<1>10. UpdatedMarked'
  <2>1. \A o \in OpIds : ops[o].kind = "budget" /\ ops[o].status = "updated" =>
          job.key \notin payload[o].keys
    BY <1>2 DEF Books, RowsOK, Untouched
  <2> QED
    BY <1>1, <1>5, <2>1 DEF Books, UpdatedMarked, Marks
<1>11. BudgetAgrees'
  <2>1. ASSUME NEW k \in OpIds, keyRow[k].status = "active" PROVE gkey'[k] = gkey[k]
    BY <1>2, <1>5, <2>1
  <2> QED
    BY <1>1, <2>1 DEF Books, BudgetAgrees
<1> QED
  BY <1>6, <1>7, <1>8, <1>9, <1>10, <1>11 DEF Books

(* A row of a key whose metadata stay.                                     *)
LEMMA RowChange ==
    ASSUME TypeOK, Books, UNCHANGED <<ops, recoveryOp, lastOp, payload, gkey, edits>>
    PROVE  PayloadOK' /\ LiveKeysAccounted' /\ LogsOK' /\ UpdatedMarked'
<1>1. LogsOK'
  <2>1. ASSUME NEW k \in OpIds PROVE LogOf(gkey[k].meta, k)'
    BY DEF Books, LogsOK, LogOf
  <2> QED
    BY <2>1 DEF LogsOK
<1> QED
  BY <1>1 DEF Books, PayloadOK, LiveKeysAccounted, UpdatedMarked, Marks

LEMMA BooksInsert ==
    ASSUME TypeOK, Books, Plan, IssueInsert
    PROVE  Books'
<1>1. /\ UNCHANGED <<ops, recoveryOp, lastOp, payload, gkey, received, edits>>
      /\ job.pc = "insert"
  BY DEF IssueInsert, Outside, NoStore, At
<1>2. job.mode = "issue" /\ job.op \in OpIds /\ job.key = job.op /\ ops[job.op].kind = "issue"
      /\ ops[job.op].status = "running" /\ keyRow[job.key].status = "none"
  BY <1>1, JobShape DEF Plan, JobOK, IssueJob, IssueSteps, ProgressOK
<1> DEFINE row == [status |-> "active", budget |-> payload[job.op].budget]
<1>3. row.status = "active" /\ row.budget = payload[job.op].budget
  OBVIOUS
<1> HIDE DEF row
<1>4. keyRow' = keyRow \/ keyRow' = [keyRow EXCEPT ![job.key] = row]
  BY DEF IssueInsert, row
<1>5. /\ \A k \in OpIds : k # job.key => keyRow'[k] = keyRow[k]
      /\ keyRow'[job.key] = keyRow[job.key] \/ keyRow'[job.key] = row
  BY <1>2, <1>4 DEF TypeOK
<1>6. PayloadOK' /\ LiveKeysAccounted' /\ LogsOK' /\ UpdatedMarked'
  BY <1>1, RowChange
<1>7. RowsOK'
  <2>1. /\ \A k \in OpIds : ops[k].kind # "issue" \/ ops[k].status \in Untouched =>
             ~gkey[k].live /\ keyRow'[k].status = "none"
        /\ \A k \in OpIds : keyRow[k].status # "none" => keyRow'[k].status # "none"
    BY <1>2, <1>3, <1>5 DEF Books, RowsOK, Untouched
  <2>2. payload \in [OpIds -> [keys : SUBSET OpIds, budget : Budgets]] /\ received \subseteq OpIds
    BY DEF TypeOK, Payloads
  <2> QED
    BY <1>1, <2>1, <2>2 DEF Books, RowsOK
<1>8. RevokedIsGone'
  <2>1. \A k \in OpIds : keyRow'[k].status = "revoked" <=> keyRow[k].status = "revoked"
    BY <1>2, <1>3, <1>5
  <2>2. payload \in [OpIds -> [keys : SUBSET OpIds, budget : Budgets]]
    BY DEF TypeOK, Payloads
  <2> QED
    BY <1>1, <2>1, <2>2 DEF Books, RevokedIsGone
<1>9. BudgetAgrees'
  <2>1. edits = 0 /\ gkey[job.key].live => gkey[job.key].meta.quota = payload[job.op].budget
    BY <1>1 DEF Plan, WrittenOK
  <2> QED
    BY <1>1, <1>2, <1>3, <1>5, <2>1 DEF Books, BudgetAgrees
<1> QED
  BY <1>6, <1>7, <1>8, <1>9 DEF Books

LEMMA BooksRevoked ==
    ASSUME TypeOK, Books, Plan, KeyRowRevoked
    PROVE  Books'
<1>1. /\ UNCHANGED <<ops, recoveryOp, lastOp, payload, gkey, received, edits>>
      /\ job.pc = "row" /\ MarkRevoked(job.key)
  BY DEF KeyRowRevoked, Outside, NoStore, At
<1>2. job.key \in OpIds /\ ~gkey[job.key].live
  BY <1>1, JobShape DEF Plan, ProgressOK
<1>3. keyRow \in [OpIds -> [status : {"none", "active", "revoked"}, budget : Budgets]]
  BY DEF TypeOK, KeyRows
<1>4. /\ \A k \in OpIds : k # job.key => keyRow'[k] = keyRow[k]
      /\ keyRow'[job.key].status = IF keyRow[job.key].status = "none" THEN "none" ELSE "revoked"
  BY <1>1, <1>2, <1>3 DEF MarkRevoked
<1>5. PayloadOK' /\ LiveKeysAccounted' /\ LogsOK' /\ UpdatedMarked'
  BY <1>1, RowChange
<1>6. payload \in [OpIds -> [keys : SUBSET OpIds, budget : Budgets]] /\ received \subseteq OpIds
  BY DEF TypeOK, Payloads
<1>7. RowsOK'
  <2>1. \A k \in OpIds : keyRow[k].status = "none" <=> keyRow'[k].status = "none"
    BY <1>4
  <2> QED
    BY <1>1, <1>6, <2>1 DEF Books, RowsOK
<1>8. RevokedIsGone'
  <2>1. \A k \in OpIds : keyRow[k].status = "revoked" => keyRow'[k].status = "revoked"
    BY <1>4
  <2> QED
    BY <1>1, <1>2, <1>4, <1>6, <2>1 DEF Books, RevokedIsGone
<1>9. BudgetAgrees'
  <2>1. \A k \in OpIds : keyRow'[k].status = "active" => keyRow'[k] = keyRow[k]
    BY <1>4
  <2> QED
    BY <1>1, <2>1 DEF Books, BudgetAgrees
<1> QED
  BY <1>5, <1>7, <1>8, <1>9 DEF Books

LEMMA BooksBudgetRow ==
    ASSUME TypeOK, Books, Plan, BudgetRow
    PROVE  Books'
<1>1. /\ UNCHANGED <<ops, recoveryOp, lastOp, payload, gkey, received, edits>>
      /\ job.pc = "budgetRow" /\ keyRow' = [keyRow EXCEPT ![job.key].budget = Wanted]
  BY DEF BudgetRow, Outside, NoStore, At
<1>2. job.key \in OpIds
  BY <1>1, JobShape DEF Plan
<1>3. keyRow \in [OpIds -> [status : {"none", "active", "revoked"}, budget : Budgets]]
  BY DEF TypeOK, KeyRows
<1>4. /\ \A k \in OpIds : k # job.key => keyRow'[k] = keyRow[k]
      /\ keyRow'[job.key].budget = Wanted
      /\ \A k \in OpIds : keyRow'[k].status = keyRow[k].status
  BY <1>1, <1>2, <1>3
<1>5. PayloadOK' /\ LiveKeysAccounted' /\ LogsOK' /\ UpdatedMarked'
  BY <1>1, RowChange
<1>6. payload \in [OpIds -> [keys : SUBSET OpIds, budget : Budgets]] /\ received \subseteq OpIds
  BY DEF TypeOK, Payloads
<1>7. RowsOK' /\ RevokedIsGone'
  BY <1>1, <1>4, <1>6 DEF Books, RowsOK, RevokedIsGone
<1>8. BudgetAgrees'
  <2>1. edits = 0 /\ gkey[job.key].live => gkey[job.key].meta.quota = Wanted
    BY <1>1 DEF Plan, WrittenOK
  <2> QED
    BY <1>1, <1>4, <2>1 DEF Books, BudgetAgrees
<1> QED
  BY <1>5, <1>7, <1>8 DEF Books

LEMMA BooksDeliver ==
    ASSUME TypeOK, Books, Plan, IssueDeliver
    PROVE  Books'
<1>1. /\ UNCHANGED <<ops, recoveryOp, lastOp, payload, gkey, keyRow, edits>>
      /\ job.pc = "deliver" /\ received' \subseteq received \cup {job.key}
  BY DEF IssueDeliver, Outside, NoStore, At
<1>2. /\ job.op \in OpIds /\ job.key = job.op
      /\ ops[job.op].kind = "issue" /\ ops[job.op].status = "issued"
      /\ keyRow[job.key].status # "none"
  BY <1>1, JobShape DEF Plan, JobOK, IssueJob, IssueSteps, ProgressOK, Answered
<1>3. PayloadOK' /\ LiveKeysAccounted' /\ LogsOK' /\ UpdatedMarked'
  BY <1>1, RowChange
<1>4. RowsOK'
  BY <1>1, <1>2 DEF Books, RowsOK
<1>5. RevokedIsGone' /\ BudgetAgrees'
  BY <1>1 DEF Books, RevokedIsGone, BudgetAgrees
<1> QED
  BY <1>3, <1>4, <1>5 DEF Books

(* Writing the metadata a budget job has prepared, alone or with the       *)
(* failure that follows.                                                   *)
LEMMA BooksWrite ==
    ASSUME TypeOK, Books, Plan, job.pc = "update", gkey[job.key].live,
           gkey' = [gkey EXCEPT ![job.key].meta = job.want],
           UNCHANGED <<lastOp, payload, keyRow, received, edits>>,
           \/ NoStore
           \/ \E s \in {"failed", "recovery-required"} :
                Stage(job.op, s) /\ MayBecome(job.op, s, gkey')
    PROVE  Books'
<1>1. /\ job.op \in OpIds /\ job.key \in OpIds /\ job.target \in OpIds
      /\ ops[job.target].kind = "budget" /\ payload[job.target].keys = {job.key}
  BY JobShape DEF Plan, BudgetSteps
<1>2. gkey[job.key] \in [live : BOOLEAN, meta : Metadata] /\ job.want \in Metadata
  BY <1>1 DEF TypeOK, GatewayKeys, Jobs
<1>3. /\ \A k \in OpIds : k # job.key => gkey'[k] = gkey[k]
      /\ gkey'[job.key].live /\ gkey'[job.key].meta = job.want
      /\ \A k \in OpIds : gkey'[k].live => gkey[k].live
  BY <1>1, <1>2 DEF TypeOK
<1>4. PayloadOK' /\ RowsOK' /\ LiveKeysAccounted' /\ RevokedIsGone'
  <2>1. {"failed", "recovery-required"} \subseteq Statuses
    BY DEF Statuses
  <2> QED
    BY <1>1, <1>3, <2>1, TablesStaged
<1>5. /\ \A p \in OpIds : ops'[p].kind = ops[p].kind
      /\ \A p \in OpIds : ops'[p].status = "updated" => ops[p].status = "updated"
  <2>1. CASE NoStore
    BY <2>1 DEF NoStore
  <2>2. CASE \E s \in {"failed", "recovery-required"} : Stage(job.op, s)
    <3>1. StoreTypeOK /\ {"failed", "recovery-required"} \subseteq Statuses
      BY DEF TypeOK, Statuses
    <3>2. PICK s \in {"failed", "recovery-required"} : Stage(job.op, s)
      BY <2>2
    <3>3. /\ \A p \in OpIds : ops'[p].kind = ops[p].kind
          /\ \A p \in OpIds : ops'[p].status = IF p = job.op THEN s ELSE ops[p].status
      BY <1>1, <3>1, <3>2, StageShape
    <3> QED
      BY <3>3
  <2> QED
    BY <2>1, <2>2
<1>6. LogOf(job.want, job.key) /\ \A i \in DOMAIN job.want.log : job.want.log[i] \in OpIds
  <2>1. job.want.log \in Seq(OpIds)
    BY <1>2 DEF Metadata
  <2> QED
    BY <2>1, SequenceShape DEF Plan, WantOK
<1>7. LogsOK'
  <2>1. ASSUME NEW k \in OpIds
        PROVE  /\ LogOf(gkey'[k].meta, k)
               /\ \A i \in DOMAIN gkey'[k].meta.log : gkey'[k].meta.log[i] \in OpIds
    <3>1. CASE k = job.key
      BY <1>3, <1>6, <3>1
    <3>2. CASE k # job.key
      BY <1>3, <3>2, LogType DEF Books, LogsOK
    <3> QED
      BY <3>1, <3>2
  <2>2. ASSUME NEW k \in OpIds PROVE LogOf(gkey[k].meta, k)'
    BY <1>5, <2>1, LogKept
  <2> QED
    BY <2>2 DEF LogsOK
<1>8. UpdatedMarked'
  <2> SUFFICES ASSUME edits = 0, NEW o \in OpIds, NEW k \in OpIds, ops[o].kind = "budget",
                      ops[o].status = "updated", payload[o].keys = {k}, gkey[k].live
               PROVE  Marks(gkey'[k].meta, o)
    BY <1>3, <1>5 DEF UpdatedMarked, Marks
  <2>1. PICK i \in DOMAIN gkey[k].meta.log : gkey[k].meta.log[i] = o
    BY DEF Books, UpdatedMarked, Marks
  <2>2. CASE k = job.key
    BY <1>3, <2>1, <2>2 DEF Plan, WrittenOK
  <2>3. CASE k # job.key
    BY <1>3, <2>1, <2>3 DEF Marks
  <2> QED
    BY <2>2, <2>3
<1>9. BudgetAgrees'
  <2> SUFFICES ASSUME edits = 0, NEW k \in OpIds, gkey'[k].live, keyRow[k].status = "active",
                      \/ gkey'[k].meta.log = <<>>
                      \/ ops'[gkey'[k].meta.log[Len(gkey'[k].meta.log)]].status = "updated"
               PROVE  gkey'[k].meta.quota = keyRow[k].budget
    BY DEF BudgetAgrees
  <2>1. CASE k = job.key
    <3>1. job.want.log # <<>> /\ job.want.log[Len(job.want.log)] = job.target
      BY DEF Plan, WantOK
    <3>2. ops[job.target].status # "updated"
      BY DEF Plan, WrittenOK
    <3>3. gkey'[k].meta.log = job.want.log
      BY <1>3, <2>1
    <3>4. ops'[job.target].status # "updated"
      BY <1>1, <1>5, <3>2
    <3> QED
      BY <3>1, <3>3, <3>4
  <2>2. CASE k # job.key
    <3>1. gkey'[k] = gkey[k]
      BY <1>3, <2>2
    <3>2. CASE gkey[k].meta.log = <<>>
      BY <3>1, <3>2 DEF Books, BudgetAgrees
    <3>3. CASE gkey[k].meta.log # <<>>
      <4>1. gkey[k].meta.log[Len(gkey[k].meta.log)] \in OpIds
        BY <3>3, LogType
      <4> QED
        BY <1>5, <3>1, <3>3, <4>1 DEF Books, BudgetAgrees
    <3> QED
      BY <3>2, <3>3
  <2> QED
    BY <2>1, <2>2
<1> QED
  BY <1>4, <1>7, <1>8, <1>9 DEF Books

(* A new operation has no key, no row and no mark.                         *)
LEMMA BooksRequest ==
    ASSUME TypeOK, Books, Plan, NEW c \in Codes, NEW kind \in left.kinds, Request(c, kind)
    PROVE  Books'
<1> USE StoreAssumption
<1> DEFINE n == lastOp + 1
<1>1. /\ UNCHANGED <<recoveryOp, gkey, keyRow, received, edits>>
      /\ lastOp' = n
  BY DEF Request, Enqueue
<1>2. lastOp \in 0..MaxOps /\ n \in OpIds /\ recoveryOp \in 0..MaxOps
  BY DEF Request, Enqueue, TypeOK, StoreTypeOK
<1>3. ops[n].status = "none" /\ ops[n].kind = "apply"
  BY <1>2 DEF Books, PayloadOK
<1>4. ops'[n].status = "queued" /\ ops'[n].kind = kind
  BY <1>2 DEF Request, Enqueue, TypeOK, StoreTypeOK
<1>5. \A o \in OpIds : o # n => ops'[o] = ops[o]
  BY DEF Request, Enqueue, TypeOK, StoreTypeOK
<1>6. payload \in [OpIds -> [keys : SUBSET OpIds, budget : Budgets]] /\ received \subseteq OpIds
  BY DEF TypeOK, Payloads
<1>7. PICK budget \in left.budgets \cup {NoBudget}, keys \in SUBSET IssueOps :
        /\ kind = "revoke" <=> keys # {} /\ kind # "budget"
        /\ kind = "budget" => \E k \in IssueOps : keys = {k}
        /\ payload' = [payload EXCEPT ![n] = [keys |-> keys, budget |-> budget]]
  BY DEF Request
<1>8. payload'[n].keys = keys /\ \A o \in OpIds : o # n => payload'[o] = payload[o]
  BY <1>2, <1>6, <1>7
<1>9. IssueOps \subseteq OpIds
  BY DEF IssueOps
<1> HIDE DEF n
<1>10. PayloadOK'
  <2>1. \A o \in OpIds : o > n => ops'[o].status = "none" /\ ops'[o].kind = "apply"
    BY <1>2, <1>5 DEF Books, PayloadOK, n
  <2>2. \A o \in OpIds : ops'[o].kind = "revoke" => payload'[o].keys # {}
    BY <1>4, <1>5, <1>7, <1>8 DEF Books, PayloadOK
  <2>3. \A o \in OpIds : ops'[o].kind = "budget" => \E k \in OpIds : payload'[o].keys = {k}
    BY <1>4, <1>5, <1>7, <1>8, <1>9 DEF Books, PayloadOK
  <2> QED
    BY <1>1, <2>1, <2>2, <2>3 DEF PayloadOK
<1>11. RowsOK'
  <2>1. \A k \in OpIds : ops'[k].kind # "issue" \/ ops'[k].status \in Untouched =>
             ~gkey[k].live /\ keyRow[k].status = "none"
    BY <1>3, <1>5 DEF Books, RowsOK, Untouched
  <2>2. \A k \in received :
             ops'[k].kind = "issue" /\ ops'[k].status = "issued" /\ keyRow[k].status # "none"
    BY <1>3, <1>5, <1>6 DEF Books, RowsOK
  <2>3. recoveryOp # 0 =>
         /\ ops'[recoveryOp].status \notin Untouched
         /\ ops'[recoveryOp].kind = "issue" =>
              ops'[recoveryOp].status \in {"recovery-required", "failed"}
    BY <1>2, <1>3, <1>5 DEF Books, RowsOK, Untouched
  <2>4. \A o \in OpIds : ops'[o].kind = "budget" /\ ops'[o].status \notin Untouched =>
         \A k \in payload'[o].keys : keyRow[k].status # "none"
    BY <1>4, <1>5, <1>8 DEF Books, RowsOK, Untouched
  <2> QED
    BY <1>1, <2>1, <2>2, <2>3, <2>4 DEF RowsOK
<1>12. LiveKeysAccounted'
  BY <1>1, <1>3, <1>5 DEF Books, LiveKeysAccounted
<1>13. RevokedIsGone'
  BY <1>1, <1>4, <1>5, <1>8 DEF Books, RevokedIsGone
<1>14. LogsOK'
  <2>1. ASSUME NEW k \in OpIds PROVE LogOf(gkey[k].meta, k)'
    <3>1. \A i \in DOMAIN gkey[k].meta.log :
            gkey[k].meta.log[i] \in OpIds /\ gkey[k].meta.log[i] # n
      BY <1>3, LogType DEF Books, LogsOK, LogOf
    <3>2. \A i \in DOMAIN gkey[k].meta.log :
            payload'[gkey[k].meta.log[i]].keys = {k} /\ ops'[gkey[k].meta.log[i]].kind = "budget"
      <4>1. \A i \in DOMAIN gkey[k].meta.log :
              payload[gkey[k].meta.log[i]].keys = {k} /\ ops[gkey[k].meta.log[i]].kind = "budget"
        BY DEF Books, LogsOK, LogOf
      <4> QED
        BY <1>5, <1>8, <3>1, <4>1
    <3>3. \A i, j \in DOMAIN gkey[k].meta.log : gkey[k].meta.log[i] = gkey[k].meta.log[j] => i = j
      BY DEF Books, LogsOK, LogOf
    <3> QED
      BY <1>1, <3>2, <3>3 DEF LogOf
  <2> QED
    BY <2>1 DEF LogsOK
<1>15. UpdatedMarked'
  BY <1>1, <1>4, <1>5, <1>8 DEF Books, UpdatedMarked, Marks
<1>16. BudgetAgrees'
  <2>1. ASSUME NEW k \in OpIds, gkey[k].meta.log # <<>>
        PROVE  LET m == gkey[k].meta.log[Len(gkey[k].meta.log)] IN ops'[m] = ops[m]
    <3>1. LET m == gkey[k].meta.log[Len(gkey[k].meta.log)] IN m \in OpIds /\ ops[m].kind = "budget"
      BY <2>1, LogType DEF Books, LogsOK, LogOf
    <3> QED
      BY <1>3, <1>5, <3>1
  <2> QED
    BY <1>1, <2>1 DEF Books, BudgetAgrees
<1> QED
  BY <1>10, <1>11, <1>12, <1>13, <1>14, <1>15, <1>16 DEF Books

(* An edit at the gateway makes no key; the rest is about no edits.        *)
LEMMA EditShape ==
    ASSUME TypeOK, NEW x \in OpIds, EditKey(x)
    PROVE  /\ UNCHANGED <<ops, recoveryOp, lastOp, payload, keyRow, calls, job, received, left>>
           /\ edits' # 0
           /\ \A k \in OpIds : gkey'[k].live => gkey[k].live
           /\ \A k \in OpIds : gkey'[k].meta.log = gkey[k].meta.log \/ gkey'[k].meta.log = <<>>
<1>1. gkey \in [OpIds -> [live : BOOLEAN, meta : [quota : Budgets, log : Seq(OpIds), tagged : BOOLEAN]]]
  BY DEF TypeOK, GatewayKeys, Metadata
<1>2. ~NoKey.live /\ NoKey.meta.log = <<>>
  BY DEF NoKey, NoMeta
<1>3. CASE gkey' = [gkey EXCEPT ![x] = NoKey]
  BY <1>1, <1>2, <1>3 DEF EditKey, storeVars, TypeOK
<1>4. CASE \E b \in left.budgets : gkey' = [gkey EXCEPT ![x].meta.quota = b]
  BY <1>1, <1>4 DEF EditKey, storeVars, TypeOK
<1>5. CASE gkey' = [gkey EXCEPT ![x].meta.tagged = ~@]
  BY <1>1, <1>5 DEF EditKey, storeVars, TypeOK
<1> QED
  BY <1>3, <1>4, <1>5 DEF EditKey

LEMMA BooksEdit ==
    ASSUME TypeOK, Books, NEW x \in OpIds, EditKey(x)
    PROVE  Books'
<1>1. /\ UNCHANGED <<ops, recoveryOp, lastOp, payload, keyRow, received>> /\ edits' # 0
      /\ \A k \in OpIds : gkey'[k].live => gkey[k].live
      /\ \A k \in OpIds : gkey'[k].meta.log = gkey[k].meta.log \/ gkey'[k].meta.log = <<>>
  BY EditShape
<1>2. PayloadOK' /\ LiveKeysAccounted' /\ RevokedIsGone'
  BY <1>1 DEF Books, PayloadOK, LiveKeysAccounted, RevokedIsGone
<1>3. RowsOK'
  BY <1>1 DEF Books, RowsOK
<1>4. LogsOK'
  <2>1. ASSUME NEW k \in OpIds PROVE LogOf(gkey[k].meta, k)'
    <3>1. CASE gkey'[k].meta.log = gkey[k].meta.log
      BY <1>1, <3>1 DEF Books, LogsOK, LogOf
    <3>2. CASE gkey'[k].meta.log = <<>>
      BY <3>2 DEF LogOf
    <3> QED
      BY <1>1, <3>1, <3>2
  <2> QED
    BY <2>1 DEF LogsOK
<1>5. UpdatedMarked' /\ BudgetAgrees'
  BY <1>1 DEF UpdatedMarked, BudgetAgrees
<1> QED
  BY <1>2, <1>3, <1>4, <1>5 DEF Books

(* What the operation of a job may become, whatever the gateway says.      *)
LEMMA JobMayBecome ==
    ASSUME TypeOK, Books, Plan, NEW g
    PROVE  /\ job.mode = "issue" /\ job.pc # "deliver" =>
                /\ MayBecome(job.op, "issued", g) /\ MayBecome(job.op, "recovery-required", g)
                /\ ~g[job.op].live => MayBecome(job.op, "failed", g)
           /\ job.mode = "reclaim" /\ ~g[job.op].live => MayBecome(job.op, "failed", g)
           /\ job.mode = "revoke" => MayBecome(job.op, "recovery-required", g)
           /\ job.mode = "budget" =>
                \A s \in {"running", "failed", "recovery-required"} : MayBecome(job.op, s, g)
           /\ job.mode = "recover" =>
                MayBecome(job.op, "failed", g) /\ MayBecome(job.op, "recovered", g)
<1>1. {"issued", "recovery-required", "failed", "running", "recovered"} \subseteq Statuses \ Untouched
  BY DEF Statuses, Untouched
<1>2. CASE job.mode = "issue" /\ job.pc # "deliver"
  BY <1>1, <1>2 DEF Plan, JobOK, IssueJob, ProgressOK, Books, RowsOK, MayBecome
<1>3. CASE job.mode = "reclaim"
  BY <1>1, <1>3 DEF Plan, JobOK, ReclaimJob, Reclaims, Books, RowsOK, MayBecome
<1>4. CASE job.mode = "revoke"
  BY <1>1, <1>4 DEF Plan, JobOK, RevokeJob, Books, RowsOK, MayBecome
<1>5. CASE job.mode = "budget"
  BY <1>1, <1>5 DEF Plan, JobOK, BudgetJob, ProgressOK, Books, RowsOK, MayBecome
<1>6. CASE job.mode = "recover"
  BY <1>1, <1>6 DEF Plan, JobOK, RecoverJob, Books, RowsOK, MayBecome
<1> QED
  BY <1>2, <1>3, <1>4, <1>5, <1>6

LEMMA BooksTrouble ==
    ASSUME TypeOK, Books, Plan, Trouble, Fewer(job.key),
           job.mode \in {"reclaim", "revoke", "budget", "recover"}
    PROVE  Books'
<1>1. job.op \in OpIds /\ job.key \in OpIds
  BY JobShape DEF Plan
<1>2. /\ UNCHANGED <<lastOp, payload, keyRow, received, edits>>
      /\ \/ NoStore
         \/ job.mode = "recover" /\ Stage(job.op, "failed")
         \/ job.mode \in {"revoke", "budget"} /\ Stage(job.op, "recovery-required")
  BY TroubleShape DEF Outside, NoRows
<1>3. {"failed", "recovery-required"} \subseteq Statuses
  BY DEF Statuses
<1>4. \/ NoStore
      \/ Stage(job.op, "failed") /\ MayBecome(job.op, "failed", gkey')
      \/ Stage(job.op, "recovery-required") /\ MayBecome(job.op, "recovery-required", gkey')
  BY <1>2, JobMayBecome
<1> HIDE DEF MayBecome
<1> QED
  BY <1>1, <1>2, <1>3, <1>4, BooksStaged

(* What the books need to know of a step: it stages what may be staged.    *)
Staging(s) == Stage(job.op, s) /\ MayBecome(job.op, s, gkey')
SafeStep ==
    /\ Fewer(job.key)
    /\ UNCHANGED <<lastOp, payload, keyRow, received, edits>>
    /\ \/ NoStore
       \/ UNCHANGED ops /\ recoveryOp' = 0
       \/ \E s \in Statuses : Staging(s)

LEMMA BooksSafe ==
    ASSUME TypeOK, Books, job.key \in OpIds, job.op \in OpIds, SafeStep
    PROVE  Books'
BY BooksStaged DEF SafeStep, Staging

LEMMA ReadsSafe ==
    ASSUME Reads PROVE SafeStep
BY DEF Reads, SafeStep, Outside, NoRows, Fewer

LEMMA StagedSafe ==
    ASSUME NEW s \in Statuses, Staged(job.op, s), MayBecome(job.op, s, gkey')
    PROVE  SafeStep
BY DEF Staged, SafeStep, Staging, Outside, NoRows, Fewer

LEMMA BooksIssue ==
    ASSUME TypeOK, Books, Plan, IssueStep
    PROVE  Books'
<1>1. job.mode = "issue" /\ job.key \in OpIds /\ job.op \in OpIds /\ job.key = job.op
  <2>1. job.pc \in IssueSteps
    BY DEF IssueStep, IssueProbe, IssueGenerate, IssueReadback, IssueInsert, IssueIssued,
           IssueDeliver, IssueCompensate, IssueConfirm, At, IssueSteps
  <2>2. job.pc # "idle"
    BY <2>1 DEF IssueSteps
  <2> QED
    BY <2>1, <2>2, JobShape DEF Plan, JobOK, IssueJob
<1>2. {"issued", "recovery-required", "failed"} \subseteq Statuses
  BY DEF Statuses
<1>3. CASE IssueProbe \/ IssueReadback
  BY <1>1, <1>3, ReadsSafe, BooksSafe DEF IssueProbe, IssueReadback
<1>4. CASE IssueIssued
  <2>1. CASE Reads
    BY <1>1, <2>1, ReadsSafe, BooksSafe
  <2>2. CASE Staged(job.op, "issued")
    <3>1. MayBecome(job.op, "issued", gkey')
      BY <1>1, <1>4, JobMayBecome DEF IssueIssued, At
    <3> QED
      BY <1>1, <1>2, <2>2, <3>1, StagedSafe, BooksSafe
  <2> QED
    BY <1>4, <2>1, <2>2 DEF IssueIssued
<1>5. CASE IssueCompensate
  <2>1. CASE gkey' = [gkey EXCEPT ![job.key] = NoKey] /\ Outside /\ NoStore /\ NoRows
    <3>1. SafeStep
      BY <2>1 DEF SafeStep, Fewer, Outside, NoRows
    <3> QED
      BY <1>1, <3>1, BooksSafe
  <2>2. CASE /\ gkey' \in {gkey, [gkey EXCEPT ![job.key] = NoKey]}
             /\ Stage(job.op, "recovery-required") /\ Outside /\ NoRows
    <3>1. MayBecome(job.op, "recovery-required", gkey')
      BY <1>1, <1>5, JobMayBecome DEF IssueCompensate, At
    <3>2. SafeStep
      BY <1>2, <2>2, <3>1 DEF SafeStep, Staging, Fewer, Outside, NoRows
    <3> QED
      BY <1>1, <3>2, BooksSafe
  <2> QED
    BY <1>5, <2>1, <2>2 DEF IssueCompensate
<1>6. CASE IssueConfirm
  <2>1. UNCHANGED gkey
    BY <1>6 DEF IssueConfirm, Staged
  <2>2. CASE ~K.live /\ Staged(job.op, "failed")
    <3>1. MayBecome(job.op, "failed", gkey')
      BY <1>1, <1>6, <2>1, <2>2, JobMayBecome DEF IssueConfirm, At, K
    <3> QED
      BY <1>1, <1>2, <2>2, <3>1, StagedSafe, BooksSafe
  <2>3. CASE Staged(job.op, "recovery-required")
    <3>1. MayBecome(job.op, "recovery-required", gkey')
      BY <1>1, <1>6, JobMayBecome DEF IssueConfirm, At
    <3> QED
      BY <1>1, <1>2, <2>3, <3>1, StagedSafe, BooksSafe
  <2> QED
    BY <1>6, <2>2, <2>3 DEF IssueConfirm
<1> QED
  BY <1>3, <1>4, <1>5, <1>6, BooksGenerate, BooksInsert, BooksDeliver DEF IssueStep

LEMMA BooksDelete ==
    ASSUME TypeOK, Books, Plan, DeleteStep
    PROVE  Books'
<1>1. /\ job.mode \in {"reclaim", "revoke", "budget", "recover"}
      /\ job.key \in OpIds /\ job.op \in OpIds
  <2>1. job.pc \in DeleteSteps
    BY DEF DeleteStep, KeyFind, KeyDelete, KeyGone, KeyRowRevoked, At, DeleteSteps
  <2>2. job.pc # "idle"
    BY <2>1 DEF DeleteSteps
  <2> QED
    BY <2>1, <2>2, JobShape DEF Plan
<1>2. CASE KeyFind
  BY <1>1, <1>2, ReadsSafe, BooksSafe, BooksTrouble DEF KeyFind, Fewer
<1>3. CASE KeyGone
  BY <1>1, <1>3, ReadsSafe, BooksSafe, BooksTrouble DEF KeyGone, Fewer
<1>4. CASE KeyDelete
  <2>1. CASE gkey' = [gkey EXCEPT ![job.key] = NoKey] /\ Outside /\ NoStore /\ NoRows
    <3>1. SafeStep
      BY <2>1 DEF SafeStep, Fewer, Outside, NoRows
    <3> QED
      BY <1>1, <3>1, BooksSafe
  <2> QED
    BY <1>1, <1>4, <2>1, BooksTrouble DEF KeyDelete, Fewer
<1> QED
  BY <1>2, <1>3, <1>4, BooksRevoked DEF DeleteStep

LEMMA BooksBudget ==
    ASSUME TypeOK, Books, Plan, BudgetStep
    PROVE  Books'
<1>1. job.mode \in {"budget", "recover"} /\ job.key \in OpIds /\ job.op \in OpIds
      /\ (job.pc \in {"start", "again"} => job.mode = "budget")
  <2>1. job.pc \in BudgetSteps
    BY DEF BudgetStep, BudgetLook, BudgetStart, BudgetAgain, BudgetUpdate, BudgetCheck,
           BudgetRow, At, BudgetSteps
  <2>2. job.pc # "idle"
    BY <2>1 DEF BudgetSteps
  <2> QED
    BY <2>1, <2>2, JobShape DEF Plan
<1>2. {"running", "recovery-required", "failed"} \subseteq Statuses
  BY DEF Statuses
<1>3. /\ MayBecome(job.op, "failed", gkey')
      /\ job.mode = "budget" => MayBecome(job.op, "running", gkey')
      /\ job.mode = "budget" => MayBecome(job.op, "recovery-required", gkey')
  BY <1>1, JobMayBecome
<1>4. Staged(job.op, "failed") => Books'
  BY <1>1, <1>2, <1>3, StagedSafe, BooksSafe
<1>5. Reads => Books'
  BY <1>1, ReadsSafe, BooksSafe
<1>6. Trouble /\ UNCHANGED gkey => Books'
  BY <1>1, BooksTrouble DEF Fewer
<1>7. CASE BudgetLook
  BY <1>4, <1>5, <1>7 DEF BudgetLook, Declined
<1>8. CASE BudgetStart
  BY <1>1, <1>2, <1>3, <1>8, StagedSafe, BooksSafe DEF BudgetStart, At
<1>9. CASE BudgetAgain
  BY <1>4, <1>5, <1>9 DEF BudgetAgain
<1>10. CASE BudgetUpdate
  <2>1. CASE K.live /\ gkey' = [gkey EXCEPT ![job.key].meta = job.want] /\ NoStore /\ Outside /\ NoRows
    BY <1>10, <2>1, BooksWrite DEF BudgetUpdate, At, K, Outside, NoRows
  <2>2. CASE Trouble /\ K.live /\ gkey' = [gkey EXCEPT ![job.key].meta = job.want]
    <3>1. /\ UNCHANGED <<lastOp, payload, keyRow, received, edits>>
          /\ \/ Stage(job.op, "failed") /\ MayBecome(job.op, "failed", gkey')
             \/ /\ Stage(job.op, "recovery-required")
                /\ MayBecome(job.op, "recovery-required", gkey')
      BY <1>1, <1>3, <2>2, TroubleShape DEF Outside, NoRows
    <3>2. \E s \in {"failed", "recovery-required"} :
                Stage(job.op, s) /\ MayBecome(job.op, s, gkey')
      BY <3>1
    <3> QED
      BY <1>10, <2>2, <3>1, <3>2, BooksWrite DEF BudgetUpdate, At, K
  <2> QED
    BY <1>6, <1>10, <2>1, <2>2 DEF BudgetUpdate
<1>11. CASE BudgetCheck
  BY <1>4, <1>5, <1>6, <1>11 DEF BudgetCheck
<1> QED
  BY <1>7, <1>8, <1>9, <1>10, <1>11, BooksBudgetRow DEF BudgetStep

LEMMA BooksClose ==
    ASSUME TypeOK, Books, Plan, CloseStep
    PROVE  Books'
<1>1. job.key \in OpIds /\ job.op \in OpIds
  BY JobShape DEF Plan, CloseStep, StageReclaimed, StageRevoked, StageUpdated,
         RecoverClear, RecoverTarget, RecoverSelf, At
<1>2. {"failed", "revoked", "updated", "recovered"} \subseteq Statuses \ Untouched
  BY DEF Statuses, Untouched
<1>3. CASE StageReclaimed
  <2>1. job.pc = "stageFailed" /\ Staged(job.op, "failed") /\ UNCHANGED gkey
    BY <1>3 DEF StageReclaimed, At, Staged
  <2>2. job.mode = "reclaim" /\ job.key = job.op
    BY <2>1, JobShape DEF Plan, JobOK, ReclaimJob
  <2>3. ~gkey'[job.op].live
    BY <2>1, <2>2 DEF Plan, ProgressOK
  <2> QED
    BY <1>1, <1>2, <2>1, <2>2, <2>3, JobMayBecome, StagedSafe, BooksSafe
<1>4. CASE StageRevoked
  <2>1. job.pc = "stageRevoked" /\ Staged(job.op, "revoked") /\ job.mode = "revoke"
    BY <1>4, JobShape DEF StageRevoked, At, Plan
  <2>2. MayBecome(job.op, "revoked", gkey')
    BY <1>1, <1>2, <2>1 DEF Plan, JobOK, RevokeJob, ProgressOK, Books, RowsOK, MayBecome
  <2> QED
    BY <1>1, <1>2, <2>1, <2>2, StagedSafe, BooksSafe
<1>5. CASE StageUpdated
  <2>1. job.pc = "updated" /\ Staged(job.op, "updated") /\ UNCHANGED gkey
    BY <1>5 DEF StageUpdated, At, Staged
  <2>2. /\ job.mode = "budget" /\ job.target = job.op /\ payload[job.op].keys = {job.key}
        /\ ops[job.op].kind = "budget" /\ keyRow[job.key].status # "none"
    BY <2>1, JobShape DEF Plan, JobOK, BudgetJob, ProgressOK
  <2>3. edits = 0 =>
          \A k \in OpIds : payload[job.op].keys = {k} /\ gkey[k].live =>
            Marks(gkey[k].meta, job.op) /\ gkey[k].meta.quota = keyRow[k].budget
    BY <2>1, <2>2 DEF Plan, WrittenOK, Wanted
  <2>4. MayBecome(job.op, "updated", gkey')
    BY <1>1, <1>2, <2>1, <2>2, <2>3 DEF Books, RowsOK, MayBecome
  <2> QED
    BY <1>1, <1>2, <2>1, <2>4, StagedSafe, BooksSafe
<1>6. CASE RecoverClear
  <2>1. SafeStep
    BY <1>6 DEF RecoverClear, SafeStep, Fewer, Outside, NoRows
  <2> QED
    BY <1>1, <2>1, BooksSafe
<1>7. CASE RecoverTarget
  <2>1. job.pc = "closeTarget" /\ job.mode = "recover" /\ job.target \in OpIds
    BY <1>7, JobShape DEF RecoverTarget, At, Plan, JobOK, RecoverJob
  <2> DEFINE s == IF ops[job.target].kind = "budget" THEN "updated" ELSE "failed"
  <2>2. Staged(job.target, s) /\ s \in Statuses \ Untouched
    BY <1>2, <1>7 DEF RecoverTarget
  <2>3. UNCHANGED gkey
    BY <2>2 DEF Staged
  <2>4. CASE ops[job.target].kind = "issue"
    <3>1. ~gkey[job.target].live /\ ops[job.target].status \in {"recovery-required", "failed"}
      BY <2>1, <2>4 DEF Plan, JobOK, RecoverJob, ProgressOK
    <3>2. MayBecome(job.target, s, gkey')
      BY <2>1, <2>2, <2>3, <2>4, <3>1 DEF Books, RowsOK, MayBecome
    <3> QED
      BY <1>1, <2>1, <2>2, <3>2, BooksStaged DEF Staged, Outside, NoRows, Fewer
  <2>5. CASE ops[job.target].kind = "revoke"
    <3>1. MayBecome(job.target, s, gkey')
      BY <2>1, <2>2, <2>3, <2>5 DEF Books, RowsOK, MayBecome
    <3> QED
      BY <1>1, <2>1, <2>2, <3>1, BooksStaged DEF Staged, Outside, NoRows, Fewer
  <2>6. CASE ops[job.target].kind = "budget"
    <3>1. payload[job.target].keys = {job.key} /\ ops[job.target].status \notin Untouched
      BY <2>1, <2>6 DEF Plan, JobOK, RecoverJob, ProgressOK
    <3>2. keyRow[job.key].status # "none"
      BY <2>1, <2>6, <3>1 DEF Books, RowsOK
    <3>3. edits = 0 =>
            \A k \in OpIds : payload[job.target].keys = {k} /\ gkey[k].live =>
              Marks(gkey[k].meta, job.target) /\ gkey[k].meta.quota = keyRow[k].budget
      BY <2>1, <2>6, <3>1 DEF Plan, WrittenOK, Wanted, Closing
    <3>4. MayBecome(job.target, s, gkey')
      BY <2>1, <2>2, <2>3, <2>6, <3>1, <3>2, <3>3 DEF Books, RowsOK, MayBecome
    <3> QED
      BY <1>1, <2>1, <2>2, <3>4, BooksStaged DEF Staged, Outside, NoRows, Fewer
  <2> QED
    BY <2>1, <2>4, <2>5, <2>6 DEF Plan, JobOK, RecoverJob
<1>8. CASE RecoverSelf
  <2>1. Staged(job.op, "recovered") /\ job.mode = "recover"
    BY <1>8, JobShape DEF RecoverSelf, At, Plan
  <2> QED
    BY <1>1, <1>2, <2>1, JobMayBecome, StagedSafe, BooksSafe
<1> QED
  BY <1>3, <1>4, <1>5, <1>6, <1>7, <1>8 DEF CloseStep

LEMMA BooksBegin ==
    ASSUME TypeOK, Books, Plan, NEW o \in OpIds, Begin(o) \/ DrainIssue(o)
    PROVE  Books'
<1>1. UNCHANGED <<lastOp, payload, gkey, keyRow, received, edits>>
  BY DEF Begin, IssueBegin, IssueAgain, DrainIssue, RevokeBegin, BudgetBegin, RecoverBegin, Take
<1>2. "running" \in Statuses \ Untouched
  BY DEF Statuses, Untouched
<1>3. CASE IssueBegin(o)
  <2>1. ops[o].kind = "issue" /\ ops[o].status = "queued" /\ Stage(o, "running")
    BY <1>3 DEF IssueBegin, Called
  <2>2. MayBecome(o, "running", gkey')
    BY <1>2, <2>1 DEF Books, RowsOK, Untouched, MayBecome
  <2> QED
    BY <1>1, <1>2, <2>1, <2>2, BooksStaged DEF Fewer
<1>4. CASE RevokeBegin(o)
  <2>1. ops[o].kind = "revoke" /\ Stage(o, "running")
    BY <1>4 DEF RevokeBegin, Called
  <2>2. MayBecome(o, "running", gkey')
    BY <1>2, <2>1 DEF Books, RowsOK, MayBecome
  <2> QED
    BY <1>1, <1>2, <2>1, <2>2, BooksStaged DEF Fewer
<1>5. CASE IssueAgain(o) \/ DrainIssue(o) \/ BudgetBegin(o) \/ RecoverBegin(o)
  <2>1. NoStore
    BY <1>5 DEF IssueAgain, DrainIssue, BudgetBegin, RecoverBegin, NoStore
  <2> QED
    BY <1>1, <2>1, BooksStaged DEF Fewer
<1> QED
  BY <1>3, <1>4, <1>5 DEF Begin

LEMMA StepBooks == TypeOK /\ Books /\ Plan /\ [Next]_vars => Books'
<1> SUFFICES ASSUME TypeOK, Books, Plan, [Next]_vars PROVE Books'
  OBVIOUS
<1>1. CASE JobStep
  BY <1>1, BooksIssue, BooksDelete, BooksBudget, BooksClose DEF JobStep
<1>2. CASE \E c \in Codes, kind \in left.kinds : Request(c, kind)
  BY <1>2, BooksRequest
<1>3. CASE \E o \in OpIds : Begin(o) \/ DrainIssue(o)
  BY <1>3, BooksBegin
<1>4. CASE \E k \in OpIds : EditKey(k)
  BY <1>4, BooksEdit
<1>5. ASSUME UNCHANGED <<ops, recoveryOp, lastOp, payload, gkey, keyRow, received, edits>>
      PROVE  Books'
  <2>1. 1 \in OpIds
    BY StoreAssumption
  <2> QED
    BY <1>5, <2>1, BooksStaged DEF Fewer, NoStore
<1>6. CASE \/ \E c \in Codes : SaveDraft(c) \/ Deploy(c)
           \/ \E o \in OpIds : Replay(o) \/ CallRefused(o)
           \/ HangUp \/ Crash \/ UNCHANGED vars
  BY <1>5, <1>6 DEF SaveDraft, Save, Deploy, Replay, CallRefused, HangUp, Crash, keyVars,
                    storeVars, vars
<1> QED
  BY <1>1, <1>2, <1>3, <1>4, <1>6 DEF Next

-----------------------------------------------------------------------------
(* The job: what it knows stays true while it and the world go on.         *)

LEMMA PlanIdle ==
    ASSUME job' = Idle PROVE Plan'
<1>1. job'.mode = "none" /\ job'.pc = "idle"
  BY IdleShape
<1>2. JobOK'
  BY <1>1 DEF JobOK, IssueJob, ReclaimJob, RevokeJob, BudgetJob, RecoverJob
<1>3. ProgressOK' /\ WantOK' /\ WrittenOK'
  BY <1>1 DEF ProgressOK, WantOK, WrittenOK, Closing, Answered
<1> QED
  BY <1>2, <1>3 DEF Plan

SameJob ==
    /\ job'.mode = job.mode /\ job'.op = job.op /\ job'.target = job.target /\ job'.pc = job.pc
    /\ job'.todo = job.todo /\ job'.key = job.key /\ job'.want = job.want

LEMMA PlanQuiet ==
    ASSUME Plan, SameJob, UNCHANGED <<ops, payload, gkey, keyRow, received, edits>>
    PROVE  Plan'
<1>1. JobOK'
  BY DEF SameJob, Plan, JobOK, IssueJob, ReclaimJob, RevokeJob, BudgetJob, RecoverJob
<1>2. ProgressOK'
  BY DEF SameJob, Plan, ProgressOK
<1>3. WantOK'
  BY DEF SameJob, Plan, WantOK, LogOf, Marks, Wanted
<1>4. WrittenOK'
  BY DEF SameJob, Plan, WrittenOK, Closing, Marks, Wanted
<1> QED
  BY <1>1, <1>2, <1>3, <1>4 DEF Plan

LEMMA PlanEdit ==
    ASSUME TypeOK, Plan, NEW x \in OpIds, EditKey(x)
    PROVE  Plan'
<1>1. /\ UNCHANGED <<ops, payload, keyRow, job, received>> /\ edits' # 0
      /\ \A k \in OpIds : gkey'[k].live => gkey[k].live
  BY EditShape
<1>2. JobOK'
  BY <1>1 DEF Plan, JobOK, IssueJob, ReclaimJob, RevokeJob, BudgetJob, RecoverJob
<1>3. ProgressOK'
  <2>1. job.pc \in {"row", "stageFailed"} => job.key \in OpIds
    BY JobShape DEF Plan
  <2>2. job.pc \in {"clear", "closeTarget"} => job.target \in OpIds
    BY JobShape DEF Plan, JobOK, RecoverJob
  <2> QED
    BY <1>1, <2>1, <2>2 DEF Plan, ProgressOK
<1>4. WantOK'
  BY <1>1 DEF Plan, WantOK, LogOf, Marks, Wanted
<1>5. WrittenOK'
  BY <1>1 DEF WrittenOK
<1> QED
  BY <1>2, <1>3, <1>4, <1>5 DEF Plan

(* A new operation is none that the job knows.                             *)
LEMMA PlanRequest ==
    ASSUME TypeOK, Books, Plan, NEW c \in Codes, NEW kind \in left.kinds, Request(c, kind)
    PROVE  Plan'
<1> USE StoreAssumption
<1> DEFINE n == lastOp + 1
<1>1. UNCHANGED <<gkey, keyRow, received, edits, job>>
  BY DEF Request
<1>2. lastOp \in 0..MaxOps /\ n \in OpIds
  BY DEF Request, Enqueue, TypeOK, StoreTypeOK
<1>3. ops[n].status = "none" /\ ops[n].kind = "apply"
  BY <1>2 DEF Books, PayloadOK
<1>4. /\ \A o \in OpIds : o # n => ops'[o] = ops[o]
      /\ \A o \in OpIds : o # n => payload'[o] = payload[o]
  BY DEF Request, Enqueue, TypeOK, StoreTypeOK
<1> HIDE DEF n
<1>5. /\ job.mode # "none" => job.op \in OpIds /\ job.op # n
      /\ job.mode \in {"budget", "recover"} => job.target \in OpIds /\ job.target # n
  <2>1. job.mode \in {"none", "issue", "reclaim", "revoke", "budget", "recover"}
    BY DEF TypeOK, Jobs, Modes
  <2>2. CASE job.mode = "issue"
    BY <1>3, <2>2 DEF Plan, JobOK, IssueJob
  <2>3. CASE job.mode = "reclaim"
    BY <1>3, <2>3 DEF Plan, JobOK, ReclaimJob
  <2>4. CASE job.mode = "revoke"
    BY <1>3, <2>4 DEF Plan, JobOK, RevokeJob
  <2>5. CASE job.mode = "budget"
    BY <1>3, <2>5 DEF Plan, JobOK, BudgetJob
  <2>6. CASE job.mode = "recover"
    BY <1>3, <2>6 DEF Plan, JobOK, RecoverJob
  <2> QED
    BY <2>1, <2>2, <2>3, <2>4, <2>5, <2>6
<1>7. JobOK'
  BY <1>1, <1>4, <1>5 DEF Plan, JobOK, IssueJob, ReclaimJob, RevokeJob, BudgetJob, RecoverJob
<1>8. /\ job.pc \in {"clear", "closeTarget", "closeSelf"} \cup BudgetSteps =>
           job.mode \in {"budget", "recover"}
      /\ job.pc # "idle" => job.mode # "none"
  BY JobShape DEF Plan
<1>9. ProgressOK'
  <2>1. job.pc \in {"clear", "closeTarget"} => ops'[job.target] = ops[job.target]
    BY <1>4, <1>5, <1>8
  <2>2. job.mode = "recover" => ops'[job.target] = ops[job.target]
    BY <1>4, <1>5
  <2>3. job.mode = "revoke" => payload'[job.op] = payload[job.op]
    BY <1>4, <1>5
  <2> QED
    BY <1>1, <2>1, <2>2, <2>3 DEF Plan, ProgressOK
<1>10. job.pc \in BudgetSteps \cup {"clear", "closeTarget"} =>
         ops'[job.target] = ops[job.target] /\ payload'[job.target] = payload[job.target]
  BY <1>4, <1>5, <1>8
<1>11. WantOK'
  <2>1. LogOf(job.want, job.key) => LogOf(job.want, job.key)'
    <3> SUFFICES ASSUME LogOf(job.want, job.key) PROVE LogOf(job.want, job.key)'
      OBVIOUS
    <3>1. job.want.log \in Seq(OpIds)
      BY DEF TypeOK, Jobs, Metadata
    <3>2. \A i \in DOMAIN job.want.log : job.want.log[i] \in OpIds /\ job.want.log[i] # n
      BY <1>3, <3>1, SequenceShape DEF LogOf
    <3> QED
      BY <1>1, <1>4, <3>2 DEF LogOf
  <2>2. job.pc \in {"update", "check"} => Wanted' = Wanted
    BY <1>1, <1>10 DEF Wanted, BudgetSteps
  <2> QED
    BY <1>1, <2>1, <2>2 DEF Plan, WantOK, Marks
<1>12. WrittenOK'
  <2>1. job.pc \in {"update", "budgetRow", "updated", "clear", "closeTarget"} =>
          Wanted' = Wanted /\ ops'[job.target] = ops[job.target]
    BY <1>1, <1>10 DEF Wanted, BudgetSteps
  <2>2. job.pc \in {"readback", "insert"} => payload'[job.op] = payload[job.op]
    BY <1>4, <1>5, <1>8
  <2> QED
    BY <1>1, <2>1, <2>2 DEF Plan, WrittenOK, Closing, Marks
<1> QED
  BY <1>7, <1>9, <1>11, <1>12 DEF Plan

(* The jobs as they begin.                                                 *)
LEMMA PlanBegin ==
    ASSUME TypeOK, Books, Plan, NEW o \in OpIds, Begin(o) \/ DrainIssue(o)
    PROVE  Plan'
<1> USE IdleShape
<1>1. UNCHANGED <<payload, gkey, keyRow, received, edits>>
  BY DEF Begin, IssueBegin, IssueAgain, DrainIssue, RevokeBegin, BudgetBegin, RecoverBegin, Take
<1>2. Idle \in Jobs /\ Idle \in [mode : Modes, op : 0..MaxOps, target : 0..MaxOps, pc : Steps,
         todo : SUBSET OpIds, key : 0..MaxOps, want : Metadata, client : BOOLEAN]
  BY ConstantTypes DEF Jobs
<1>3. payload \in [OpIds -> [keys : SUBSET OpIds, budget : Budgets]]
  BY DEF TypeOK, Payloads
<1>4. "running" \in Statuses
  BY DEF Statuses
<1>5. CASE IssueBegin(o)
  <2>1. ops[o].kind = "issue" /\ ops[o].status = "queued" /\ Stage(o, "running")
    BY <1>5 DEF IssueBegin, Called
  <2>2. ops'[o].kind = "issue" /\ ops'[o].status = "running"
    BY <1>4, <2>1, StageShape DEF TypeOK
  <2>3. job'.mode = "issue" /\ job'.pc = "probe" /\ job'.op = o /\ job'.key = o
    BY <1>2, <1>5 DEF IssueBegin, Take
  <2>4. JobOK'
    BY <2>2, <2>3 DEF JobOK, IssueJob, ReclaimJob, RevokeJob, BudgetJob, RecoverJob, IssueSteps
  <2>5. keyRow[o].status = "none" /\ o \notin received
    BY <2>1 DEF Books, RowsOK, Untouched
  <2>6. ProgressOK' /\ WantOK' /\ WrittenOK'
    BY <1>1, <2>3, <2>5 DEF ProgressOK, WantOK, WrittenOK, Closing, Answered
  <2> QED
    BY <2>4, <2>6 DEF Plan
<1>6. CASE IssueAgain(o) \/ DrainIssue(o)
  <2>1. ops[o].kind = "issue" /\ ops[o].status \in Reclaims /\ UNCHANGED ops
    BY <1>6 DEF IssueAgain, DrainIssue, Called, Reclaimable, Reclaims
  <2>2. job'.mode = "reclaim" /\ job'.pc = "find" /\ job'.op = o /\ job'.key = o /\ job'.todo = {}
    BY <1>2, <1>6 DEF IssueAgain, DrainIssue, ReclaimFields, Take
  <2>3. JobOK'
    BY <2>1, <2>2 DEF JobOK, IssueJob, ReclaimJob, RevokeJob, BudgetJob, RecoverJob, DeleteSteps
  <2>4. ProgressOK' /\ WantOK' /\ WrittenOK'
    BY <1>1, <2>2 DEF ProgressOK, WantOK, WrittenOK, Closing, Answered
  <2> QED
    BY <2>3, <2>4 DEF Plan
<1>7. CASE RevokeBegin(o)
  <2>1. /\ ops[o].kind = "revoke" /\ Stage(o, "running")
        /\ \A k \in payload[o].keys : keyRow[k].status # "none"
    BY <1>7 DEF RevokeBegin, Called
  <2>2. ops'[o].kind = "revoke"
    BY <1>4, <2>1, StageShape DEF TypeOK
  <2>3. PICK k \in payload[o].keys :
          Take(o, [Idle EXCEPT !.mode = "revoke", !.pc = "find", !.key = k,
                               !.todo = payload[o].keys \ {k}])
    BY <1>7 DEF RevokeBegin
  <2>4. /\ job'.mode = "revoke" /\ job'.pc = "find" /\ job'.op = o /\ job'.key = k
        /\ job'.todo = payload[o].keys \ {k}
    BY <1>2, <2>3 DEF Take
  <2>5. JobOK'
    BY <1>1, <2>2, <2>4 DEF JobOK, IssueJob, ReclaimJob, RevokeJob, BudgetJob, RecoverJob,
                            DeleteSteps
  <2>6. ProgressOK'
    BY <1>1, <2>1, <2>4 DEF ProgressOK, Answered
  <2>7. WantOK' /\ WrittenOK'
    BY <1>1, <2>4 DEF WantOK, WrittenOK, Closing
  <2> QED
    BY <2>5, <2>6, <2>7 DEF Plan
<1>8. CASE BudgetBegin(o)
  <2>1. /\ ops[o].kind = "budget" /\ ops[o].status # "updated" /\ UNCHANGED ops
        /\ keyRow[TheKey(o)].status = "active"
    BY <1>8 DEF BudgetBegin, Called
  <2>2. payload[o].keys = {TheKey(o)} /\ TheKey(o) \in OpIds
    BY <2>1, TheKeyOf DEF Books
  <2>3. job'.mode = "budget" /\ job'.pc = "look" /\ job'.op = o /\ job'.key = TheKey(o)
        /\ job'.target = o
    BY <1>2, <1>8 DEF BudgetBegin, Take
  <2>4. JobOK'
    BY <1>1, <2>1, <2>2, <2>3 DEF JobOK, IssueJob, ReclaimJob, RevokeJob, BudgetJob, RecoverJob,
                                  BudgetSteps
  <2>5. ProgressOK' /\ WantOK' /\ WrittenOK'
    BY <1>1, <2>1, <2>3 DEF ProgressOK, WantOK, WrittenOK, Closing, Answered
  <2> QED
    BY <2>4, <2>5 DEF Plan
<1>9. CASE RecoverBegin(o)
  <2> DEFINE t == recoveryOp
  <2>1. t # 0 /\ ops[o].kind = "recover" /\ UNCHANGED ops
    BY <1>9 DEF RecoverBegin, Called
  <2>2. t \in OpIds /\ ops[t].status \notin Untouched
        /\ (ops[t].kind = "issue" => ops[t].status \in {"recovery-required", "failed"})
    BY <2>1, StoreAssumption DEF TypeOK, StoreTypeOK, Books, RowsOK
  <2>3. /\ job'.mode = "recover" /\ job'.op = o /\ job'.target = t /\ job'.pc \in {"find", "look"}
        /\ \/ ops[t].kind = "issue" /\ job'.pc = "find" /\ job'.key = t /\ job'.todo = {}
           \/ /\ ops[t].kind = "revoke" /\ job'.pc = "find"
              /\ job'.key \in payload[t].keys /\ job'.todo \subseteq payload[t].keys
           \/ ops[t].kind = "budget" /\ job'.pc = "look" /\ payload[t].keys = {job'.key}
    <3>1. CASE ops[t].kind = "issue" /\
               Take(o, [Idle EXCEPT !.mode = "recover", !.target = t, !.pc = "find",
                                    !.key = t, !.todo = {}])
      BY <1>2, <3>1 DEF Take
    <3>2. CASE ops[t].kind = "revoke" /\ \E k \in payload[t].keys :
               Take(o, [Idle EXCEPT !.mode = "recover", !.target = t, !.pc = "find",
                                    !.key = k, !.todo = payload[t].keys \ {k}])
      <4>1. PICK k \in payload[t].keys :
               Take(o, [Idle EXCEPT !.mode = "recover", !.target = t, !.pc = "find",
                                    !.key = k, !.todo = payload[t].keys \ {k}])
        BY <3>2
      <4> QED
        BY <1>2, <3>2, <4>1 DEF Take
    <3>3. CASE ops[t].kind = "budget" /\
               Take(o, [Idle EXCEPT !.mode = "recover", !.target = t, !.pc = "look",
                                    !.key = TheKey(t), !.todo = {}])
      <4>1. payload[t].keys = {TheKey(t)}
        BY <2>2, <3>3, TheKeyOf DEF Books
      <4> QED
        BY <1>2, <3>3, <4>1 DEF Take
    <3> QED
      BY <1>9, <3>1, <3>2, <3>3 DEF RecoverBegin
  <2>4. JobOK'
    BY <1>1, <2>1, <2>2, <2>3 DEF JobOK, IssueJob, ReclaimJob, RevokeJob, BudgetJob, RecoverJob,
                                  DeleteSteps, BudgetSteps
  <2>5. ProgressOK' /\ WantOK' /\ WrittenOK'
    BY <1>1, <2>1, <2>2, <2>3 DEF ProgressOK, WantOK, WrittenOK, Closing, Answered
  <2> QED
    BY <2>4, <2>5 DEF Plan
<1> QED
  BY <1>5, <1>6, <1>7, <1>8, <1>9 DEF Begin

(* An issuance that goes on.                                               *)
LEMMA PlanIssue ==
    ASSUME TypeOK, Books, Plan, IssueStep
    PROVE  Plan'
<1> USE PlanIdle
<1>0. /\ job.pc \in IssueSteps /\ UNCHANGED <<payload, edits>>
      /\ UNCHANGED received \/ IssueDeliver
      /\ UNCHANGED ops \/ IssueIssued \/ Release
  BY DEF IssueStep, IssueProbe, IssueGenerate, IssueReadback, IssueInsert, IssueIssued, IssueDeliver,
         IssueCompensate, IssueConfirm, At, IssueSteps, Reads, Staged, Outside, NoRows, NoStore
<1>1. /\ job.mode = "issue" /\ job.op \in OpIds /\ job.key = job.op
      /\ ops[job.op].kind = "issue" /\ job.op \notin received
      /\ ops[job.op].status = IF job.pc = "deliver" THEN "issued" ELSE "running"
  BY <1>0, JobShape DEF Plan, JobOK, IssueJob, ProgressOK
<1>2. ASSUME NEW pc \in IssueSteps \ {"probe"}, GoTo(pc),
             UNCHANGED received,
             ops'[job.op].kind = "issue",
             ops'[job.op].status = IF pc = "deliver" THEN "issued" ELSE "running",
             pc \in {"generate", "readback", "insert"} => keyRow'[job.key].status = "none",
             pc \in Answered => keyRow'[job.key].status # "none",
             edits = 0 /\ pc \in {"readback", "insert"} /\ gkey'[job.key].live =>
               gkey'[job.key].meta.quota = payload[job.op].budget
      PROVE  Plan'
  <2>1. /\ job'.pc = pc /\ job'.mode = "issue" /\ job'.op = job.op /\ job'.key = job.key
    BY <1>1, <1>2, GoToShape DEF TypeOK, Steps
  <2>2. JobOK'
    BY <1>1, <1>2, <2>1 DEF JobOK, IssueJob, ReclaimJob, RevokeJob, BudgetJob, RecoverJob, IssueSteps
  <2>3. ProgressOK'
    BY <1>0, <1>1, <1>2, <2>1 DEF ProgressOK, IssueSteps
  <2>4. WantOK'
    BY <1>2, <2>1 DEF WantOK, IssueSteps
  <2>5. WrittenOK'
    BY <1>0, <1>1, <1>2, <2>1 DEF WrittenOK, IssueSteps, Closing
  <2> QED
    BY <2>2, <2>3, <2>4, <2>5 DEF Plan
<1>3. job.pc \in {"probe", "generate", "readback", "insert"} => keyRow[job.key].status = "none"
  BY DEF Plan, ProgressOK
<1>4. CASE IssueProbe
  BY <1>0, <1>1, <1>2, <1>3, <1>4
     DEF IssueProbe, At, Reads, NoStore, NoRows, Answered, IssueSteps
<1>5. CASE IssueGenerate
  <2>1. /\ job.pc = "generate" /\ UNCHANGED <<ops, keyRow, received>>
        /\ GoTo("readback") \/ GoTo("compensate")
    BY <1>5 DEF IssueGenerate, At, NoStore, NoRows
  <2>2. GoTo("readback") => gkey'[job.key].meta.quota = payload[job.op].budget
    <3> SUFFICES ASSUME GoTo("readback") PROVE gkey'[job.key].meta.quota = payload[job.op].budget
      OBVIOUS
    <3>1. job'.pc = "readback"
      BY GoToShape DEF TypeOK, Steps, IssueSteps
    <3>2. ~GoTo("compensate")
      BY <3>1, GoToShape DEF TypeOK, Steps, IssueSteps
    <3> DEFINE new == [live |-> TRUE, meta |-> [quota |-> payload[job.op].budget, log |-> <<>>,
                                                tagged |-> TRUE]]
    <3>3. new.meta.quota = payload[job.op].budget
      OBVIOUS
    <3> HIDE DEF new
    <3>4. gkey' = [gkey EXCEPT ![job.key] = new]
      BY <1>5, <3>2 DEF IssueGenerate, new
    <3> QED
      BY <1>1, <3>3, <3>4 DEF TypeOK
  <2> QED
    BY <1>1, <1>2, <1>3, <2>1, <2>2 DEF Answered, IssueSteps
<1>6. CASE IssueReadback
  <2>1. /\ job.pc = "readback" /\ UNCHANGED <<ops, keyRow, received, gkey>>
        /\ GoTo("insert") \/ GoTo("compensate")
    BY <1>6 DEF IssueReadback, At, Reads, NoStore, NoRows
  <2>2. edits = 0 /\ gkey[job.key].live => gkey[job.key].meta.quota = payload[job.op].budget
    BY <2>1 DEF Plan, WrittenOK
  <2> QED
    BY <1>1, <1>2, <1>3, <2>1, <2>2 DEF Answered, IssueSteps
<1>7. CASE IssueInsert
  <2>1. /\ job.pc = "insert" /\ UNCHANGED <<ops, received, gkey>>
        /\ \/ GoTo("issued") /\ keyRow'[job.key].status = "active"
           \/ GoTo("compensate")
    <3> DEFINE row == [status |-> "active", budget |-> payload[job.op].budget]
    <3>1. row.status = "active"
      OBVIOUS
    <3> HIDE DEF row
    <3>2. /\ job.pc = "insert" /\ UNCHANGED <<ops, received, gkey>>
          /\ \/ GoTo("issued") /\ keyRow' = [keyRow EXCEPT ![job.key] = row]
             \/ GoTo("compensate")
      BY <1>7 DEF IssueInsert, At, NoStore, row
    <3> QED
      BY <1>1, <3>1, <3>2 DEF TypeOK
  <2> QED
    BY <1>1, <1>2, <2>1 DEF Answered, IssueSteps
<1>8. CASE IssueIssued
  <2>1. job.pc = "issued" /\ UNCHANGED <<keyRow, received, gkey>> /\ keyRow[job.key].status # "none"
    BY <1>8 DEF IssueIssued, At, Reads, Staged, NoRows, Plan, ProgressOK, Answered
  <2>2. CASE Stage(job.op, "issued") /\ GoTo("deliver")
    <3>1. ops'[job.op].kind = "issue" /\ ops'[job.op].status = "issued"
      BY <1>1, <2>2, StageShape DEF TypeOK, Statuses
    <3> QED
      BY <1>1, <1>2, <2>1, <2>2, <3>1 DEF Answered, IssueSteps
  <2>3. CASE UNCHANGED ops /\ GoTo("compensate")
    BY <1>1, <1>2, <2>1, <2>3 DEF Answered, IssueSteps
  <2> QED
    BY <1>8, <2>2, <2>3 DEF IssueIssued, Staged, Reads, NoStore
<1>9. CASE IssueDeliver \/ IssueConfirm
  BY <1>9 DEF IssueDeliver, IssueConfirm, Release
<1>10. CASE IssueCompensate
  <2>1. CASE GoTo("confirm") /\ NoStore /\ NoRows /\ job.pc = "compensate"
    BY <1>1, <1>2, <2>1 DEF NoStore, NoRows, Answered, IssueSteps
  <2>2. CASE Release
    BY <2>2 DEF Release
  <2> QED
    BY <1>10, <2>1, <2>2 DEF IssueCompensate, At
<1> QED
  BY <1>4, <1>5, <1>6, <1>7, <1>8, <1>9, <1>10 DEF IssueStep

(* Revoking a key goes on.                                                 *)
LEMMA PlanDelete ==
    ASSUME TypeOK, Books, Plan, DeleteStep
    PROVE  Plan'
<1> USE PlanIdle
<1>1. job.pc \in DeleteSteps
  BY DEF DeleteStep, KeyFind, KeyDelete, KeyGone, KeyRowRevoked, At, DeleteSteps
<1>2. /\ job.mode \in {"reclaim", "revoke", "recover"} /\ job.op \in OpIds /\ job.key \in OpIds
      /\ job.mode = "recover" => job.target \in OpIds /\ ops[job.target].kind \in {"issue", "revoke"}
  <2>1. job.pc # "idle" /\ job.pc \notin BudgetSteps
        /\ job.pc \notin (BudgetSteps \ {"start", "again", "updated"})
                              \cup {"clear", "closeTarget", "closeSelf"}
    BY <1>1 DEF DeleteSteps, BudgetSteps
  <2>2. job.mode \in {"reclaim", "revoke", "recover"} /\ job.op \in OpIds /\ job.key \in OpIds
    BY <1>1, <2>1, JobShape DEF Plan
  <2>3. job.mode = "recover" => job.target \in OpIds /\ ops[job.target].kind \in {"issue", "revoke"}
    BY <2>1 DEF Plan, JobOK, RecoverJob
  <2> QED
    BY <2>2, <2>3
<1>3. UNCHANGED <<payload, edits>>
  BY DEF DeleteStep, KeyFind, KeyDelete, KeyGone, KeyRowRevoked, Reads, Trouble, Outside
<1>4. ASSUME NEW pc \in {"delete", "gone", "row"}, GoTo(pc), UNCHANGED <<ops, keyRow, received>>,
             pc = "row" => ~gkey'[job.key].live
      PROVE  Plan'
  <2>1. /\ job'.pc = pc /\ job'.mode = job.mode /\ job'.op = job.op /\ job'.key = job.key
        /\ job'.todo = job.todo /\ job'.target = job.target
    BY <1>4, GoToShape DEF TypeOK, Steps, DeleteSteps
  <2>2. JobOK'
    <3>1. job'.mode \in {"reclaim", "revoke", "recover"} /\ pc \in DeleteSteps
      BY <1>2, <2>1 DEF DeleteSteps
    <3>2. ReclaimJob'
      BY <1>4, <2>1, <3>1 DEF Plan, JobOK, ReclaimJob
    <3>3. RevokeJob'
      BY <1>3, <1>4, <2>1, <3>1 DEF Plan, JobOK, RevokeJob
    <3>4. RecoverJob'
      BY <1>2, <1>3, <1>4, <2>1, <3>1 DEF Plan, JobOK, RecoverJob
    <3> QED
      BY <3>1, <3>2, <3>3, <3>4 DEF JobOK, IssueJob, BudgetJob
  <2>3. ProgressOK'
    BY <1>1, <1>2, <1>3, <1>4, <2>1 DEF Plan, ProgressOK, Answered, DeleteSteps
  <2>4. WantOK' /\ WrittenOK'
    BY <1>4, <2>1 DEF WantOK, WrittenOK, Closing
  <2> QED
    BY <2>2, <2>3, <2>4 DEF Plan
<1>5. Trouble => Plan'
  BY TroubleShape
<1>6. CASE KeyFind
  <2>1. CASE Reads /\ GoTo(IF K.live THEN "delete" ELSE "row")
    BY <1>4, <2>1 DEF Reads, NoStore, NoRows, K
  <2> QED
    BY <1>5, <1>6, <2>1 DEF KeyFind
<1>7. CASE KeyDelete
  BY <1>4, <1>5, <1>7 DEF KeyDelete, NoStore, NoRows
<1>8. CASE KeyGone
  BY <1>4, <1>5, <1>8 DEF KeyGone, Reads, NoStore, NoRows, K
<1>9. CASE KeyRowRevoked
  <2>1. /\ job.pc = "row" /\ UNCHANGED <<ops, gkey, received>> /\ MarkRevoked(job.key)
    BY <1>9 DEF KeyRowRevoked, At, NoStore
  <2>2. ~gkey[job.key].live
    BY <2>1 DEF Plan, ProgressOK
  <2>3. keyRow \in [OpIds -> [status : {"none", "active", "revoked"}, budget : Budgets]]
    BY DEF TypeOK, KeyRows
  <2>4. /\ \A k \in OpIds : k # job.key => keyRow'[k] = keyRow[k]
        /\ keyRow'[job.key].status = IF keyRow[job.key].status = "none" THEN "none" ELSE "revoked"
    BY <1>2, <2>1, <2>3 DEF MarkRevoked
  <2>5. payload \in [OpIds -> [keys : SUBSET OpIds, budget : Budgets]]
    BY DEF TypeOK, Payloads
  <2>6. job.mode = "revoke" => \A k \in payload[job.op].keys :
          /\ keyRow'[k].status # "none"
          /\ k \notin job.todo => keyRow'[k].status = "revoked"
    BY <1>2, <2>1, <2>4, <2>5 DEF Plan, ProgressOK
  <2>7. CASE job.todo = {} /\ GoTo(AfterRow)
    <3>1. /\ AfterRow \in Steps
          /\ job.mode = "reclaim" => AfterRow = "stageFailed"
          /\ job.mode = "revoke" => AfterRow = "stageRevoked"
          /\ job.mode = "recover" => AfterRow = "clear"
      BY <1>2 DEF AfterRow, Steps, CloseSteps
    <3>2. /\ job'.pc = AfterRow /\ job'.mode = job.mode /\ job'.op = job.op /\ job'.key = job.key
          /\ job'.todo = job.todo /\ job'.target = job.target
      BY <2>7, <3>1, GoToShape DEF TypeOK
    <3>3. CASE job.mode = "reclaim"
      <4>1. JobOK'
        BY <2>1, <3>1, <3>2, <3>3
           DEF Plan, JobOK, IssueJob, ReclaimJob, RevokeJob, BudgetJob, RecoverJob
      <4>2. ProgressOK' /\ WantOK' /\ WrittenOK'
        BY <2>1, <2>2, <3>1, <3>2, <3>3 DEF ProgressOK, WantOK, WrittenOK, Closing, Answered
      <4> QED
        BY <4>1, <4>2 DEF Plan
    <3>4. CASE job.mode = "revoke"
      <4>1. JobOK'
        BY <1>3, <2>1, <3>1, <3>2, <3>4
           DEF Plan, JobOK, IssueJob, ReclaimJob, RevokeJob, BudgetJob, RecoverJob
      <4>2. ProgressOK'
        BY <1>3, <2>6, <2>7, <3>1, <3>2, <3>4 DEF ProgressOK, Answered
      <4>3. WantOK' /\ WrittenOK'
        BY <3>1, <3>2, <3>4 DEF WantOK, WrittenOK, Closing
      <4> QED
        BY <4>1, <4>2, <4>3 DEF Plan
    <3>5. CASE job.mode = "recover"
      <4>1. JobOK'
        BY <1>2, <1>3, <2>1, <3>1, <3>2, <3>5
           DEF Plan, JobOK, IssueJob, ReclaimJob, RevokeJob, BudgetJob, RecoverJob
      <4>2. ops[job.target].kind = "issue" => job.key = job.target
        BY <3>5 DEF Plan, JobOK, RecoverJob
      <4>3. ProgressOK'
        BY <2>1, <2>2, <3>1, <3>2, <3>5, <4>2 DEF Plan, ProgressOK, Answered
      <4>4. WantOK' /\ WrittenOK'
        BY <1>2, <2>1, <3>1, <3>2, <3>5 DEF WantOK, WrittenOK, Closing
      <4> QED
        BY <4>1, <4>3, <4>4 DEF Plan
    <3> QED
      BY <1>2, <3>3, <3>4, <3>5
  <2>8. CASE \E k \in job.todo : job' = [job EXCEPT !.pc = "find", !.key = k, !.todo = @ \ {k}]
    <3>1. PICK k \in job.todo : job' = [job EXCEPT !.pc = "find", !.key = k, !.todo = @ \ {k}]
      BY <2>8
    <3>2. /\ job'.pc = "find" /\ job'.mode = job.mode /\ job'.op = job.op /\ job'.key = k
          /\ job'.todo = job.todo \ {k} /\ job'.target = job.target
      BY <3>1 DEF TypeOK, Jobs
    <3>3. \/ job.mode = "revoke"
          \/ job.mode = "recover" /\ ops[job.target].kind = "revoke"
      BY <1>2 DEF Plan, JobOK, ReclaimJob, RecoverJob
    <3>4. CASE job.mode = "revoke"
      <4>1. JobOK'
        BY <1>3, <2>1, <3>2, <3>4
           DEF Plan, JobOK, IssueJob, ReclaimJob, RevokeJob, BudgetJob, RecoverJob, DeleteSteps
      <4>2. ProgressOK'
        BY <1>3, <2>6, <3>2, <3>4 DEF ProgressOK, Answered
      <4>3. WantOK' /\ WrittenOK'
        BY <3>2, <3>4 DEF WantOK, WrittenOK, Closing
      <4> QED
        BY <4>1, <4>2, <4>3 DEF Plan
    <3>5. CASE job.mode = "recover" /\ ops[job.target].kind = "revoke"
      <4>1. JobOK'
        BY <1>2, <1>3, <2>1, <3>2, <3>5
           DEF Plan, JobOK, IssueJob, ReclaimJob, RevokeJob, BudgetJob, RecoverJob, DeleteSteps
      <4>2. ProgressOK'
        BY <2>1, <3>2, <3>5 DEF Plan, ProgressOK, Answered
      <4>3. WantOK' /\ WrittenOK'
        BY <3>2, <3>5 DEF WantOK, WrittenOK, Closing
      <4> QED
        BY <4>1, <4>2, <4>3 DEF Plan
    <3> QED
      BY <3>3, <3>4, <3>5
  <2> QED
    BY <1>9, <2>7, <2>8 DEF KeyRowRevoked
<1> QED
  BY <1>6, <1>7, <1>8, <1>9 DEF DeleteStep

LEMMA AppendShape ==
    ASSUME NEW S, NEW log \in Seq(S), NEW e \in S
    PROVE  /\ Len(log) \in Nat /\ DOMAIN log = 1..Len(log)
           /\ DOMAIN Append(log, e) = 1..Len(log) + 1 /\ Len(Append(log, e)) = Len(log) + 1
           /\ \A i \in 1..Len(log) : Append(log, e)[i] = log[i]
           /\ Append(log, e)[Len(log) + 1] = e
           /\ Append(log, e) # <<>>
OBVIOUS

(* The metadata with one more mark: the old ones, and the new one last.    *)
LEMMA UpdatedLog ==
    ASSUME TypeOK, Books, job.key \in OpIds, job.target \in OpIds,
           ops[job.target].kind = "budget", payload[job.target].keys = {job.key},
           ~Marks(gkey[job.key].meta, job.target)
    PROVE  /\ LogOf(Updated, job.key)
           /\ Updated.log # <<>> /\ Updated.log[Len(Updated.log)] = job.target
           /\ Updated.quota = Wanted /\ Marks(Updated, job.target)
           /\ \A i \in DOMAIN gkey[job.key].meta.log : Marks(Updated, gkey[job.key].meta.log[i])
<1> DEFINE log == gkey[job.key].meta.log
<1>1. log \in Seq(OpIds)
  BY LogType
<1>2. Updated.log = Append(log, job.target) /\ Updated.quota = Wanted
  BY UpdatedType
<1>3. LogOf(gkey[job.key].meta, job.key) /\ \A i \in DOMAIN log : log[i] # job.target
  BY DEF Books, LogsOK, Marks
<1> DEFINE new == Append(log, job.target)
           n   == Len(log) + 1
<1>4. /\ DOMAIN log = 1..Len(log) /\ Len(log) \in Nat
      /\ DOMAIN new = 1..n /\ Len(new) = n /\ new # <<>>
      /\ \A i \in 1..Len(log) : new[i] = log[i]
      /\ new[n] = job.target
  BY <1>1, AppendShape
<1> HIDE DEF new, log
<1>5. /\ \A i \in DOMAIN log : i \in DOMAIN new /\ new[i] = log[i] /\ i # n
      /\ \A i \in DOMAIN new : i \in DOMAIN log \/ i = n
      /\ n \in DOMAIN new
  BY <1>4
<1> HIDE DEF n
<1>6. LogOf(Updated, job.key)
  <2>1. \A i \in DOMAIN log : payload[log[i]].keys = {job.key} /\ ops[log[i]].kind = "budget"
    BY <1>3 DEF LogOf, log
  <2>2. \A i \in DOMAIN new : payload[new[i]].keys = {job.key} /\ ops[new[i]].kind = "budget"
    BY <1>4, <1>5, <2>1
  <2>3. \A i, j \in DOMAIN log : log[i] = log[j] => i = j
    BY <1>3 DEF LogOf, log
  <2>4. ASSUME NEW i \in DOMAIN new, NEW j \in DOMAIN new, new[i] = new[j] PROVE i = j
    BY <1>3, <1>4, <1>5, <2>3, <2>4
  <2>5. Updated.log = new
    BY <1>2 DEF new, log
  <2> QED
    BY <2>2, <2>4, <2>5 DEF LogOf
<1>7. Marks(Updated, job.target)
  BY <1>2, <1>4, <1>5 DEF Marks, new, log
<1>8. \A i \in DOMAIN log : Marks(Updated, log[i])
  BY <1>2, <1>5 DEF Marks, new, log
<1> QED
  BY <1>2, <1>4, <1>6, <1>7, <1>8 DEF new, log

(* Setting a budget goes on.                                               *)
LEMMA PlanBudget ==
    ASSUME TypeOK, Books, Plan, BudgetStep
    PROVE  Plan'
<1> USE PlanIdle
<1>1. job.pc \in BudgetSteps
  BY DEF BudgetStep, BudgetLook, BudgetStart, BudgetAgain, BudgetUpdate, BudgetCheck, BudgetRow,
         At, BudgetSteps
<1>2. /\ job.mode \in {"budget", "recover"} /\ job.op \in OpIds /\ job.key \in OpIds
      /\ job.target \in OpIds /\ ops[job.target].kind = "budget"
      /\ payload[job.target].keys = {job.key}
      /\ job.pc \in {"start", "again", "updated"} => job.mode = "budget"
      /\ job.mode = "budget" => /\ job.target = job.op /\ ops[job.target].status # "updated"
                                /\ keyRow[job.key].status # "none"
      /\ job.mode = "recover" => /\ ops[job.op].kind = "recover"
                                 /\ ops[job.target].status \notin Untouched
  <2>1. job.pc # "idle"
    BY <1>1 DEF BudgetSteps
  <2> QED
    BY <1>1, <2>1, JobShape DEF Plan, JobOK, BudgetJob, RecoverJob, ProgressOK
<1>3. UNCHANGED <<payload, edits, received>>
  BY DEF BudgetStep, BudgetLook, BudgetStart, BudgetAgain, BudgetUpdate, BudgetCheck, BudgetRow,
         Declined, Reads, Staged, Trouble, Outside, NoRows
<1>4. ASSUME job'.mode = job.mode, job'.op = job.op, job'.target = job.target, job'.key = job.key,
             job'.pc \in BudgetSteps \cup {"clear"},
             job.mode = "budget" => job'.pc \in BudgetSteps,
             job.mode = "recover" => job'.pc \notin {"start", "again", "updated"},
             \A o \in OpIds : ops'[o].kind = ops[o].kind,
             ops'[job.target].status = "updated" => ops[job.target].status = "updated",
             job.mode = "recover" => UNCHANGED ops,
             keyRow'[job.key].status = keyRow[job.key].status
      PROVE  JobOK' /\ ProgressOK'
  <2>1. JobOK'
    <3>1. BudgetJob'
      BY <1>2, <1>3, <1>4 DEF BudgetJob
    <3>2. job.mode = "recover" =>
            job'.pc \in (BudgetSteps \ {"start", "again", "updated"})
                              \cup {"clear", "closeTarget", "closeSelf"}
      BY <1>4
    <3>3. RecoverJob'
      BY <1>2, <1>3, <1>4, <3>2 DEF RecoverJob
    <3> QED
      BY <1>2, <1>4, <3>1, <3>3 DEF JobOK, IssueJob, ReclaimJob, RevokeJob
  <2>2. ProgressOK'
    BY <1>2, <1>4 DEF ProgressOK, BudgetSteps, Answered
  <2> QED
    BY <2>1, <2>2
<1>5. Trouble => Plan'
  BY TroubleShape
<1>6. Release => Plan'
  BY DEF Release
<1>7. ASSUME job' = [job EXCEPT !.pc = "update", !.want = Updated],
             UNCHANGED <<ops, gkey, keyRow>>, K.live, ~Marked
      PROVE  Plan'
  <2>1. /\ job'.mode = job.mode /\ job'.op = job.op /\ job'.target = job.target
        /\ job'.key = job.key /\ job'.pc = "update" /\ job'.want = Updated
    BY <1>7 DEF TypeOK, Jobs
  <2>2. JobOK' /\ ProgressOK'
    BY <1>4, <1>7, <2>1 DEF BudgetSteps
  <2>3. ~Marks(gkey[job.key].meta, job.target) /\ gkey[job.key].live
    BY <1>7 DEF Marked, Marks, K
  <2>4. /\ LogOf(Updated, job.key)
        /\ Updated.log # <<>> /\ Updated.log[Len(Updated.log)] = job.target
        /\ Updated.quota = Wanted /\ Marks(Updated, job.target)
        /\ \A i \in DOMAIN gkey[job.key].meta.log : Marks(Updated, gkey[job.key].meta.log[i])
    BY <1>2, <2>3, UpdatedLog
  <2>5. Wanted' = Wanted
    BY <1>3, <2>1 DEF Wanted
  <2>6. WantOK'
    <3>1. job'.want = Updated /\ LogOf(Updated, job.key)
      BY <2>1, <2>4
    <3>2. LogOf(job.want, job.key)'
      BY <1>3, <1>7, <2>1, <3>1 DEF LogOf
    <3>3. Marks(job.want, job.target)' <=> Marks(Updated, job.target)
      BY <2>1 DEF Marks
    <3> QED
      BY <2>1, <2>4, <2>5, <3>2, <3>3 DEF WantOK
  <2>7. WrittenOK'
    <3>1. edits = 0 => ops[job.target].status # "updated"
      BY <1>2, <2>3 DEF Books, UpdatedMarked
    <3>2. ASSUME NEW e, Marks(Updated, e) PROVE Marks(job'.want, e)
      BY <2>1, <3>2 DEF Marks
    <3>3. \A i \in DOMAIN gkey'[job'.key].meta.log :
            Marks(job'.want, gkey'[job'.key].meta.log[i])
      BY <1>7, <2>1, <2>4, <3>2
    <3> QED
      BY <1>3, <1>7, <2>1, <3>1, <3>3 DEF WrittenOK, Closing, Marks
  <2> QED
    BY <2>2, <2>6, <2>7 DEF Plan
<1>8. CASE BudgetLook
  <2>1. UNCHANGED <<ops, gkey, keyRow>> \/ Release
    BY <1>8 DEF BudgetLook, Declined, Reads, NoStore, NoRows
  <2>2. CASE /\ UNCHANGED <<ops, gkey, keyRow>> /\ K.live /\ Marked /\ K.meta.quota = Wanted
             /\ job' = [job EXCEPT !.want = K.meta,
                          !.pc = IF job.mode = "recover" THEN "check" ELSE "budgetRow"]
    <3>1. /\ job'.mode = job.mode /\ job'.op = job.op /\ job'.target = job.target
          /\ job'.key = job.key /\ job'.want = gkey[job.key].meta
          /\ job'.pc = IF job.mode = "recover" THEN "check" ELSE "budgetRow"
      BY <2>2 DEF TypeOK, Jobs, K
    <3>2. JobOK' /\ ProgressOK'
      BY <1>2, <1>4, <2>2, <3>1 DEF BudgetSteps
    <3>3. gkey[job.key].meta.quota = Wanted /\ Marks(gkey[job.key].meta, job.target)
      BY <2>2 DEF K, Marked, Marks
    <3>4. Wanted' = Wanted
      BY <1>3, <3>1 DEF Wanted
    <3>5. Marks(job.want, job.target)' /\ Marks(gkey[job.key].meta, job.target)'
      BY <2>2, <3>1, <3>3 DEF Marks
    <3>6. WantOK'
      BY <3>1, <3>3, <3>4, <3>5 DEF WantOK
    <3>7. WrittenOK'
      BY <2>2, <3>1, <3>3, <3>4, <3>5 DEF WrittenOK, Closing
    <3> QED
      BY <3>2, <3>6, <3>7 DEF Plan
  <2>3. CASE /\ UNCHANGED <<ops, gkey, keyRow>> /\ K.live /\ ~Marked
             /\ job' = [job EXCEPT !.pc = "update", !.want = Updated]
    BY <1>7, <2>3
  <2>4. CASE /\ UNCHANGED <<ops, gkey, keyRow>> /\ ~Marked /\ job.mode # "recover"
             /\ job' = [job EXCEPT !.pc = "start", !.want = K.meta]
    <3>1. /\ job'.mode = job.mode /\ job'.op = job.op /\ job'.target = job.target
          /\ job'.key = job.key /\ job'.pc = "start" /\ job'.want = gkey[job.key].meta
      BY <2>4 DEF TypeOK, Jobs, K
    <3>2. JobOK' /\ ProgressOK'
      BY <1>2, <1>4, <2>4, <3>1 DEF BudgetSteps
    <3>3. ~Marks(gkey[job.key].meta, job.target) /\ LogOf(gkey[job.key].meta, job.key)
      <4>1. ~Marks(gkey[job.key].meta, job.target)
        BY <2>4 DEF K, Marked, Marks
      <4> QED
        BY <1>2, <4>1 DEF Books, LogsOK
    <3>4. ~Marks(job.want, job.target)' /\ LogOf(job.want, job.key)'
      <4>1. ~Marks(job.want, job.target)'
        BY <3>1, <3>3 DEF Marks
      <4>2. /\ job'.want = gkey[job.key].meta /\ job'.key = job.key
            /\ UNCHANGED <<payload, ops>> /\ LogOf(gkey[job.key].meta, job.key)
        BY <1>3, <2>4, <3>1, <3>3
      <4>3. LogOf(job'.want, job'.key)
        BY <4>2
      <4>4. LogOf(job.want, job.key)'
        BY <4>2, <4>3 DEF LogOf
      <4> QED
        BY <4>1, <4>4
    <3>5. WantOK' /\ WrittenOK'
      BY <3>1, <3>4 DEF WantOK, WrittenOK, Closing
    <3> QED
      BY <3>2, <3>5 DEF Plan
  <2>5. Declined => Release
    BY DEF Declined
  <2> QED
    BY <1>2, <1>6, <1>8, <2>2, <2>3, <2>4, <2>5 DEF BudgetLook, Reads, NoStore, NoRows
<1>9. CASE BudgetStart
  <2>1. /\ job.pc = "start" /\ Stage(job.op, "running") /\ GoTo("again") /\ UNCHANGED <<gkey, keyRow>>
    BY <1>9 DEF BudgetStart, At, Staged, NoRows
  <2>2. /\ job'.mode = job.mode /\ job'.op = job.op /\ job'.target = job.target
        /\ job'.key = job.key /\ job'.pc = "again" /\ job'.want = job.want
    BY <2>1, GoToShape DEF TypeOK, Steps, BudgetSteps
  <2>3. /\ \A o \in OpIds : ops'[o].kind = ops[o].kind
        /\ \A o \in OpIds : ops'[o].status = "updated" => ops[o].status = "updated"
    BY <1>2, <2>1, StageShape DEF TypeOK, Statuses
  <2>4. JobOK' /\ ProgressOK'
    BY <1>2, <1>4, <2>1, <2>2, <2>3 DEF BudgetSteps
  <2>5. LogOf(job.want, job.key) /\ ~Marks(job.want, job.target)
    BY <2>1 DEF Plan, WantOK
  <2>6. ~Marks(job.want, job.target)'
    BY <2>2, <2>5 DEF Marks
  <2>7. LogOf(job.want, job.key)'
    <3>1. job.want.log \in Seq(OpIds)
      BY DEF TypeOK, Jobs, Metadata
    <3>2. \A i \in DOMAIN job.want.log : job.want.log[i] \in OpIds
      BY <3>1, SequenceShape
    <3> QED
      BY <1>3, <2>2, <2>3, <2>5, <3>2 DEF LogOf
  <2>8. WantOK' /\ WrittenOK'
    BY <2>2, <2>6, <2>7 DEF WantOK, WrittenOK, Closing
  <2> QED
    BY <2>4, <2>8 DEF Plan
<1>10. CASE BudgetAgain
  <2>1. CASE /\ K.live /\ K.meta = job.want /\ Reads
             /\ job' = [job EXCEPT !.pc = "update", !.want = Updated]
    <3>1. ~Marks(job.want, job.target)
      BY <1>10 DEF BudgetAgain, At, Plan, WantOK
    <3>2. ~Marked
      BY <2>1, <3>1 DEF Marked, Marks
    <3> QED
      BY <1>7, <2>1, <3>2 DEF Reads, NoStore, NoRows
  <2> QED
    BY <1>6, <1>10, <2>1 DEF BudgetAgain
<1>11. CASE BudgetUpdate
  <2>1. CASE /\ gkey' = [gkey EXCEPT ![job.key].meta = job.want]
             /\ NoStore /\ NoRows /\ GoTo("check")
    <3>1. job.pc = "update" /\ UNCHANGED <<ops, keyRow>>
      BY <1>11, <2>1 DEF BudgetUpdate, At, NoStore, NoRows
    <3>2. /\ job'.mode = job.mode /\ job'.op = job.op /\ job'.target = job.target
          /\ job'.key = job.key /\ job'.pc = "check" /\ job'.want = job.want
      BY <2>1, GoToShape DEF TypeOK, Steps, BudgetSteps
    <3>3. JobOK' /\ ProgressOK'
      BY <1>2, <1>4, <3>1, <3>2 DEF BudgetSteps
    <3>4. job.want.quota = Wanted /\ Marks(job.want, job.target)
      BY <3>1 DEF Plan, WantOK
    <3>5. Wanted' = Wanted /\ Marks(job.want, job.target)'
      BY <1>3, <3>2, <3>4 DEF Wanted, Marks
    <3>6. WantOK' /\ WrittenOK'
      BY <3>2, <3>4, <3>5 DEF WantOK, WrittenOK, Closing
    <3> QED
      BY <3>3, <3>6 DEF Plan
  <2> QED
    BY <1>5, <1>11, <2>1 DEF BudgetUpdate
<1>12. CASE BudgetCheck
  <2>1. CASE K.live /\ K.meta = job.want /\ Reads /\ GoTo("budgetRow")
    <3>1. job.pc = "check" /\ UNCHANGED <<ops, keyRow, gkey>>
      BY <1>12, <2>1 DEF BudgetCheck, At, Reads, NoStore, NoRows
    <3>2. /\ job'.mode = job.mode /\ job'.op = job.op /\ job'.target = job.target
          /\ job'.key = job.key /\ job'.pc = "budgetRow"
      BY <2>1, GoToShape DEF TypeOK, Steps, BudgetSteps
    <3>3. JobOK' /\ ProgressOK'
      BY <1>2, <1>4, <3>1, <3>2 DEF BudgetSteps
    <3>4. gkey[job.key].meta.quota = Wanted /\ Marks(gkey[job.key].meta, job.target)
      BY <2>1, <3>1 DEF Plan, WantOK, K
    <3>5. Wanted' = Wanted /\ Marks(gkey[job.key].meta, job.target)'
      BY <1>3, <3>1, <3>2, <3>4 DEF Wanted, Marks
    <3>6. WantOK' /\ WrittenOK'
      BY <3>1, <3>2, <3>4, <3>5 DEF WantOK, WrittenOK, Closing
    <3> QED
      BY <3>3, <3>6 DEF Plan
  <2> QED
    BY <1>5, <1>6, <1>12, <2>1 DEF BudgetCheck
<1>13. CASE BudgetRow
  <2>1. /\ job.pc = "budgetRow" /\ UNCHANGED <<ops, gkey>>
        /\ keyRow' = [keyRow EXCEPT ![job.key].budget = Wanted]
        /\ GoTo(IF job.mode = "recover" THEN "clear" ELSE "updated")
    BY <1>13 DEF BudgetRow, At, NoStore
  <2>2. /\ job'.mode = job.mode /\ job'.op = job.op /\ job'.target = job.target
        /\ job'.key = job.key /\ job'.pc = IF job.mode = "recover" THEN "clear" ELSE "updated"
    <3>1. (IF job.mode = "recover" THEN "clear" ELSE "updated") \in Steps
      BY DEF Steps, BudgetSteps, CloseSteps
    <3> QED
      BY <2>1, <3>1, GoToShape DEF TypeOK
  <2>3. keyRow'[job.key].status = keyRow[job.key].status /\ keyRow'[job.key].budget = Wanted
    BY <1>2, <2>1 DEF TypeOK, KeyRows
  <2>4. JobOK' /\ ProgressOK'
    BY <1>2, <1>4, <2>1, <2>2, <2>3 DEF BudgetSteps
  <2>5. edits = 0 /\ gkey[job.key].live =>
          gkey[job.key].meta.quota = Wanted /\ Marks(gkey[job.key].meta, job.target)
    BY <2>1 DEF Plan, WrittenOK
  <2>6. Wanted' = Wanted
    BY <1>3, <2>2 DEF Wanted
  <2>7. Marks(gkey[job.key].meta, job.target)' <=> Marks(gkey[job.key].meta, job.target)
    BY <2>1, <2>2 DEF Marks
  <2>8. WantOK' /\ WrittenOK'
    BY <1>3, <2>1, <2>2, <2>3, <2>5, <2>6, <2>7 DEF WantOK, WrittenOK, Closing
  <2> QED
    BY <2>4, <2>8 DEF Plan
<1> QED
  BY <1>8, <1>9, <1>10, <1>11, <1>12, <1>13 DEF BudgetStep

(* The end of an operation.                                                *)
LEMMA PlanClose ==
    ASSUME TypeOK, Books, Plan, CloseStep
    PROVE  Plan'
<1> USE PlanIdle
<1>1. CASE StageReclaimed \/ StageRevoked \/ StageUpdated \/ RecoverSelf
  BY <1>1 DEF StageReclaimed, StageRevoked, StageUpdated, RecoverSelf, Release
<1>2. ASSUME job.pc \in {"clear", "closeTarget"}
      PROVE  /\ job.mode = "recover" /\ job.op \in OpIds /\ job.target \in OpIds
             /\ job.key \in OpIds
             /\ ops[job.target].kind \in {"issue", "revoke", "budget"}
             /\ ops[job.target].kind = "budget" => payload[job.target].keys = {job.key}
  BY <1>2, JobShape DEF Plan, JobOK, RecoverJob, BudgetSteps, DeleteSteps
<1>3. CASE RecoverClear
  <2>1. /\ job.pc = "clear" /\ GoTo("closeTarget")
        /\ UNCHANGED <<ops, payload, gkey, keyRow, received, edits>>
    BY <1>3 DEF RecoverClear, At, Outside, NoRows
  <2>2. /\ job'.mode = job.mode /\ job'.op = job.op /\ job'.target = job.target
        /\ job'.key = job.key /\ job'.pc = "closeTarget" /\ job'.todo = job.todo
    BY <2>1, GoToShape DEF TypeOK, Steps, CloseSteps
  <2>3. JobOK'
    BY <1>2, <2>1, <2>2 DEF Plan, JobOK, IssueJob, ReclaimJob, RevokeJob, BudgetJob, RecoverJob
  <2>4. ProgressOK'
    BY <1>2, <2>1, <2>2 DEF Plan, ProgressOK, Answered
  <2>5. WantOK'
    BY <2>2 DEF WantOK
  <2>6. Wanted' = Wanted
    BY <2>1, <2>2 DEF Wanted
  <2>7. WrittenOK'
    BY <2>1, <2>2, <2>6 DEF Plan, WrittenOK, Closing, Marks
  <2> QED
    BY <2>3, <2>4, <2>5, <2>7 DEF Plan
<1>4. CASE RecoverTarget
  <2> DEFINE s == IF ops[job.target].kind = "budget" THEN "updated" ELSE "failed"
  <2>1. /\ job.pc = "closeTarget" /\ GoTo("closeSelf") /\ Stage(job.target, s)
        /\ UNCHANGED <<payload, gkey, keyRow, received, edits>>
    BY <1>4 DEF RecoverTarget, Staged, At, Outside, NoRows
  <2>2. /\ job'.mode = job.mode /\ job'.op = job.op /\ job'.target = job.target
        /\ job'.key = job.key /\ job'.pc = "closeSelf" /\ job'.todo = job.todo
    BY <2>1, GoToShape DEF TypeOK, Steps, CloseSteps
  <2>3. s \in Statuses
    BY DEF Statuses
  <2>4. /\ \A o \in OpIds : ops'[o].kind = ops[o].kind
        /\ ops'[job.target].status = s
    BY <1>2, <2>1, <2>3, StageShape DEF TypeOK
  <2>5. JobOK'
    BY <1>2, <2>1, <2>2, <2>4 DEF Plan, JobOK, IssueJob, ReclaimJob, RevokeJob, BudgetJob, RecoverJob
  <2>6. ProgressOK'
    BY <1>2, <2>1, <2>2, <2>4 DEF ProgressOK, Answered, Untouched
  <2>7. WantOK' /\ WrittenOK'
    BY <2>2 DEF WantOK, WrittenOK, Closing
  <2> QED
    BY <2>5, <2>6, <2>7 DEF Plan
<1> QED
  BY <1>1, <1>3, <1>4 DEF CloseStep

LEMMA StepPlan == TypeOK /\ Books /\ Plan /\ [Next]_vars => Plan'
<1> SUFFICES ASSUME TypeOK, Books, Plan, [Next]_vars PROVE Plan'
  OBVIOUS
<1>1. CASE JobStep
  BY <1>1, PlanIssue, PlanDelete, PlanBudget, PlanClose DEF JobStep
<1>2. CASE \E c \in Codes, kind \in left.kinds : Request(c, kind)
  BY <1>2, PlanRequest
<1>3. CASE \E o \in OpIds : Begin(o) \/ DrainIssue(o)
  BY <1>3, PlanBegin
<1>4. CASE \E k \in OpIds : EditKey(k)
  BY <1>4, PlanEdit
<1>5. CASE Crash
  BY <1>5, PlanIdle DEF Crash, Release
<1>6. CASE HangUp
  <2>1. SameJob /\ UNCHANGED <<ops, payload, gkey, keyRow, received, edits>>
    BY <1>6 DEF HangUp, SameJob, storeVars, TypeOK, Jobs
  <2> QED
    BY <2>1, PlanQuiet
<1>7. CASE \/ \E c \in Codes : SaveDraft(c) \/ Deploy(c)
           \/ \E o \in OpIds : Replay(o) \/ CallRefused(o)
           \/ UNCHANGED vars
  <2>1. SameJob /\ UNCHANGED <<ops, payload, gkey, keyRow, received, edits>>
    BY <1>7 DEF SaveDraft, Save, Deploy, Replay, CallRefused, keyVars, storeVars, vars, SameJob
  <2> QED
    BY <2>1, PlanQuiet
<1> QED
  BY <1>1, <1>2, <1>3, <1>4, <1>5, <1>6, <1>7 DEF Next

-----------------------------------------------------------------------------
(* The theorems. *)

LEMMA InitInv == Init => KeysInv
<1> USE StoreAssumption, ConstantTypes, IdleShape
<1> SUFFICES ASSUME Init PROVE KeysInv
  OBVIOUS
<1>1. TypeOK
  BY InitType
<1>2. /\ \A o \in OpIds : ops[o].kind = "apply" /\ ops[o].status = "none"
      /\ \A k \in OpIds : ~gkey[k].live /\ gkey[k].meta.log = <<>> /\ keyRow[k].status = "none"
      /\ received = {} /\ recoveryOp = 0 /\ job = Idle
  BY DEF Init, StoreInit, NoOp, NoKey, NoMeta
<1>3. PayloadOK /\ RowsOK /\ LiveKeysAccounted /\ RevokedIsGone
  BY <1>2 DEF PayloadOK, RowsOK, LiveKeysAccounted, RevokedIsGone, Untouched
<1>4. LogsOK
  BY <1>2 DEF LogsOK, LogOf
<1>5. UpdatedMarked /\ BudgetAgrees
  BY <1>2 DEF UpdatedMarked, BudgetAgrees
<1>6. JobOK
  BY <1>2 DEF JobOK, IssueJob, ReclaimJob, RevokeJob, BudgetJob, RecoverJob
<1>7. ProgressOK /\ WantOK /\ WrittenOK
  BY <1>2 DEF ProgressOK, WantOK, WrittenOK, Closing, Answered
<1> QED
  BY <1>1, <1>3, <1>4, <1>5, <1>6, <1>7 DEF KeysInv, Books, Plan

LEMMA KeysInvariant == Spec => []KeysInv
<1>1. KeysInv /\ [Next]_vars => KeysInv'
  BY StepType, StepBooks, StepPlan DEF KeysInv
<1> QED
  BY <1>1, InitInv, PTL DEF Spec

(* A row or a revocation says "revoked" only of keys that are gone from    *)
(* the gateway, whatever fails and wherever the worker stops.              *)
THEOREM RevokedKeysAreGone == Spec => []RevokedIsGone
<1>1. KeysInv => RevokedIsGone
  BY DEF KeysInv, Books
<1> QED
  BY <1>1, KeysInvariant, PTL

(* The books of keys balance: types, an operation for every live key, a    *)
(* row for every key somebody holds, and budgets that are set once and as  *)
(* the row tells while nobody edits keys at the gateway.                   *)
THEOREM KeysStayAccounted == Spec => []KeysAccounted
<1>1. ASSUME KeysInv PROVE KeysAccounted
  <2>1. TypeOK /\ LiveKeysAccounted /\ BudgetAgrees
    BY <1>1 DEF KeysInv, Books
  <2>2. ReceivedIsManaged
    BY <1>1 DEF KeysInv, Books, RowsOK, ReceivedIsManaged
  <2>3. UpdatedOnce
    BY <1>1 DEF KeysInv, Books, LogsOK, LogOf, UpdatedOnce
  <2> QED
    BY <2>1, <2>2, <2>3 DEF KeysAccounted
<1> QED
  BY <1>1, KeysInvariant, PTL

(* No step that undoes an issuance takes away a key its administrator      *)
(* holds: what is undone has not been answered, and is not again.          *)
THEOREM DeliveredKeysStay == Spec => NeverUndoesDelivered
<1>1. ASSUME KeysInv, NEW k \in OpIds, Undoing(k)
      PROVE  k \notin received
  <2>1. CASE job.mode = "issue" /\ job.op = k
    BY <1>1, <2>1 DEF KeysInv, Plan, ProgressOK
  <2>2. CASE job.mode = "reclaim" /\ job.op = k
    BY <1>1, <2>2 DEF KeysInv, Plan, JobOK, ReclaimJob, Reclaims, Books, RowsOK
  <2>3. CASE job.mode = "recover" /\ job.target = k
    BY <1>1, <2>3 DEF KeysInv, Plan, JobOK, RecoverJob, Books, RowsOK
  <2> QED
    BY <1>1, <2>1, <2>2, <2>3 DEF Undoing
<1>2. KeysInv =>
        [\A k \in OpIds :
           gkey[k].live /\ ~gkey'[k].live /\ edits' = edits /\ Undoing(k)
             => k \notin received]_vars
  BY <1>1
<1> QED
  BY <1>2, KeysInvariant, PTL DEF NeverUndoesDelivered

=============================================================================
