---------------------------- MODULE ConnectionKeys ----------------------------
(***************************************************************************)
(* Virtual keys of the agents: issuing, revoking and budgeting them at the *)
(* LiteLLM gateway, and the recovery of an operation whose outcome was not *)
(* confirmed (backend/connection_worker.py behind the connection API).     *)
(*                                                                         *)
(* The plaintext of a key exists once, in the answer to the call that made *)
(* it.  The caller gives up after 35 s, one issuance makes up to five      *)
(* gateway calls of 20 s each, a gateway call may fail after it took       *)
(* effect, and the worker may crash anywhere.  The deployment lock is tried*)
(* and never waited for: a call that finds it taken is refused.            *)
(*                                                                         *)
(* The alias of a key is derived from the operation that issues it, so the *)
(* key of operation o is called o.  A budget is a value of Budgets, one of *)
(* which stands for "unlimited".  The metadata of a key is its quota, the  *)
(* operations in its quota log and whether its routing tag is intact.      *)
(***************************************************************************)
EXTENDS ConnectionStore, Sequences, FiniteSets

CONSTANTS
    Budgets,    \* budgets an administrator may choose
    Bounds      \* bounds: a set of [kinds, budgets: what is requested; keys,
                \* edits, crashes: how many issuances, edits of keys made at
                \* the gateway by others, crashes of the worker]

ASSUME KeysAssumption ==
    /\ Budgets # {}
    /\ Bounds \subseteq [kinds : SUBSET {"issue", "revoke", "budget", "recover"},
                        budgets : SUBSET Budgets, keys : Nat, edits : Nat, crashes : Nat]

VARIABLES
    payload,    \* payload[o]: the keys and the budget the request names
    gkey,       \* gkey[k]: the key at the gateway
    keyRow,     \* keyRow[k]: its row in gateway_connection_key
    calls,      \* operations whose RPC is on its way to the worker
    job,        \* the operation holding the deployment lock
    received,   \* keys whose plaintext reached the administrator
    edits,      \* edits made so far
    left        \* what is left of the bounds

keyVars == <<payload, gkey, keyRow, calls, job, received, edits, left>>
vars == <<profile, ops, lastOp, recoveryOp, payload, gkey, keyRow, calls, job,
          received, edits, left>>

NoBudget == CHOOSE b \in Budgets : TRUE
Payloads == [keys : SUBSET OpIds, budget : Budgets]
Metadata == [quota : Budgets, log : Seq(OpIds), tagged : BOOLEAN]
GatewayKeys == [live : BOOLEAN, meta : Metadata]
KeyRows  == [status : {"none", "active", "revoked"}, budget : Budgets]

NoMeta == [quota |-> NoBudget, log |-> <<>>, tagged |-> FALSE]
NoKey  == [live |-> FALSE, meta |-> NoMeta]

IssueSteps  == {"probe", "generate", "readback", "insert", "issued", "deliver",
                "compensate", "confirm"}
DeleteSteps == {"find", "delete", "gone", "row"}
BudgetSteps == {"look", "start", "again", "update", "check", "budgetRow", "updated"}
CloseSteps  == {"stageFailed", "stageRevoked", "clear", "closeTarget", "closeSelf"}
Steps == {"idle"} \cup IssueSteps \cup DeleteSteps \cup BudgetSteps \cup CloseSteps
Modes == {"none", "issue", "reclaim", "revoke", "budget", "recover"}

Jobs == [mode : Modes, op : 0..MaxOps, target : 0..MaxOps, pc : Steps,
         todo : SUBSET OpIds, key : 0..MaxOps, want : Metadata, client : BOOLEAN]
Idle == [mode |-> "none", op |-> 0, target |-> 0, pc |-> "idle", todo |-> {},
         key |-> 0, want |-> NoMeta, client |-> FALSE]

Unlocked == job = Idle
At(pc)   == job.pc = pc
GoTo(pc) == job' = [job EXCEPT !.pc = pc]
Release  == job' = Idle

TypeOK ==
    /\ StoreTypeOK
    /\ payload \in [OpIds -> Payloads]
    /\ gkey \in [OpIds -> GatewayKeys]
    /\ keyRow \in [OpIds -> KeyRows]
    /\ calls \subseteq OpIds
    /\ job \in Jobs
    /\ received \subseteq OpIds
    /\ edits \in Nat
    /\ left \in [kinds : SUBSET Kinds, budgets : SUBSET Budgets, keys : Nat, edits : Nat,
                 crashes : Nat]

Init ==
    /\ StoreInit
    /\ payload = [o \in OpIds |-> [keys |-> {}, budget |-> NoBudget]]
    /\ gkey = [k \in OpIds |-> NoKey]
    /\ keyRow = [k \in OpIds |-> [status |-> "none", budget |-> NoBudget]]
    /\ calls = {}
    /\ job = Idle
    /\ received = {}
    /\ edits = 0
    /\ left \in Bounds

-----------------------------------------------------------------------------
(* The administrator, the API and the rest of the world. *)

IssueOps == {o \in OpIds : ops[o].kind = "issue" /\ ops[o].status # "none"}

SaveDraft(c) == Save(c) /\ UNCHANGED keyVars

(* What an apply leaves behind when it succeeds; ConnectionDeploy has it in *)
(* detail.  It needs the deployment lock like every other operation.        *)
Deploy(c) ==
    /\ Unlocked
    /\ profile[c].applied # profile[c].rev
    /\ profile' = [profile EXCEPT ![c].applied = profile[c].rev]
    /\ UNCHANGED <<ops, lastOp, recoveryOp>>
    /\ UNCHANGED keyVars

(* The API enqueues the operation and calls the worker with its id. *)
Request(c, kind) ==
    /\ kind \in left.kinds
    /\ kind = "issue" => Cardinality(IssueOps) < left.keys
    /\ Enqueue(c, kind)
    /\ \E budget \in left.budgets \cup {NoBudget}, keys \in SUBSET IssueOps :
         /\ kind = "revoke" <=> keys # {} /\ kind # "budget"
         /\ kind = "budget" => \E k \in IssueOps : keys = {k}
         /\ kind \notin {"issue", "budget"} => budget = NoBudget
         /\ payload' = [payload EXCEPT ![lastOp + 1] =
                          [keys |-> keys, budget |-> budget]]
    /\ calls' = calls \cup {lastOp + 1}
    /\ UNCHANGED <<gkey, keyRow, job, received, edits, left>>

(* The same request again: enqueue finds the idempotency key (after the     *)
(* recovery check) and the API calls the worker with the old operation.     *)
Replay(o) ==
    /\ ops[o].status # "none"
    /\ recoveryOp = 0 \/ ops[o].kind = "recover"
    /\ calls' = calls \cup {o}
    /\ UNCHANGED <<storeVars, payload, gkey, keyRow, job, received, edits, left>>

(* The call is lost, or finds the lock taken: the operation stays as it is. *)
CallRefused(o) ==
    /\ o \in calls
    /\ calls' = calls \ {o}
    /\ UNCHANGED <<storeVars, payload, gkey, keyRow, job, received, edits, left>>

(* The API stops waiting for the worker's answer; the worker goes on. *)
HangUp ==
    /\ job.client
    /\ job' = [job EXCEPT !.client = FALSE]
    /\ UNCHANGED <<storeVars, payload, gkey, keyRow, calls, received, edits, left>>

(* Somebody changes a key with the gateway's own tools. *)
EditKey(k) ==
    /\ edits < left.edits
    /\ gkey[k].live
    /\ edits' = edits + 1
    /\ \/ gkey' = [gkey EXCEPT ![k] = NoKey]
       \/ \E b \in left.budgets : gkey' = [gkey EXCEPT ![k].meta.quota = b]
       \/ gkey' = [gkey EXCEPT ![k].meta.tagged = ~@]
    /\ UNCHANGED <<storeVars, payload, keyRow, calls, job, received, left>>

(* The worker stops: its lock is released, its callers get an error. *)
Crash ==
    /\ left.crashes > 0
    /\ left' = [left EXCEPT !.crashes = @ - 1]
    /\ calls' = {}
    /\ Release
    /\ UNCHANGED <<storeVars, payload, gkey, keyRow, received, edits>>

-----------------------------------------------------------------------------
(* Taking the lock. *)

Take(o, fields) ==
    /\ Unlocked
    /\ job' = [fields EXCEPT !.op = o]
    /\ UNCHANGED <<profile, lastOp, payload, gkey, keyRow, received, edits, left>>

Called(o, kind) ==
    /\ o \in calls
    /\ ops[o].kind = kind
    /\ calls' = calls \ {o}

(* issue, first part: a queued operation of the deployed revision. *)
IssueBegin(o) ==
    /\ Called(o, "issue")
    /\ ops[o].status = "queued"
    /\ profile[ops[o].code].applied = ops[o].rev
    /\ Stage(o, "running")
    /\ Take(o, [Idle EXCEPT !.mode = "issue", !.pc = "probe", !.key = o,
                            !.client = TRUE])

(* Variant: every operation that was answered before is reclaimed. *)
Reclaimable_Issued(o) == ops[o].status \in {"running", "recovery-required", "issued"}

(* An issuance whose answer may be lost: its key must go. *)
Reclaimable(o) == ops[o].status \in {"running", "recovery-required"}

ReclaimFields(o) ==
    [Idle EXCEPT !.mode = "reclaim", !.pc = "find", !.key = o]

IssueAgain(o) ==
    /\ Called(o, "issue")
    /\ Reclaimable(o)
    /\ UNCHANGED <<ops, recoveryOp>>
    /\ Take(o, ReclaimFields(o))

(* drain: the oldest interrupted issuance is issued again, which revokes it.*)
DrainIssue(o) ==
    /\ ops[o].kind = "issue" /\ ops[o].status = "running"
    /\ \A p \in OpIds : p < o => ~(ops[p].kind = "issue" /\ ops[p].status = "running")
    /\ Reclaimable(o)
    /\ UNCHANGED <<ops, recoveryOp, calls>>
    /\ Take(o, ReclaimFields(o))

(* revoke: any status but "revoked" is (re)tried; every key must have a row.*)
RevokeBegin(o) ==
    /\ Called(o, "revoke")
    /\ ops[o].status # "revoked"
    /\ \A k \in payload[o].keys :
         keyRow[k].status # "none" /\ ops[k].code = ops[o].code
    /\ Stage(o, "running")
    /\ \E k \in payload[o].keys :
         Take(o, [Idle EXCEPT !.mode = "revoke", !.pc = "find", !.key = k,
                              !.todo = payload[o].keys \ {k}])

TheKey(o) == CHOOSE k \in payload[o].keys : TRUE

(* budget: any status but "updated" is (re)tried, for an active key. *)
BudgetBegin(o) ==
    /\ Called(o, "budget")
    /\ ops[o].status # "updated"
    /\ keyRow[TheKey(o)].status = "active"
    /\ ops[TheKey(o)].code = ops[o].code
    /\ UNCHANGED <<ops, recoveryOp>>
    /\ Take(o, [Idle EXCEPT !.mode = "budget", !.pc = "look", !.key = TheKey(o),
                            !.target = o])

(* recover: of the operation the deployment row points at. *)
RecoverBegin(o) ==
    /\ Called(o, "recover")
    /\ recoveryOp # 0
    /\ ops[recoveryOp].code = ops[o].code
    /\ UNCHANGED <<ops, recoveryOp>>
    /\ LET t == recoveryOp
           fields(pc, k, todo) ==
             [Idle EXCEPT !.mode = "recover", !.target = t, !.pc = pc,
                          !.key = k, !.todo = todo]
       IN  \/ ops[t].kind = "issue" /\ Take(o, fields("find", t, {}))
           \/ /\ ops[t].kind = "revoke"
              /\ \E k \in payload[t].keys :
                   Take(o, fields("find", k, payload[t].keys \ {k}))
           \/ ops[t].kind = "budget" /\ Take(o, fields("look", TheKey(t), {}))

-----------------------------------------------------------------------------
(* Under the lock.  A gateway call answers, fails without effect, or fails  *)
(* after it took effect.                                                    *)

K == gkey[job.key]
Outside == UNCHANGED <<profile, lastOp, payload, calls, edits, left>>
NoStore == UNCHANGED <<ops, recoveryOp>>
NoRows  == UNCHANGED <<keyRow, received>>

(* A lookup of the key that is answered, and one that is not. *)
Reads  == Outside /\ NoStore /\ NoRows /\ UNCHANGED gkey
Staged(o, status) == Stage(o, status) /\ Outside /\ NoRows /\ UNCHANGED gkey

IssueProbe ==
    /\ At("probe")
    /\ Reads
    /\ \/ ~K.live /\ GoTo("generate")
       \/ GoTo("compensate")

IssueGenerate ==
    /\ At("generate")
    /\ Outside /\ NoStore /\ NoRows
    /\ \/ /\ gkey' = [gkey EXCEPT ![job.key] =
                        [live |-> TRUE,
                         meta |-> [quota |-> payload[job.op].budget, log |-> <<>>,
                                   tagged |-> TRUE]]]
          /\ GoTo("readback") \/ GoTo("compensate")
       \/ UNCHANGED gkey /\ GoTo("compensate")

IssueReadback ==
    /\ At("readback")
    /\ Reads
    /\ \/ K.live /\ K.meta.tagged /\ GoTo("insert")
       \/ GoTo("compensate")

IssueInsert ==
    /\ At("insert")
    /\ Outside /\ NoStore /\ UNCHANGED <<gkey, received>>
    /\ \/ /\ keyRow' = [keyRow EXCEPT ![job.key] =
                           [status |-> "active", budget |-> payload[job.op].budget]]
          /\ GoTo("issued")
       \/ UNCHANGED keyRow /\ GoTo("compensate")    \* the database refused

IssueIssued ==
    /\ At("issued")
    /\ \/ Staged(job.op, "issued") /\ GoTo("deliver")
       \/ Reads /\ GoTo("compensate")    \* the database refused

IssueDeliver ==
    /\ At("deliver")
    /\ Outside /\ NoStore /\ UNCHANGED <<gkey, keyRow>>
    /\ received' = IF job.client THEN received \cup {job.key} ELSE received
    /\ Release

\* Variant: whatever the delete call answers, the issuance is called failed.
IssueCompensate_AlwaysFailed ==
    /\ At("compensate")
    /\ gkey' \in {gkey, [gkey EXCEPT ![job.key] = NoKey]}
    /\ Stage(job.op, "failed")
    /\ Outside /\ NoRows
    /\ Release

(* The except branch: revoke, look that it is gone, say so or ask for help. *)
IssueCompensate ==
    /\ At("compensate")
    /\ \/ /\ gkey' = [gkey EXCEPT ![job.key] = NoKey]
          /\ Outside /\ NoStore /\ NoRows
          /\ GoTo("confirm")
       \/ /\ gkey' \in {gkey, [gkey EXCEPT ![job.key] = NoKey]}
          /\ Stage(job.op, "recovery-required")
          /\ Outside /\ NoRows
          /\ Release

IssueConfirm ==
    /\ At("confirm")
    /\ Release
    /\ \/ ~K.live /\ Staged(job.op, "failed")
       \/ Staged(job.op, "recovery-required")

(* What a failed step means: a reclaim just gives the lock back and leaves  *)
(* the operation for the next drain, a revocation asks for recovery, a      *)
(* recovery fails and may be requested again.                               *)
Trouble ==
    /\ Release
    /\ Outside /\ NoRows
    /\ CASE job.mode = "reclaim" -> NoStore
         [] job.mode = "recover" -> Stage(job.op, "failed")
         [] OTHER                -> Stage(job.op, "recovery-required")

(* revoke one key: look for it, delete it, look that it is gone, mark it.   *)
KeyFind ==
    /\ At("find")
    /\ \/ Reads /\ GoTo(IF K.live THEN "delete" ELSE "row")
       \/ Trouble /\ UNCHANGED gkey

\* Variant: a revocation goes on with the row when the delete call fails.
KeyDelete_BestEffort ==
    /\ At("delete")
    /\ gkey' \in {gkey, [gkey EXCEPT ![job.key] = NoKey]}
    /\ \/ Outside /\ NoStore /\ NoRows /\ GoTo(IF job.mode = "revoke" THEN "row" ELSE "gone")
       \/ Trouble

KeyDelete ==
    /\ At("delete")
    /\ \/ /\ gkey' = [gkey EXCEPT ![job.key] = NoKey]
          /\ Outside /\ NoStore /\ NoRows
          /\ GoTo("gone")
       \/ Trouble /\ gkey' \in {gkey, [gkey EXCEPT ![job.key] = NoKey]}

KeyGone ==
    /\ At("gone")
    /\ \/ ~K.live /\ Reads /\ GoTo("row")
       \/ Trouble /\ UNCHANGED gkey

\* The row update; a key that was never inserted has no row to update.
MarkRevoked(k) ==
    keyRow' = IF keyRow[k].status = "none" THEN keyRow
              ELSE [keyRow EXCEPT ![k].status = "revoked"]

AfterRow == CASE job.mode = "reclaim" -> "stageFailed"
              [] job.mode = "revoke"  -> "stageRevoked"
              [] OTHER                -> "clear"

KeyRowRevoked ==
    /\ At("row")
    /\ Outside /\ NoStore /\ UNCHANGED <<gkey, received>>
    /\ MarkRevoked(job.key)
    /\ \/ /\ job.todo = {}
          /\ GoTo(AfterRow)
       \/ \E k \in job.todo :
            job' = [job EXCEPT !.pc = "find", !.key = k, !.todo = @ \ {k}]

\* Variant: the reclaimed issuance keeps its status.
StageReclaimed_Unstaged ==
    /\ At("stageFailed")
    /\ Reads
    /\ Release

StageReclaimed ==
    /\ At("stageFailed")
    /\ Staged(job.op, "failed")
    /\ Release

StageRevoked ==
    /\ At("stageRevoked")
    /\ Staged(job.op, "revoked")
    /\ Release

-----------------------------------------------------------------------------
(* budget, and the recovery of one.  job.target is the operation whose      *)
(* budget is set: the operation itself, or the one being recovered.         *)

Wanted   == payload[job.target].budget
Marked   == \E i \in DOMAIN K.meta.log : K.meta.log[i] = job.target
Updated  == [K.meta EXCEPT !.quota = Wanted, !.log = Append(@, job.target)]

(* What a failure means before the gateway was written. *)
Declined == IF job.mode = "recover" THEN Staged(job.op, "failed") /\ Release
            ELSE Reads /\ Release

(* The key with its tag: an update that was made already is only recorded,  *)
(* if the quota is still what it set; otherwise the new metadata is formed. *)
BudgetLook ==
    /\ At("look")
    /\ \/ /\ K.live /\ K.meta.tagged
          /\ Reads
          /\ \/ /\ Marked /\ K.meta.quota = Wanted
                /\ job' = [job EXCEPT !.want = K.meta,
                             !.pc = IF job.mode = "recover" THEN "check" ELSE "budgetRow"]
             \/ /\ ~Marked
                /\ job' = IF job.mode = "recover"
                          THEN [job EXCEPT !.pc = "update", !.want = Updated]
                          ELSE [job EXCEPT !.pc = "start", !.want = K.meta]
       \/ Declined

BudgetStart ==
    /\ At("start")
    /\ Staged(job.op, "running")
    /\ GoTo("again")

(* A second look before the write, without a lock at the gateway. *)
BudgetAgain ==
    /\ At("again")
    /\ \/ /\ K.live /\ K.meta = job.want
          /\ Reads
          /\ job' = [job EXCEPT !.pc = "update", !.want = Updated]
       \/ ~(K.live /\ K.meta = job.want) /\ Staged(job.op, "failed") /\ Release
       \/ Reads /\ Release

BudgetUpdate ==
    /\ At("update")
    /\ \/ /\ K.live
          /\ gkey' = [gkey EXCEPT ![job.key].meta = job.want]
          /\ Outside /\ NoStore /\ NoRows
          /\ GoTo("check")
       \/ Trouble /\ \/ UNCHANGED gkey
                     \/ K.live /\ gkey' = [gkey EXCEPT ![job.key].meta = job.want]

BudgetCheck ==
    /\ At("check")
    /\ \/ K.live /\ K.meta = job.want /\ Reads /\ GoTo("budgetRow")
       \/ ~(K.live /\ K.meta = job.want) /\ Staged(job.op, "failed") /\ Release
       \/ Trouble /\ UNCHANGED gkey

BudgetRow ==
    /\ At("budgetRow")
    /\ Outside /\ NoStore /\ UNCHANGED <<gkey, received>>
    /\ keyRow' = [keyRow EXCEPT ![job.key].budget = Wanted]
    /\ GoTo(IF job.mode = "recover" THEN "clear" ELSE "updated")

StageUpdated ==
    /\ At("updated")
    /\ Staged(job.op, "updated")
    /\ Release

-----------------------------------------------------------------------------
(* The end of a recovery: three transactions. *)

RecoverClear ==
    /\ At("clear")
    /\ recoveryOp' = 0
    /\ UNCHANGED <<ops, gkey>> /\ Outside /\ NoRows
    /\ GoTo("closeTarget")

RecoverTarget ==
    /\ At("closeTarget")
    /\ Staged(job.target, IF ops[job.target].kind = "budget" THEN "updated" ELSE "failed")
    /\ GoTo("closeSelf")

RecoverSelf ==
    /\ At("closeSelf")
    /\ Staged(job.op, "recovered")
    /\ Release

-----------------------------------------------------------------------------

IssueStep  == \/ IssueProbe \/ IssueGenerate \/ IssueReadback \/ IssueInsert
              \/ IssueIssued \/ IssueDeliver \/ IssueCompensate \/ IssueConfirm
DeleteStep == KeyFind \/ KeyDelete \/ KeyGone \/ KeyRowRevoked
BudgetStep == \/ BudgetLook \/ BudgetStart \/ BudgetAgain \/ BudgetUpdate
              \/ BudgetCheck \/ BudgetRow
CloseStep  == \/ StageReclaimed \/ StageRevoked \/ StageUpdated
              \/ RecoverClear \/ RecoverTarget \/ RecoverSelf
JobStep    == IssueStep \/ DeleteStep \/ BudgetStep \/ CloseStep

Begin(o) == \/ IssueBegin(o) \/ IssueAgain(o) \/ RevokeBegin(o)
            \/ BudgetBegin(o) \/ RecoverBegin(o)

Next ==
    \/ \E c \in Codes : SaveDraft(c) \/ Deploy(c)
    \/ \E c \in Codes, kind \in left.kinds : Request(c, kind)
    \/ \E o \in OpIds : Replay(o) \/ CallRefused(o) \/ Begin(o) \/ DrainIssue(o)
    \/ \E k \in OpIds : EditKey(k)
    \/ HangUp \/ Crash
    \/ JobStep

Spec == Init /\ [][Next]_vars
-----------------------------------------------------------------------------
(* Safety. *)

(* A key that works at the gateway belongs to an issuance that is under way,*)
(* waits for recovery, or succeeded: one that ended as failed, or was never *)
(* started, has left no key behind (issue, lines 560-577; recover).         *)
LiveKeysAccounted ==
    \A k \in OpIds : gkey[k].live =>
        /\ ops[k].kind = "issue"
        /\ ops[k].status \in {"running", "recovery-required", "issued"}

(* A row or a revocation says "revoked" only of keys that are gone from the *)
(* gateway; neither a crash nor a lost answer makes it say so too early.    *)
RevokedIsGone ==
    /\ \A k \in OpIds : keyRow[k].status = "revoked" => ~gkey[k].live
    /\ \A o \in OpIds : ops[o].kind = "revoke" /\ ops[o].status = "revoked" =>
         \A k \in payload[o].keys : keyRow[k].status = "revoked"

(* While nobody edits keys behind the worker: if the last budget change in  *)
(* the quota log of a key ended as updated, the gateway enforces the budget *)
(* the row shows, across lost answers, crashes, retries and recoveries.     *)
BudgetAgrees ==
    edits = 0 =>
      \A k \in OpIds :
        LET log == gkey[k].meta.log IN
        gkey[k].live /\ keyRow[k].status = "active"
          /\ (log = <<>> \/ ops[log[Len(log)]].status = "updated")
        => gkey[k].meta.quota = keyRow[k].budget

(* A budget operation changes the key at most once, however often it is     *)
(* retried, replayed or recovered: its marker in the quota log stops it.    *)
UpdatedOnce ==
    \A k \in OpIds :
      LET log == gkey[k].meta.log IN
      \A i, j \in DOMAIN log : log[i] = log[j] => i = j

(* Every key the administrator holds can be revoked through the dashboard:  *)
(* its row exists before its plaintext leaves the worker.                   *)
ReceivedIsManaged == \A k \in received : keyRow[k].status # "none"

(* The books of keys balance: every live key has an operation that answers  *)
(* for it, every key somebody holds has a row, and a budget is set once and *)
(* as the row tells.                                                        *)
KeysAccounted ==
    /\ TypeOK
    /\ LiveKeysAccounted
    /\ ReceivedIsManaged
    /\ BudgetAgrees
    /\ UpdatedOnce

(* Undoing an issuance, at once or after a crash, never takes away a key    *)
(* the administrator has already received.                                  *)
Undoing(k) == \/ job.mode \in {"issue", "reclaim"} /\ job.op = k
              \/ job.mode = "recover" /\ job.target = k
NeverUndoesDelivered ==
    [][\A k \in OpIds :
         gkey[k].live /\ ~gkey'[k].live /\ edits' = edits /\ Undoing(k)
           => k \notin received]_vars

-----------------------------------------------------------------------------
(* Liveness. *)

(* Once started, the worker's calls end (each has a timeout) and drain runs *)
(* every two seconds, the oldest interrupted issuance first; that the       *)
(* gateway answers its retries again and again is assumed.                  *)
Fairness ==
    /\ WF_vars(JobStep)
    /\ SF_vars(\E o \in OpIds : DrainIssue(o))
    /\ SF_vars(job.mode = "reclaim" /\ KeyFind /\ job'.pc \in {"delete", "row"})
    /\ SF_vars(job.mode = "reclaim" /\ KeyDelete /\ job'.pc = "gone")
    /\ SF_vars(job.mode = "reclaim" /\ KeyGone /\ job'.pc = "row")

LiveSpec == Spec /\ Fairness

(* Interrupted issuances do not pile up: drain revokes the key of each and  *)
(* fails it.  While one is "running", drain returns to it first and raises  *)
(* when the gateway refuses, so that applies and tests behind it wait.      *)
InterruptedIssueEnds ==
    []<>(\A o \in OpIds : ~(ops[o].kind = "issue" /\ ops[o].status = "running"))

=============================================================================
