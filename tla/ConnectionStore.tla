--------------------------- MODULE ConnectionStore ---------------------------
(***************************************************************************)
(* The administration tables behind gateway connections                    *)
(* (backend/connection_store.py over migration 015): one profile row per   *)
(* agent code, the operations requested on them, and the singleton         *)
(* deployment row's pointer to the operation that waits for recovery.      *)
(*                                                                         *)
(* This module has no Next of its own: each operator below is one database *)
(* transaction, and the components that use the store conjoin it with what *)
(* happens to the rest of their state.                                     *)
(*                                                                         *)
(* A draft is identified by its revision: the row keeps only the latest    *)
(* one, and no two saves of a code share a number.  Operations are         *)
(* numbered in the order their transactions commit (created_at).           *)
(***************************************************************************)
EXTENDS Naturals

CONSTANTS
    Codes,      \* the agent codes an administrator may configure
    MaxRev,     \* bound: saves of one profile
    MaxOps      \* bound: operations ever enqueued

ASSUME StoreAssumption ==
    /\ Codes # {}
    /\ MaxRev \in Nat \ {0}
    /\ MaxOps \in Nat \ {0}

VARIABLES
    profile,    \* profile[c]: latest and applied revision, 0 when absent
    ops,        \* ops[o]: the operation row, status "none" when unused
    lastOp,     \* number of operation rows
    recoveryOp  \* deployment.recovery_operation, 0 for NULL

storeVars == <<profile, ops, lastOp, recoveryOp>>

OpIds == 1..MaxOps
Revs  == 0..MaxRev
Kinds == {"apply", "issue", "revoke", "verify", "recover", "budget"}
Statuses == {"none", "queued", "running", "applied", "failed",
             "recovery-required", "recovered",
             "issued", "revoked", "updated",
             "pending", "verified", "inconclusive"}

ProfileRow == [rev : Revs, applied : Revs]
OpRow      == [code : Codes, kind : Kinds, rev : Revs, status : Statuses]

NoOp == [code |-> CHOOSE c \in Codes : TRUE, kind |-> "apply",
         rev |-> 0, status |-> "none"]

StoreTypeOK ==
    /\ profile \in [Codes -> ProfileRow]
    /\ ops \in [OpIds -> OpRow]
    /\ lastOp \in 0..MaxOps
    /\ recoveryOp \in 0..MaxOps

StoreInit ==
    /\ profile = [c \in Codes |-> [rev |-> 0, applied |-> 0]]
    /\ ops = [o \in OpIds |-> NoOp]
    /\ lastOp = 0
    /\ recoveryOp = 0

(* save: the caller presented the current revision; the draft gets the next *)
(* one and the applied revision stays what it was.                          *)
Save(c) ==
    /\ profile[c].rev < MaxRev
    /\ profile' = [profile EXCEPT ![c].rev = @ + 1]
    /\ UNCHANGED <<ops, lastOp, recoveryOp>>

\* Variant: the operation expects the revision after the current one.
Enqueue_NextRevision(c, kind) ==
    /\ lastOp < MaxOps
    /\ recoveryOp = 0 \/ kind = "recover"
    /\ profile[c].rev # 0
    /\ lastOp' = lastOp + 1
    /\ ops' = [ops EXCEPT ![lastOp + 1] =
                 [code |-> c, kind |-> kind, rev |-> profile[c].rev + 1,
                  status |-> "queued"]]
    /\ UNCHANGED <<profile, recoveryOp>>

(* enqueue: refused while a recovery is pending (unless it is the recovery),*)
(* for a profile that does not exist, for a key or a test of a revision     *)
(* that is not deployed, and for a key while an issuance is unresolved.     *)
Enqueue(c, kind) ==
    /\ lastOp < MaxOps
    /\ recoveryOp = 0 \/ kind = "recover"
    /\ profile[c].rev # 0
    /\ kind \in {"issue", "verify"} => profile[c].applied = profile[c].rev
    /\ kind = "issue" =>
         \A o \in OpIds : ~(ops[o].kind = "issue" /\ ops[o].status = "running")
    /\ lastOp' = lastOp + 1
    /\ ops' = [ops EXCEPT ![lastOp + 1] =
                 [code |-> c, kind |-> kind, rev |-> profile[c].rev,
                  status |-> "queued"]]
    /\ UNCHANGED <<profile, recoveryOp>>

(* stage: the status change and, for recovery-required, the pointer of the  *)
(* deployment row, in one transaction.  A later one overwrites the pointer. *)
Stage(o, status) ==
    /\ ops' = [ops EXCEPT ![o].status = status]
    /\ recoveryOp' = IF status = "recovery-required" THEN o ELSE recoveryOp

Unresolved(o) == ops[o].status \in {"queued", "running"}

=============================================================================
