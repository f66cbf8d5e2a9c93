--------------------------- MODULE ConnectionDeploy ---------------------------
(***************************************************************************)
(* Deploying connection profiles: the apply saga of the host worker        *)
(* (backend/connection_worker.py) with its snapshot, its rollout to the two*)
(* gateway instances, its compensation, the restart after a crash, the     *)
(* recovery RPC, the import of provider secrets and the reconciliation of  *)
(* drift; and around it the API that saves drafts and enqueues operations, *)
(* the operator who edits files, and the refresh/CLI processes that hold   *)
(* the registry lock.                                                      *)
(*                                                                         *)
(* The deployment lock admits one job at a time, so the holder's progress  *)
(* is the single record "job"; every file write, database transaction and  *)
(* container recreation is a step of its own, and a crash may fall between *)
(* any two of them.  Everything else interleaves freely.                   *)
(*                                                                         *)
(* Abstractions: a draft is its revision number, and SecretOf says which   *)
(* secret reference the revision names; a rendered file is the map from    *)
(* codes to the revision it carries; the compose file, .env and entrypoint,*)
(* which the worker only watches, are one version number, "host".          *)
(***************************************************************************)
EXTENDS ConnectionStore

CONSTANTS
    Drainers,   \* processes that run drain(): "serve", possibly also "once"
    Secrets,    \* provider secret references that may be imported
    SecretOf,   \* SecretOf[c][r]: the reference draft r of c names
    MaxEdits,   \* bound: edits made outside the worker
    MaxCrashes  \* bound: crashes of a worker process

ASSUME DeployAssumption ==
    /\ "serve" \in Drainers
    /\ "none" \notin Drainers
    /\ SecretOf \in [Codes -> [1..MaxRev -> Secrets]]
    /\ MaxEdits \in Nat
    /\ MaxCrashes \in Nat

VARIABLES
    files,      \* the artefacts under Worker.paths
    gw,         \* gw[i]: what gateway instance i was last created from
    registryDb, \* registryDb[c]: revision of c in dim_agent/registry tables
    baseline,   \* deployment.baseline
    snap,       \* snap[o]: the snapshot folder of operation o
    reviewed,   \* reviewed[o]: the preview_hash in the payload of apply o
    job,        \* the operation holding the deployment lock, and its progress
    picked,     \* picked[d]: apply selected by drain d, before it takes the lock
    regLock,    \* holder of the registry lock: "free", "worker" or "other"
    returned,   \* secret references handed back to the administrator
    edits,      \* edits made so far
    crashes,    \* crashes so far
    overtaken   \* history: an apply was started while a recovery was pending

deployVars == <<files, gw, registryDb, baseline, snap, reviewed, job, picked,
                regLock, returned, edits, crashes, overtaken>>
vars == <<profile, ops, lastOp, recoveryOp, files, gw, registryDb, baseline,
          snap, reviewed, job, picked, regLock, returned, edits, crashes,
          overtaken>>

Instances == 1..2
RevMap == [Codes -> Revs]
Cli    == MaxRev + 1     \* a registry row last written by the CLI
DbMap  == [Codes -> 0..Cli]

Files == [ext         : 0..MaxEdits,    \* unmanaged part of the routes file
          routes      : RevMap,         \* managed part of the routes file
          registry    : RevMap,         \* config/gateway-agents.yaml
          override    : RevMap,         \* compose override: quota chat tags
          refs        : SUBSET Secrets, \* compose override: required secrets
          environment : SUBSET Secrets, \* managed.env
          host        : 0..MaxEdits]    \* compose, .env and entrypoint
View == [ext : 0..MaxEdits, routes : RevMap, override : RevMap,
         environment : SUBSET Secrets]
Baselines == [set : BOOLEAN, files : Files, registry : DbMap, own : SUBSET Codes]
Reviews   == [files : Files, registry : DbMap, profiles : RevMap, rev : Revs]
Snapshots == [state : {"none", "partial", "complete"}, base : Baselines, files : Files]

Nothing == [c \in Codes |-> 0]
NoFiles == [ext |-> 0, routes |-> Nothing, registry |-> Nothing,
            override |-> Nothing, refs |-> {}, environment |-> {}, host |-> 0]
ViewOf(f) == [ext |-> f.ext, routes |-> f.routes, override |-> f.override,
              environment |-> f.environment]

-----------------------------------------------------------------------------
(* The job under the deployment lock. *)

ApplySteps   == {"preview", "snapshot", "fill", "start", "routes", "override",
                 "roll1", "roll2", "register", "export", "commit"}
RestoreFiles == {"undoRoutes", "undoRegistry", "undoOverride", "undoEnvironment"}
RestoreSteps == RestoreFiles \cup {"hostcheck", "reroll1", "reroll2"}
RebaseSteps  == {"rebase", "fail"}
CloseSteps   == {"unlock", "closeTarget", "closeSelf"}
SecretSteps  == {"write", "adopt"}
Steps == {"idle", "refresh"} \cup ApplySteps \cup RestoreSteps \cup RebaseSteps
           \cup CloseSteps \cup SecretSteps
Modes == {"none", "apply", "undo", "restart", "recover", "secret"}

Jobs == [who : Drainers \cup {"none"}, mode : Modes, op : 0..MaxOps,
         target : 0..MaxOps, pc : Steps, fresh : BOOLEAN, cand : RevMap,
         ext : 0..MaxEdits, secret : SUBSET Secrets]
Idle == [who |-> "none", mode |-> "none", op |-> 0, target |-> 0, pc |-> "idle",
         fresh |-> FALSE, cand |-> Nothing, ext |-> 0, secret |-> {}]

Unlocked == job = Idle
GoTo(pc) == job' = [job EXCEPT !.pc = pc]

TypeOK ==
    /\ StoreTypeOK
    /\ files \in Files
    /\ gw \in [Instances -> [up : BOOLEAN, view : View]]
    /\ registryDb \in DbMap
    /\ baseline \in Baselines
    /\ snap \in [OpIds -> Snapshots]
    /\ reviewed \in [OpIds -> Reviews]
    /\ job \in Jobs
    /\ picked \in [Drainers -> 0..MaxOps]
    /\ regLock \in {"free", "worker", "other"}
    /\ returned \subseteq Secrets
    /\ edits \in 0..MaxEdits
    /\ crashes \in 0..MaxCrashes
    /\ overtaken \in BOOLEAN

NoBaseline == [set |-> FALSE, files |-> NoFiles, registry |-> Nothing, own |-> {}]
NoReview   == [files |-> NoFiles, registry |-> Nothing, profiles |-> Nothing, rev |-> 0]
NoSnapshot == [state |-> "none", base |-> NoBaseline, files |-> NoFiles]

Init ==
    /\ StoreInit
    /\ files = NoFiles
    /\ gw = [i \in Instances |-> [up |-> TRUE, view |-> ViewOf(NoFiles)]]
    /\ registryDb = Nothing
    /\ baseline = NoBaseline
    /\ snap = [o \in OpIds |-> NoSnapshot]
    /\ reviewed = [o \in OpIds |-> NoReview]
    /\ job = Idle
    /\ picked = [d \in Drainers |-> 0]
    /\ regLock = "free"
    /\ returned = {}
    /\ edits = 0
    /\ crashes = 0
    /\ overtaken = FALSE

-----------------------------------------------------------------------------
(* Administrator: drafts, previews and operations. *)

(* The profiles an apply of c deploys: every other applied one and c's draft. *)
Rendered(c) ==
    [x \in Codes |-> IF x = c THEN profile[c].rev ELSE profile[x].applied]
Owners(m) == {c \in Codes : m[c] # 0}

(* preview: refuses without a baseline, on drift of files or registry, for a *)
(* secret that was not imported, and when the routes file already holds      *)
(* routes of a rendered agent that the baseline does not own.                *)
PreviewOK(c) ==
    /\ profile[c].rev # 0
    /\ baseline.set
    /\ files = baseline.files
    /\ registryDb = baseline.registry
    /\ SecretOf[c][profile[c].rev] \in files.environment
    /\ \A x \in Owners(Rendered(c)) : files.routes[x] # 0 => x \in baseline.own

PreviewHash(c) == [files |-> baseline.files, registry |-> baseline.registry,
                   profiles |-> Rendered(c), rev |-> profile[c].rev]

SaveDraft(c) == Save(c) /\ UNCHANGED deployVars

(* The administrator previews, reviews and enqueues; what may change between *)
(* the three calls may as well change after the last one.                    *)
RequestApply(c) ==
    /\ PreviewOK(c)
    /\ Enqueue(c, "apply")
    /\ reviewed' = [reviewed EXCEPT ![lastOp + 1] = PreviewHash(c)]
    /\ UNCHANGED <<files, gw, registryDb, baseline, snap, job, picked, regLock,
                   returned, edits, crashes, overtaken>>

RequestRecover(c) == Enqueue(c, "recover") /\ UNCHANGED deployVars

-----------------------------------------------------------------------------
(* Short operations under the deployment lock. *)

Bootstrap ==
    /\ Unlocked /\ regLock = "free"
    /\ ~baseline.set
    /\ baseline' = [set |-> TRUE, files |-> files, registry |-> registryDb, own |-> {}]
    /\ UNCHANGED <<profile, ops, lastOp, recoveryOp, files, gw, registryDb, snap,
                   reviewed, job, picked, regLock, returned, edits, crashes, overtaken>>

(* reconcile with the hash of the current review: what is observed becomes   *)
(* the baseline, the owned routes stay those of the old one.                 *)
Reconcile ==
    /\ Unlocked /\ regLock = "free"
    /\ \E c \in Codes : profile[c].rev # 0
    /\ baseline' = [set |-> TRUE, files |-> files, registry |-> registryDb,
                    own |-> baseline.own]
    /\ UNCHANGED <<profile, ops, lastOp, recoveryOp, files, gw, registryDb, snap,
                   reviewed, job, picked, regLock, returned, edits, crashes, overtaken>>

(* import_secret: drift check, then the file, then the baseline's hash of it.*)
ImportBegin(s) ==
    /\ Unlocked
    /\ baseline.set
    /\ files.environment = baseline.files.environment
    /\ s \notin returned \cup files.environment
    /\ job' = [Idle EXCEPT !.who = "serve", !.mode = "secret", !.pc = "write",
                           !.secret = {s}]
    /\ UNCHANGED <<profile, ops, lastOp, recoveryOp, files, gw, registryDb, baseline,
                   snap, reviewed, picked, regLock, returned, edits, crashes, overtaken>>

ImportWrite ==
    /\ job.pc = "write"
    /\ files' = [files EXCEPT !.environment = @ \cup job.secret]
    /\ GoTo("adopt")
    /\ UNCHANGED <<profile, ops, lastOp, recoveryOp, gw, registryDb, baseline, snap,
                   reviewed, picked, regLock, returned, edits, crashes, overtaken>>

\* Variant: the baseline is not advanced to the new file.
ImportAdopt_KeepsBaseline ==
    /\ job.pc = "adopt"
    /\ returned' = returned \cup job.secret
    /\ job' = Idle
    /\ UNCHANGED <<profile, ops, lastOp, recoveryOp, files, gw, registryDb, baseline,
                   snap, reviewed, picked, regLock, edits, crashes, overtaken>>

ImportAdopt ==
    /\ job.pc = "adopt"
    /\ baseline' = [baseline EXCEPT !.files.environment = files.environment]
    /\ returned' = returned \cup job.secret
    /\ job' = Idle
    /\ UNCHANGED <<profile, ops, lastOp, recoveryOp, files, gw, registryDb, snap,
                   reviewed, picked, regLock, edits, crashes, overtaken>>

-----------------------------------------------------------------------------
(* drain: select the oldest unresolved apply, then call apply(). *)

\* Variants: a failed apply is drained again; a running one never is.
Drainable_Retries ==
    {o \in OpIds : ops[o].kind = "apply" /\ (Unresolved(o) \/ ops[o].status = "failed")}
Drainable_OnlyQueued ==
    {o \in OpIds : ops[o].kind = "apply" /\ ops[o].status = "queued"}

Drainable == {o \in OpIds : ops[o].kind = "apply" /\ Unresolved(o)}

DrainSelect(d) ==
    /\ picked[d] = 0
    /\ job.who # d \/ job.mode \in {"secret", "recover"}
    /\ \E o \in Drainable :
         /\ \A p \in Drainable : o <= p
         /\ picked' = [picked EXCEPT ![d] = o]
    /\ UNCHANGED <<profile, ops, lastOp, recoveryOp, files, gw, registryDb, baseline,
                   snap, reviewed, job, regLock, returned, edits, crashes, overtaken>>

Take(d, mode, o, pc) ==
    /\ regLock' = "worker"
    /\ job' = [Idle EXCEPT !.who = d, !.mode = mode, !.op = o, !.target = o,
                           !.pc = pc, !.fresh = (ops[o].status = "queued")]

(* apply(): the lock is held by someone else, or the operation is applied    *)
(* already, or the registry lock is held: nothing happens now.               *)
ApplyDeclined(d) ==
    /\ picked[d] # 0
    /\ \/ ~Unlocked
       \/ ops[picked[d]].status = "applied"
       \/ ops[picked[d]].status # "running" /\ regLock # "free"
    /\ picked' = [picked EXCEPT ![d] = 0]
    /\ UNCHANGED <<profile, ops, lastOp, recoveryOp, files, gw, registryDb, baseline,
                   snap, reviewed, job, regLock, returned, edits, crashes, overtaken>>

\* Variant: a first attempt takes the deployment lock only.
ApplyBegin_NoRegistryLock(d) ==
    /\ picked[d] # 0 /\ Unlocked
    /\ ops[picked[d]].status \notin {"applied", "running"}
    /\ job' = [Idle EXCEPT !.who = d, !.mode = "apply", !.op = picked[d],
                           !.target = picked[d], !.pc = "preview", !.fresh = TRUE]
    /\ picked' = [picked EXCEPT ![d] = 0]
    /\ overtaken' = (overtaken \/ recoveryOp # 0)
    /\ UNCHANGED <<profile, ops, lastOp, recoveryOp, files, gw, registryDb, baseline,
                   snap, reviewed, regLock, returned, edits, crashes>>

(* apply() of an operation that is not running: a first attempt. *)
ApplyBegin(d) ==
    /\ picked[d] # 0 /\ Unlocked
    /\ ops[picked[d]].status \notin {"applied", "running"}
    /\ regLock = "free"
    /\ Take(d, "apply", picked[d], "preview")
    /\ picked' = [picked EXCEPT ![d] = 0]
    /\ overtaken' = (overtaken \/ recoveryOp # 0)
    /\ UNCHANGED <<profile, ops, lastOp, recoveryOp, files, gw, registryDb, baseline,
                   snap, reviewed, returned, edits, crashes>>

(* apply() of a running operation, left by a crash: restore its snapshot. *)
RestartBegin(d) ==
    /\ picked[d] # 0 /\ Unlocked
    /\ ops[picked[d]].status = "running"
    /\ regLock = "free"
    /\ Take(d, "restart", picked[d], "undoRoutes")
    /\ picked' = [picked EXCEPT ![d] = 0]
    /\ UNCHANGED <<profile, ops, lastOp, recoveryOp, files, gw, registryDb, baseline,
                   snap, reviewed, returned, edits, crashes, overtaken>>

(* ... with the registry lock held by a refresh or the CLI: the attempt to   *)
(* take it fails inside the same try, and that alone is recovery-required.   *)
RestartRefused(d) ==
    /\ picked[d] # 0 /\ Unlocked
    /\ ops[picked[d]].status = "running"
    /\ regLock # "free"
    /\ Stage(picked[d], "recovery-required")
    /\ picked' = [picked EXCEPT ![d] = 0]
    /\ UNCHANGED <<profile, lastOp, files, gw, registryDb, baseline, snap, reviewed,
                   job, regLock, returned, edits, crashes, overtaken>>

-----------------------------------------------------------------------------
(* apply(): the steps of a first attempt. *)

Expected == ops[job.op].rev
Code     == ops[job.op].code

\* Variant: the reviewed hash is not compared.
CheckPreview_NoHash ==
    /\ job.pc = "preview"
    /\ profile[Code].rev = Expected
    /\ PreviewOK(Code)
    /\ job' = [job EXCEPT !.pc = "snapshot", !.cand = Rendered(Code), !.ext = files.ext]
    /\ UNCHANGED <<profile, ops, lastOp, recoveryOp, files, gw, registryDb, baseline,
                   snap, reviewed, picked, regLock, returned, edits, crashes, overtaken>>

(* preview again under both locks, and the hash the administrator reviewed. *)
CheckPreview ==
    /\ job.pc = "preview"
    /\ profile[Code].rev = Expected
    /\ PreviewOK(Code)
    /\ PreviewHash(Code) = reviewed[job.op]
    /\ job' = [job EXCEPT !.pc = "snapshot", !.cand = Rendered(Code), !.ext = files.ext]
    /\ UNCHANGED <<profile, ops, lastOp, recoveryOp, files, gw, registryDb, baseline,
                   snap, reviewed, picked, regLock, returned, edits, crashes, overtaken>>

\* Variant: any folder that exists is reused, with or without its manifest.
SnapshotOpen_AnyFolder ==
    /\ job.pc = "snapshot"
    /\ \/ /\ snap[job.op].state = "none"
          /\ snap' = [snap EXCEPT ![job.op].state = "partial"]
          /\ GoTo("fill")
       \/ /\ snap[job.op].state # "none"
          /\ GoTo("start")
          /\ UNCHANGED snap
    /\ UNCHANGED <<profile, ops, lastOp, recoveryOp, files, gw, registryDb, baseline,
                   reviewed, picked, regLock, returned, edits, crashes, overtaken>>

(* snapshot: the folder is created first, and reused when it is complete.  *)
SnapshotOpen ==
    /\ job.pc = "snapshot"
    /\ \/ /\ snap[job.op].state = "none"
          /\ snap' = [snap EXCEPT ![job.op].state = "partial"]
          /\ GoTo("fill")
       \/ /\ snap[job.op].state = "complete"
          /\ GoTo("start")
          /\ UNCHANGED snap
    /\ UNCHANGED <<profile, ops, lastOp, recoveryOp, files, gw, registryDb, baseline,
                   reviewed, picked, regLock, returned, edits, crashes, overtaken>>

(* ... the copies and the baseline are written, the manifest last. *)
SnapshotFill ==
    /\ job.pc = "fill"
    /\ snap' = [snap EXCEPT ![job.op] = [state |-> "complete", base |-> baseline,
                                         files |-> files]]
    /\ GoTo("start")
    /\ UNCHANGED <<profile, ops, lastOp, recoveryOp, files, gw, registryDb, baseline,
                   reviewed, picked, regLock, returned, edits, crashes, overtaken>>

StageRunning ==
    /\ job.pc = "start"
    /\ Stage(job.op, "running")
    /\ GoTo("routes")
    /\ UNCHANGED <<profile, lastOp, files, gw, registryDb, baseline, snap, reviewed,
                   picked, regLock, returned, edits, crashes, overtaken>>

(* Every file of the saga is written whole, by rename. *)
WriteFile(pc, next, content) ==
    /\ job.pc = pc
    /\ files' = content
    /\ GoTo(next)
    /\ UNCHANGED <<profile, ops, lastOp, recoveryOp, gw, registryDb, baseline, snap,
                   reviewed, picked, regLock, returned, edits, crashes, overtaken>>

WriteRoutes ==
    WriteFile("routes", "override",
              [files EXCEPT !.routes = job.cand, !.ext = job.ext])
WriteOverride ==
    WriteFile("override", "roll1",
              [files EXCEPT !.override = job.cand, !.refs = files.environment])
ExportRegistry ==
    WriteFile("export", "commit",
              [files EXCEPT !.registry = [c \in Codes |->
                  IF job.cand[c] # 0 THEN job.cand[c] ELSE files.registry[c]]])

(* rollout: recreate one instance from the files; its entrypoint refuses to  *)
(* start unless every required secret reached its environment.  rollout then *)
(* compares what the container loaded with the files, and its environment    *)
(* with managed.env: what this step loads is what the files hold, so they    *)
(* differ only by a change from outside between the two, which is one of the *)
(* failures that may end a restart at any step (ApplyFails, RestoreFails).   *)
Recreated(i, up) == gw' = [gw EXCEPT ![i] = [up |-> up, view |-> ViewOf(files)]]
NextRoll == [roll1 |-> "roll2", roll2 |-> "register",
             reroll1 |-> "reroll2", reroll2 |-> "rebase"]
RollIndex == [roll1 |-> 1, roll2 |-> 2, reroll1 |-> 1, reroll2 |-> 2]

RollInstance ==
    /\ job.pc \in DOMAIN NextRoll
    /\ files.refs \subseteq files.environment
    /\ Recreated(RollIndex[job.pc], TRUE)
    /\ GoTo(NextRoll[job.pc])
    /\ UNCHANGED <<profile, ops, lastOp, recoveryOp, files, registryDb, baseline, snap,
                   reviewed, picked, regLock, returned, edits, crashes, overtaken>>

(* register: apply_config and its commit, which no compensation undoes. *)
RegisterAgents ==
    /\ job.pc = "register"
    /\ registryDb' = [c \in Codes |-> IF job.cand[c] # 0 THEN job.cand[c]
                                      ELSE IF files.registry[c] # 0 THEN files.registry[c]
                                      ELSE registryDb[c]]
    /\ GoTo("export")
    /\ UNCHANGED <<profile, ops, lastOp, recoveryOp, files, gw, baseline, snap,
                   reviewed, picked, regLock, returned, edits, crashes, overtaken>>

\* Variant: the status is not part of the transaction, it is written later.
CommitApply_StatusLater ==
    /\ job.pc = "commit"
    /\ profile[Code].rev = Expected
    /\ profile' = [profile EXCEPT ![Code].applied = Expected]
    /\ baseline' = [set |-> TRUE, files |-> files, registry |-> registryDb,
                    own |-> Owners(job.cand)]
    /\ regLock' = "free"
    /\ GoTo("refresh")
    /\ UNCHANGED <<ops, lastOp, recoveryOp, files, gw, registryDb, snap, reviewed, picked,
                   returned, edits, crashes, overtaken>>

(* The final transaction: profile, baseline and terminal status together. *)
CommitApply ==
    /\ job.pc = "commit"
    /\ profile[Code].rev = Expected
    /\ profile' = [profile EXCEPT ![Code].applied = Expected]
    /\ baseline' = [set |-> TRUE, files |-> files, registry |-> registryDb,
                    own |-> Owners(job.cand)]
    /\ Stage(job.op, "applied")
    /\ regLock' = "free"
    /\ GoTo("refresh")
    /\ UNCHANGED <<lastOp, files, gw, registryDb, snap, reviewed, picked, returned,
                   edits, crashes, overtaken>>

(* The refresh subprocess runs outside the registry lock; its outcome only   *)
(* changes the result text of the applied operation.                         *)
FinishApply ==
    /\ job.pc = "refresh"
    /\ job' = Idle
    /\ UNCHANGED <<profile, ops, lastOp, recoveryOp, files, gw, registryDb, baseline,
                   snap, reviewed, picked, regLock, returned, edits, crashes, overtaken>>

-----------------------------------------------------------------------------
(* Compensation and recovery. *)

Leave == job' = Idle /\ regLock' = "free"

(* A failure whose rollout half-happened may leave the instance as it was,   *)
(* down, or running the new files without having answered in time.           *)
RollDebris ==
    IF job.pc \in DOMAIN RollIndex
    THEN \/ UNCHANGED gw
         \/ Recreated(RollIndex[job.pc], FALSE)
         \/ files.refs \subseteq files.environment /\ Recreated(RollIndex[job.pc], TRUE)
    ELSE UNCHANGED gw

(* Any exception between preview and the final commit: a first attempt that  *)
(* never completed a snapshot failed validation, everything else is undone.  *)
ApplyFails ==
    /\ job.pc \in ApplySteps
    /\ RollDebris
    /\ IF job.fresh /\ snap[job.op].state # "complete"
       THEN Stage(job.op, "failed") /\ Leave
       ELSE /\ job' = [job EXCEPT !.mode = "undo", !.pc = "undoRoutes"]
            /\ UNCHANGED <<ops, recoveryOp, regLock>>
    /\ UNCHANGED <<profile, lastOp, files, registryDb, baseline, snap, reviewed,
                   picked, returned, edits, crashes, overtaken>>

Saved == snap[job.target].files

RestoreFile ==
    /\ job.pc \in RestoreFiles
    /\ snap[job.target].state = "complete"
    /\ \/ WriteFile("undoRoutes", "undoRegistry",
                    [files EXCEPT !.routes = Saved.routes, !.ext = Saved.ext])
       \/ WriteFile("undoRegistry", "undoOverride",
                    [files EXCEPT !.registry = Saved.registry])
       \/ WriteFile("undoOverride", "undoEnvironment",
                    [files EXCEPT !.override = Saved.override, !.refs = Saved.refs])
       \/ WriteFile("undoEnvironment", "hostcheck",
                    [files EXCEPT !.environment = Saved.environment])

(* The unmanaged files are compared only after the managed ones are back. *)
CheckHost ==
    /\ job.pc = "hostcheck"
    /\ files.host = snap[job.target].base.files.host
    /\ GoTo("reroll1")
    /\ UNCHANGED <<profile, ops, lastOp, recoveryOp, files, gw, registryDb, baseline,
                   snap, reviewed, picked, regLock, returned, edits, crashes, overtaken>>

(* The old baseline, with the files as they are now and the registry kept.   *)
(* A restart commits it together with the status, the others do not.         *)
Rebase ==
    /\ job.pc = "rebase"
    /\ baseline' = [snap[job.target].base EXCEPT !.files = files, !.registry = registryDb]
    /\ \/ job.mode = "restart" /\ Stage(job.op, "failed") /\ Leave
       \/ job.mode = "undo" /\ GoTo("fail") /\ UNCHANGED <<ops, recoveryOp, regLock>>
       \/ job.mode = "recover" /\ GoTo("unlock") /\ UNCHANGED <<ops, recoveryOp, regLock>>
    /\ UNCHANGED <<profile, lastOp, files, gw, registryDb, snap, reviewed, picked,
                   returned, edits, crashes, overtaken>>

StageRestored ==
    /\ job.pc = "fail"
    /\ Stage(job.op, "failed") /\ Leave
    /\ UNCHANGED <<profile, lastOp, files, gw, registryDb, baseline, snap, reviewed,
                   picked, returned, edits, crashes, overtaken>>

(* An exception while restoring: the operation becomes recovery-required, a  *)
(* recovery that fails leaves whatever pointer there is by then.             *)
RestoreFails ==
    /\ job.pc \in RestoreSteps \cup RebaseSteps \cup CloseSteps
    /\ RollDebris
    /\ IF job.mode = "recover" THEN Stage(job.op, "failed")
                               ELSE Stage(job.op, "recovery-required")
    /\ Leave
    /\ UNCHANGED <<profile, lastOp, files, registryDb, baseline, snap, reviewed,
                   picked, returned, edits, crashes, overtaken>>

(* The recover RPC; nothing stops it from being called again for an          *)
(* operation that already ended.                                             *)
RecoverBegin(o) ==
    /\ Unlocked /\ regLock = "free"
    /\ ops[o].kind = "recover" /\ ops[o].status # "none"
    /\ recoveryOp # 0
    /\ ops[recoveryOp].code = ops[o].code
    /\ regLock' = "worker"
    /\ job' = [Idle EXCEPT !.who = "serve", !.mode = "recover", !.op = o,
                           !.target = recoveryOp, !.pc = "undoRoutes"]
    /\ UNCHANGED <<profile, ops, lastOp, recoveryOp, files, gw, registryDb, baseline,
                   snap, reviewed, picked, returned, edits, crashes, overtaken>>

\* Variant: the target is closed with the pointer still on it.
RecoverUnlock_KeepsPointer ==
    /\ job.pc = "unlock"
    /\ GoTo("closeTarget")
    /\ UNCHANGED <<profile, ops, lastOp, recoveryOp, files, gw, registryDb, baseline, snap,
                   reviewed, picked, regLock, returned, edits, crashes, overtaken>>

RecoverUnlock ==
    /\ job.pc = "unlock"
    /\ recoveryOp' = 0
    /\ GoTo("closeTarget")
    /\ UNCHANGED <<profile, ops, lastOp, files, gw, registryDb, baseline, snap, reviewed,
                   picked, regLock, returned, edits, crashes, overtaken>>

RecoverCloseTarget ==
    /\ job.pc = "closeTarget"
    /\ Stage(job.target, "failed")
    /\ GoTo("closeSelf")
    /\ UNCHANGED <<profile, lastOp, files, gw, registryDb, baseline, snap, reviewed,
                   picked, regLock, returned, edits, crashes, overtaken>>

RecoverCloseSelf ==
    /\ job.pc = "closeSelf"
    /\ Stage(job.op, "recovered") /\ Leave
    /\ UNCHANGED <<profile, lastOp, files, gw, registryDb, baseline, snap, reviewed,
                   picked, returned, edits, crashes, overtaken>>

-----------------------------------------------------------------------------
(* The rest of the world. *)

(* A worker process dies; PostgreSQL frees the advisory locks of its         *)
(* sessions.  An exception that leaves apply() because the status could not  *)
(* be written has the same effect on everything modelled here.               *)
Crash(d) ==
    /\ crashes < MaxCrashes
    /\ job.who = d \/ picked[d] # 0
    /\ crashes' = crashes + 1
    /\ picked' = [picked EXCEPT ![d] = 0]
    /\ IF job.who = d
       THEN job' = Idle /\ regLock' = IF regLock = "worker" THEN "free" ELSE regLock
       ELSE UNCHANGED <<job, regLock>>
    /\ UNCHANGED <<profile, ops, lastOp, recoveryOp, files, gw, registryDb, baseline,
                   snap, reviewed, returned, edits, overtaken>>

(* Someone edits an unmanaged route, or compose, .env or the entrypoint. *)
OutsideEdit ==
    /\ edits < MaxEdits
    /\ edits' = edits + 1
    /\ \/ files' = [files EXCEPT !.ext = edits + 1]
       \/ files' = [files EXCEPT !.host = edits + 1]
    /\ UNCHANGED <<profile, ops, lastOp, recoveryOp, gw, registryDb, baseline, snap,
                   reviewed, job, picked, regLock, returned, crashes, overtaken>>

(* A refresh cycle or the registry CLI takes the registry lock; the CLI may  *)
(* rename a registered agent.                                                *)
OtherTakes ==
    /\ regLock = "free"
    /\ regLock' = "other"
    /\ \/ UNCHANGED <<registryDb, edits>>
       \/ /\ edits < MaxEdits
          /\ edits' = edits + 1
          /\ \E c \in Codes : /\ registryDb[c] # 0
                              /\ registryDb' = [registryDb EXCEPT ![c] = Cli]
    /\ UNCHANGED <<profile, ops, lastOp, recoveryOp, files, gw, baseline, snap, reviewed,
                   job, picked, returned, crashes, overtaken>>

OtherReleases ==
    /\ regLock = "other"
    /\ regLock' = "free"
    /\ UNCHANGED <<profile, ops, lastOp, recoveryOp, files, gw, registryDb, baseline,
                   snap, reviewed, job, picked, returned, edits, crashes, overtaken>>

-----------------------------------------------------------------------------

Forward ==
    \/ CheckPreview \/ SnapshotOpen \/ SnapshotFill \/ StageRunning
    \/ WriteRoutes \/ WriteOverride \/ RollInstance \/ RegisterAgents
    \/ ExportRegistry \/ CommitApply \/ FinishApply
Backward ==
    \/ ApplyFails \/ RestoreFile \/ CheckHost \/ Rebase \/ StageRestored
    \/ RestoreFails \/ RecoverUnlock \/ RecoverCloseTarget \/ RecoverCloseSelf
JobStep == Forward \/ Backward \/ ImportWrite \/ ImportAdopt
Begin(d) == ApplyBegin(d) \/ RestartBegin(d) \/ RestartRefused(d)

Next ==
    \/ \E c \in Codes : SaveDraft(c) \/ RequestApply(c) \/ RequestRecover(c)
    \/ Bootstrap \/ Reconcile
    \/ \E s \in Secrets : ImportBegin(s)
    \/ \E d \in Drainers : DrainSelect(d) \/ ApplyDeclined(d) \/ Begin(d) \/ Crash(d)
    \/ JobStep
    \/ \E o \in OpIds : RecoverBegin(o)
    \/ OutsideEdit \/ OtherTakes \/ OtherReleases

Spec == Init /\ [][Next]_vars

(* The drain loop never stops and drops a pick it cannot start, the job in    *)
(* hand goes on (every call it makes has a timeout), a refresh cycle ends; and *)
(* the loop, which polls every two seconds, does not for ever look only while  *)
(* one of the two locks is held: a refresh comes once in five minutes.         *)
Fairness ==
    /\ WF_vars(JobStep)
    /\ WF_vars(OtherReleases)
    /\ \A d \in Drainers : /\ SF_vars(DrainSelect(d) /\ Unlocked /\ regLock = "free")
                           /\ WF_vars(DrainSelect(d))
                           /\ WF_vars(ApplyDeclined(d))
                           /\ SF_vars(Begin(d))
LiveSpec == Spec /\ Fairness

-----------------------------------------------------------------------------
(* Properties. *)

Running == {o \in OpIds : ops[o].kind = "apply" /\ ops[o].status = "running"}

(* Nobody holds the lock, no rollout is half way, no recovery is pending, and *)
(* no apply was let through while one was.                                    *)
AtRest == Unlocked /\ Running = {} /\ recoveryOp = 0 /\ ~overtaken

(* A rollout that a crash may interrupt can be undone: the snapshot of every  *)
(* running apply is complete, manifest included, before the first file it     *)
(* saves is overwritten.                                                      *)
SnapshotCovers == \A o \in Running : snap[o].state = "complete"

(* The deployment row never points at an operation that is not waiting for    *)
(* recovery, whatever crashed between the transactions of recover().          *)
RecoveryNamesUnresolved ==
    recoveryOp # 0 => ops[recoveryOp].status = "recovery-required"

(* What a restore puts back is what the profiles say is applied: profile,     *)
(* baseline and status commit together in the last transaction of apply(), so *)
(* old files are never restored after a new applied profile committed.        *)
RestoresWhatIsApplied ==
    job.pc \in RestoreSteps /\ ~overtaken /\ snap[job.target].state = "complete" =>
        \A c \in Codes : Saved.routes[c] = profile[c].applied

(* At rest, what the administrator sees as applied is what the routes file    *)
(* holds and what both instances serve, and nothing else of ours, through     *)
(* failed second instances, crashes at any step, restores and recoveries.     *)
AppliedIsDeployed ==
    AtRest => \A c \in Codes :
        /\ files.routes[c] = profile[c].applied
        /\ \A i \in Instances : gw[i].up /\ gw[i].view.routes[c] = profile[c].applied

(* "Applied" is true of the running gateway, and a restore keeps it true.     *)
AppliedIsTrue == RestoresWhatIsApplied /\ AppliedIsDeployed

(* At rest, the provider secret of every applied profile is in managed.env    *)
(* and in the environment of both instances, although restores put back       *)
(* older versions of that file.                                               *)
SecretsInUse ==
    AtRest => \A c \in Codes : \A i \in Instances :
        profile[c].applied # 0 =>
            SecretOf[c][profile[c].applied]
                \in files.environment \cap gw[i].view.environment

(* At rest and with nobody editing from outside, the worker's own successes,  *)
(* failures and crashes leave no drift behind: the next preview is possible.  *)
(* The one exception is a secret import that crashed between its two steps.   *)
NoDriftOfItsOwn ==
    AtRest /\ baseline.set /\ edits = 0 =>
        /\ baseline.registry = registryDb
        /\ baseline.files = [files EXCEPT !.environment = baseline.files.environment]
        /\ crashes = 0 => baseline.files.environment = files.environment

(* What the worker leaves at rest can be used and can be built upon.          *)
RestIsInOrder == SecretsInUse /\ NoDriftOfItsOwn

(* The saga as the administrator sees it. *)
Served(i) == IF gw[i].up THEN gw[i].view.routes ELSE <<>>
Seen(o) ==
    IF ops[o].kind # "apply" THEN "none"
    ELSE CASE ops[o].status = "queued" ->
                IF snap[o].state = "complete" THEN "rolling" ELSE "waiting"
           [] ops[o].status = "running" -> "rolling"
           [] ops[o].status = "recovery-required" -> "stuck"
           [] OTHER -> ops[o].status
OneChanged(mix) == {[mix EXCEPT ![c] = r] : c \in Codes, r \in Revs \ {0}}

Atomic == INSTANCE ConnectionApply WITH
    Ops <- OpIds, Sites <- Instances, Mixes <- RevMap, None <- Nothing, Down <- <<>>,
    Changes <- OneChanged,
    applied <- [c \in Codes |-> profile[c].applied],
    wish <- [o \in OpIds |-> reviewed[o].profiles],
    before <- [o \in OpIds |-> snap[o].files.routes],
    status <- [o \in OpIds |-> Seen(o)],
    serving <- [i \in Instances |-> Served(i)]

(* An apply is one change to whoever looks at the gateway through its ends: it *)
(* commits with both instances on exactly the combination that was reviewed,   *)
(* fails with both back on what they served before, or asks for recovery, and  *)
(* nothing else is ever started, wherever the worker crashes.                  *)
AppliesAreAtomic == Atomic!Spec

(* An apply writes the registry tables only as they were reviewed: a rename   *)
(* made through the CLI after the preview is found and not overwritten.       *)
RegistryAsReviewed ==
    [][RegisterAgents => registryDb = reviewed[job.op].registry]_vars

(* An apply that ended stays ended: a crashed rollout is compensated, never   *)
(* replayed, and an applied one is never reported as failed.                  *)
TerminalIsFinal ==
    [][\A o \in OpIds : ops[o].kind = "apply" /\ ops[o].status \in {"applied", "failed"}
         => ops'[o].status = ops[o].status]_vars

(* Every apply that was enqueued ends as applied, failed or recovery-required.*)
ApplyResolves ==
    \A o \in OpIds : (ops[o].kind = "apply" /\ Unresolved(o)) ~> ~Unresolved(o)

=============================================================================
