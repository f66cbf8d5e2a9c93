----------------------- MODULE ConnectionDeploy_proofs -----------------------
(***************************************************************************)
(* Theorems about ConnectionDeploy, for every set of agents, secrets and   *)
(* drains and every bound; and, with the one drain loop of the service,    *)
(* that it implements ConnectionApply, that what is applied is what the    *)
(* gateway serves, and that what is left at rest is in order.              *)
(***************************************************************************)
EXTENDS ConnectionDeploy, TLAPS

Working == ApplySteps \cup RestoreSteps \cup RebaseSteps \cup CloseSteps

(* A job that works on an operation holds the number of one. *)
JobOK ==
    job.pc \in Working => job.op \in OpIds /\ job.target \in OpIds

TypeInv == TypeOK /\ JobOK

USE DEF OpIds, Revs, RevMap, DbMap, Cli, Instances

LEMMA InitTypeInv == Init => TypeInv
<1> SUFFICES ASSUME Init PROVE TypeInv
  OBVIOUS
<1> USE StoreAssumption, DeployAssumption
<1>1. NoOp \in OpRow
  BY DEF NoOp, OpRow, Kinds, Statuses
<1>2. StoreTypeOK
  BY <1>1 DEF Init, StoreInit, StoreTypeOK, ProfileRow
<1>3. NoFiles \in Files /\ Nothing \in RevMap /\ Nothing \in DbMap
  BY DEF NoFiles, Files, Nothing
<1>4. ViewOf(NoFiles) \in View
  BY <1>3 DEF ViewOf, View, Files
<1>5. NoBaseline \in Baselines
  BY <1>3 DEF NoBaseline, Baselines
<1>6. NoReview \in Reviews /\ NoSnapshot \in Snapshots
  BY <1>3, <1>5 DEF NoReview, Reviews, NoSnapshot, Snapshots
<1>7. Idle \in Jobs
  BY <1>3 DEF Idle, Jobs, Modes, Steps
<1>8. JobOK
  BY DEF Init, JobOK, Working, Idle, ApplySteps, RestoreSteps, RestoreFiles, RebaseSteps, CloseSteps
<1>9. files \in Files /\ baseline \in Baselines /\ job \in Jobs /\ registryDb \in DbMap
  BY <1>3, <1>5, <1>7 DEF Init
<1>10. gw \in [Instances -> [up : BOOLEAN, view : View]]
  BY <1>4 DEF Init
<1>11. snap \in [OpIds -> Snapshots] /\ reviewed \in [OpIds -> Reviews]
  BY <1>6 DEF Init
<1>12. picked \in [Drainers -> 0..MaxOps]
  BY DEF Init
<1>13. edits \in 0..MaxEdits /\ crashes \in 0..MaxCrashes
  BY DEF Init
<1>14. /\ regLock \in {"free", "worker", "other"}
       /\ returned \subseteq Secrets
       /\ overtaken \in BOOLEAN
  BY DEF Init
<1> QED
  BY <1>2, <1>8, <1>9, <1>10, <1>11, <1>12, <1>13, <1>14 DEF TypeInv, TypeOK


(* Lemmas on the helpers of the actions. *)

LEMMA IdleType == Idle \in Jobs /\ Idle.pc = "idle" /\ Idle.mode = "none"
<1>1. 0 \in 0..MaxOps /\ 0 \in 0..MaxEdits
  BY StoreAssumption, DeployAssumption
<1>2. Nothing \in RevMap
  BY StoreAssumption DEF Nothing
<1> QED
  BY <1>1, <1>2 DEF Idle, Jobs, Modes, Steps

LEMMA StepsOutside == \A pc \in {"idle", "refresh", "write", "adopt"} : pc \notin Working
BY DEF Working, ApplySteps, RestoreSteps, RestoreFiles, RebaseSteps, CloseSteps

LEMMA GoToType ==
  ASSUME job \in Jobs, NEW pc \in Steps, GoTo(pc)
  PROVE  /\ job' \in Jobs
         /\ job'.pc = pc
         /\ job'.op = job.op /\ job'.target = job.target
         /\ job'.mode = job.mode /\ job'.who = job.who
BY DEF GoTo, Jobs

LEMMA TakeType ==
  ASSUME NEW d \in Drainers, NEW mode \in Modes, NEW o \in OpIds, NEW pc \in Steps,
         Take(d, mode, o, pc)
  PROVE  /\ job' \in Jobs
         /\ job'.op = o /\ job'.target = o /\ job'.mode = mode /\ job'.pc = pc
<1>1. o \in 0..MaxOps
  BY StoreAssumption
<1> QED
  BY <1>1, IdleType DEF Take, Jobs

LEMMA StageType ==
  ASSUME StoreTypeOK, NEW o \in OpIds, NEW status \in Statuses, Stage(o, status)
  PROVE  /\ ops' \in [OpIds -> OpRow] /\ recoveryOp' \in 0..MaxOps
         /\ ops'[o].status = status
         /\ \A p \in OpIds : /\ ops'[p].kind = ops[p].kind
                             /\ p # o => ops'[p] = ops[p]
<1>1. ops \in [OpIds -> OpRow] /\ recoveryOp \in 0..MaxOps /\ o \in 0..MaxOps
  BY StoreAssumption DEF StoreTypeOK
<1>2. ops' = [ops EXCEPT ![o] = [ops[o] EXCEPT !.status = status]]
  BY <1>1 DEF Stage
<1>3. [ops[o] EXCEPT !.status = status] \in OpRow
  BY <1>1 DEF OpRow
<1>4. /\ [ops[o] EXCEPT !.status = status].status = status
      /\ [ops[o] EXCEPT !.status = status].kind = ops[o].kind
  BY <1>1 DEF OpRow
<1>5. ops' \in [OpIds -> OpRow]
  BY <1>1, <1>2, <1>3
<1>6. recoveryOp' \in 0..MaxOps
  BY <1>1 DEF Stage
<1> QED
  BY <1>1, <1>2, <1>4, <1>5, <1>6

LEMMA EnqueueType ==
  ASSUME StoreTypeOK, NEW c \in Codes, NEW kind \in Kinds, Enqueue(c, kind)
  PROVE  /\ StoreTypeOK'
         /\ lastOp + 1 \in OpIds
         /\ ops'[lastOp + 1].status = "queued" /\ ops'[lastOp + 1].kind = kind
         /\ \A p \in OpIds : p # lastOp + 1 => ops'[p] = ops[p]
<1> DEFINE row == [code |-> c, kind |-> kind, rev |-> profile[c].rev, status |-> "queued"]
<1>1. lastOp + 1 \in OpIds /\ lastOp' \in 0..MaxOps
  BY StoreAssumption DEF StoreTypeOK, Enqueue
<1>2. row \in OpRow
  BY DEF StoreTypeOK, ProfileRow, OpRow, Statuses
<1>3. row.status = "queued" /\ row.kind = kind
  OBVIOUS
<1>4. ops' = [ops EXCEPT ![lastOp + 1] = row]
  BY DEF Enqueue
<1> HIDE DEF row
<1>5. ops \in [OpIds -> OpRow]
  BY DEF StoreTypeOK
<1>6. /\ ops' \in [OpIds -> OpRow] /\ ops'[lastOp + 1] = row
      /\ \A p \in OpIds : p # lastOp + 1 => ops'[p] = ops[p]
  BY <1>1, <1>2, <1>4, <1>5
<1>7. StoreTypeOK'
  BY <1>1, <1>6 DEF StoreTypeOK, Enqueue
<1> QED
  BY <1>1, <1>3, <1>6, <1>7

LEMMA SaveType ==
  ASSUME StoreTypeOK, NEW c \in Codes, Save(c)
  PROVE  StoreTypeOK'
<1>1. profile[c] \in ProfileRow /\ profile[c].rev + 1 \in Revs
  BY StoreAssumption DEF StoreTypeOK, Save, ProfileRow
<1>2. [profile[c] EXCEPT !.rev = @ + 1] \in ProfileRow
  BY <1>1 DEF ProfileRow
<1>3. profile' = [profile EXCEPT ![c] = [profile[c] EXCEPT !.rev = @ + 1]]
  BY DEF Save
<1> QED
  BY <1>2, <1>3 DEF Save, StoreTypeOK

LEMMA RecreatedType ==
  ASSUME gw \in [Instances -> [up : BOOLEAN, view : View]], files \in Files,
         NEW i, NEW up \in BOOLEAN, Recreated(i, up)
  PROVE  gw' \in [Instances -> [up : BOOLEAN, view : View]]
<1>1. [up |-> up, view |-> ViewOf(files)] \in [up : BOOLEAN, view : View]
  BY DEF ViewOf, View, Files
<1> QED
  BY <1>1 DEF Recreated

LEMMA RollDebrisType ==
  ASSUME gw \in [Instances -> [up : BOOLEAN, view : View]], files \in Files, RollDebris
  PROVE  gw' \in [Instances -> [up : BOOLEAN, view : View]]
BY RecreatedType, TRUE \in BOOLEAN, FALSE \in BOOLEAN DEF RollDebris

LEMMA UnchangedType == TypeInv /\ UNCHANGED vars => TypeInv'
BY DEF vars, TypeInv, TypeOK, StoreTypeOK, JobOK


LEMMA StepTypeInv == TypeInv /\ [Next]_vars => TypeInv'
<1> SUFFICES ASSUME TypeInv, [Next]_vars PROVE TypeInv'
  OBVIOUS
<1> USE StoreAssumption, DeployAssumption DEF TypeInv
<1>0. TypeOK /\ StoreTypeOK /\ job \in Jobs
  BY DEF TypeOK
<1>1. CASE \E c \in Codes : SaveDraft(c)
  <2>1. PICK c \in Codes : SaveDraft(c)
    BY <1>1
  <2>2. StoreTypeOK'
    BY <1>0, <2>1, SaveType DEF SaveDraft
  <2> QED
    BY <1>0, <2>1, <2>2 DEF SaveDraft, deployVars, TypeOK, JobOK
<1>2. CASE \E c \in Codes : RequestApply(c)
  <2>1. PICK c \in Codes : RequestApply(c)
    BY <1>2
  <2>2. StoreTypeOK' /\ lastOp + 1 \in OpIds
    BY <1>0, <2>1, EnqueueType, "apply" \in Kinds DEF RequestApply, Kinds
  <2>3. PreviewHash(c) \in Reviews
    BY <1>0 DEF PreviewHash, Reviews, TypeOK, StoreTypeOK, ProfileRow, Baselines, Rendered
  <2> QED
    BY <1>0, <2>1, <2>2, <2>3 DEF RequestApply, TypeOK, JobOK
<1>3. CASE \E c \in Codes : RequestRecover(c)
  <2>1. PICK c \in Codes : RequestRecover(c)
    BY <1>3
  <2>2. StoreTypeOK'
    BY <1>0, <2>1, EnqueueType, "recover" \in Kinds DEF RequestRecover, Kinds
  <2> QED
    BY <1>0, <2>1, <2>2 DEF RequestRecover, deployVars, TypeOK, JobOK
<1>4. CASE Bootstrap
  <2>1. baseline' \in Baselines
    BY <1>4 DEF Bootstrap, Baselines, TypeOK
  <2> QED
    BY <1>4, <2>1 DEF Bootstrap, TypeOK, StoreTypeOK, JobOK
<1>5. CASE Reconcile
  <2>1. baseline' \in Baselines
    BY <1>5 DEF Reconcile, Baselines, TypeOK
  <2> QED
    BY <1>5, <2>1 DEF Reconcile, TypeOK, StoreTypeOK, JobOK
<1>6. CASE \E s \in Secrets : ImportBegin(s)
  <2>1. PICK s \in Secrets : ImportBegin(s)
    BY <1>6
  <2>2. "secret" \in Modes /\ "write" \in Steps /\ "serve" \in Drainers /\ {s} \subseteq Secrets
    BY DEF Modes, Steps, SecretSteps
  <2>3. job' \in Jobs /\ job'.pc = "write"
    BY <2>1, <2>2, IdleType DEF ImportBegin, Jobs
  <2> QED
    BY <2>1, <2>3, StepsOutside DEF ImportBegin, TypeOK, StoreTypeOK, JobOK
<1>7. CASE ImportWrite
  <2>1. job' \in Jobs /\ job'.pc = "adopt"
    BY <1>0, <1>7, GoToType, "adopt" \in Steps DEF ImportWrite, Steps, SecretSteps
  <2>2. files' \in Files
    BY <1>0, <1>7 DEF ImportWrite, Files, Jobs, TypeOK
  <2> QED
    BY <1>7, <2>1, <2>2, StepsOutside DEF ImportWrite, TypeOK, StoreTypeOK, JobOK
<1>8. CASE ImportAdopt
  <2>1. [baseline.files EXCEPT !.environment = files.environment] \in Files
    BY DEF Files, TypeOK, Baselines
  <2>2. baseline' = [baseline EXCEPT !.files = [baseline.files EXCEPT !.environment = files.environment]]
    BY <1>8 DEF ImportAdopt
  <2>3. baseline' \in Baselines
    BY <2>1, <2>2 DEF TypeOK, Baselines
  <2>4. returned' \subseteq Secrets
    BY <1>0, <1>8 DEF ImportAdopt, Jobs, TypeOK
  <2> QED
    BY <1>8, <2>3, <2>4, IdleType, StepsOutside DEF ImportAdopt, TypeOK, StoreTypeOK, JobOK
<1>9. CASE \E d \in Drainers : DrainSelect(d)
  <2>1. picked' \in [Drainers -> 0..MaxOps]
    BY <1>9 DEF DrainSelect, Drainable, TypeOK
  <2> QED
    BY <1>9, <2>1 DEF DrainSelect, TypeOK, StoreTypeOK, JobOK
<1>10. CASE \E d \in Drainers : ApplyDeclined(d)
  <2>1. picked' \in [Drainers -> 0..MaxOps]
    BY <1>10 DEF ApplyDeclined, TypeOK
  <2> QED
    BY <1>10, <2>1 DEF ApplyDeclined, TypeOK, StoreTypeOK, JobOK
<1>11. CASE \E d \in Drainers : ApplyBegin(d)
  <2>1. PICK d \in Drainers : ApplyBegin(d)
    BY <1>11
  <2>2. picked' \in [Drainers -> 0..MaxOps] /\ picked[d] \in OpIds
    BY <2>1 DEF ApplyBegin, TypeOK
  <2>3. job' \in Jobs /\ job'.op \in OpIds /\ job'.target \in OpIds
    BY <2>1, <2>2, TakeType, "apply" \in Modes, "preview" \in Steps
       DEF ApplyBegin, Modes, Steps, ApplySteps
  <2>4. regLock' = "worker" /\ overtaken' \in BOOLEAN
    BY <2>1 DEF ApplyBegin, Take, TypeOK
  <2> QED
    BY <2>1, <2>2, <2>3, <2>4 DEF ApplyBegin, TypeOK, StoreTypeOK, JobOK
<1>12. CASE \E d \in Drainers : RestartBegin(d)
  <2>1. PICK d \in Drainers : RestartBegin(d)
    BY <1>12
  <2>2. picked' \in [Drainers -> 0..MaxOps] /\ picked[d] \in OpIds
    BY <2>1 DEF RestartBegin, TypeOK
  <2>3. job' \in Jobs /\ job'.op \in OpIds /\ job'.target \in OpIds
    BY <2>1, <2>2, TakeType, "restart" \in Modes, "undoRoutes" \in Steps
       DEF RestartBegin, Modes, Steps, RestoreSteps, RestoreFiles
  <2>4. regLock' = "worker"
    BY <2>1 DEF RestartBegin, Take
  <2> QED
    BY <2>1, <2>2, <2>3, <2>4 DEF RestartBegin, TypeOK, StoreTypeOK, JobOK
<1>13. CASE \E d \in Drainers : RestartRefused(d)
  <2>1. PICK d \in Drainers : RestartRefused(d)
    BY <1>13
  <2>2. picked' \in [Drainers -> 0..MaxOps] /\ picked[d] \in OpIds
    BY <2>1 DEF RestartRefused, TypeOK
  <2>3. ops' \in [OpIds -> OpRow] /\ recoveryOp' \in 0..MaxOps
    BY <1>0, <2>1, <2>2, StageType, "recovery-required" \in Statuses DEF RestartRefused, Statuses
  <2> QED
    BY <2>1, <2>2, <2>3 DEF RestartRefused, TypeOK, StoreTypeOK, JobOK
<1>14. CASE CheckPreview
  <2>1. job.op \in OpIds /\ Rendered(Code) \in RevMap
    BY <1>0, <1>14 DEF CheckPreview, JobOK, Working, ApplySteps, Rendered, Code,
                       StoreTypeOK, OpRow, ProfileRow
  <2>2. files.ext \in 0..MaxEdits
    BY DEF TypeOK, Files
  <2>3. job' \in Jobs /\ job'.op = job.op /\ job'.target = job.target
    BY <1>0, <1>14, <2>1, <2>2 DEF CheckPreview, Jobs, Steps, ApplySteps
  <2> QED
    BY <1>14, <2>3 DEF CheckPreview, TypeOK, StoreTypeOK, JobOK, Working, ApplySteps
<1>15. CASE SnapshotOpen
  <2>1. job' \in Jobs /\ job'.op = job.op /\ job'.target = job.target /\ job.pc \in Working
    BY <1>0, <1>15, GoToType, "fill" \in Steps, "start" \in Steps
       DEF SnapshotOpen, Steps, ApplySteps, Working
  <2>2. snap' \in [OpIds -> Snapshots]
    <3>1. CASE UNCHANGED snap
      BY <3>1 DEF TypeOK
    <3>2. CASE snap' = [snap EXCEPT ![job.op].state = "partial"]
      <4>1. snap' = [snap EXCEPT ![job.op] = [snap[job.op] EXCEPT !.state = "partial"]]
        BY <3>2
      <4>2. snap[job.op] \in Snapshots
        BY <2>1 DEF TypeOK, JobOK
      <4>3. [snap[job.op] EXCEPT !.state = "partial"] \in Snapshots
        BY <4>2 DEF Snapshots
      <4> QED
        BY <4>1, <4>3 DEF TypeOK
    <3> QED
      BY <1>15, <3>1, <3>2 DEF SnapshotOpen
  <2> QED
    BY <1>15, <2>1, <2>2 DEF SnapshotOpen, TypeOK, StoreTypeOK, JobOK
<1>16. CASE SnapshotFill
  <2>1. job' \in Jobs /\ job'.op = job.op /\ job'.target = job.target /\ job.pc \in Working
    BY <1>0, <1>16, GoToType, "start" \in Steps DEF SnapshotFill, Steps, ApplySteps, Working
  <2>2. [state |-> "complete", base |-> baseline, files |-> files] \in Snapshots
    BY DEF TypeOK, Snapshots
  <2> QED
    BY <1>16, <2>1, <2>2 DEF SnapshotFill, TypeOK, StoreTypeOK, JobOK
<1>17. CASE StageRunning
  <2>1. job' \in Jobs /\ job'.op = job.op /\ job'.target = job.target /\ job.op \in OpIds
    BY <1>0, <1>17, GoToType, "routes" \in Steps
       DEF StageRunning, Steps, ApplySteps, Working, JobOK
  <2>2. ops' \in [OpIds -> OpRow] /\ recoveryOp' \in 0..MaxOps
    BY <1>0, <1>17, <2>1, StageType, "running" \in Statuses DEF StageRunning, Statuses
  <2>3. job'.op \in OpIds /\ job'.target \in OpIds
    BY <1>17, <2>1 DEF StageRunning, JobOK, Working, ApplySteps
  <2> QED
    BY <1>17, <2>1, <2>2, <2>3 DEF StageRunning, TypeOK, StoreTypeOK, JobOK
<1>18. CASE WriteRoutes
  <2>1. job' \in Jobs /\ job'.op = job.op /\ job'.target = job.target /\ job.pc \in Working
    BY <1>0, <1>18, GoToType, "override" \in Steps
       DEF WriteRoutes, WriteFile, Steps, ApplySteps, Working
  <2>2. files' \in Files
    BY <1>0, <1>18 DEF WriteRoutes, WriteFile, Files, Jobs, TypeOK
  <2> QED
    BY <1>18, <2>1, <2>2 DEF WriteRoutes, WriteFile, TypeOK, StoreTypeOK, JobOK
<1>19. CASE WriteOverride
  <2>1. job' \in Jobs /\ job'.op = job.op /\ job'.target = job.target /\ job.pc \in Working
    BY <1>0, <1>19, GoToType, "roll1" \in Steps
       DEF WriteOverride, WriteFile, Steps, ApplySteps, Working
  <2>2. files' \in Files
    BY <1>0, <1>19 DEF WriteOverride, WriteFile, Files, Jobs, TypeOK
  <2> QED
    BY <1>19, <2>1, <2>2 DEF WriteOverride, WriteFile, TypeOK, StoreTypeOK, JobOK
<1>20. CASE RollInstance
  <2>1. job.pc \in {"roll1", "roll2", "reroll1", "reroll2"}
    BY <1>20 DEF RollInstance, NextRoll
  <2>2. NextRoll[job.pc] \in Steps /\ job.pc \in Working
    BY <2>1 DEF NextRoll, Steps, Working, ApplySteps, RestoreSteps, RebaseSteps
  <2>3. job' \in Jobs /\ job'.op = job.op /\ job'.target = job.target
    BY <1>0, <1>20, <2>2, GoToType DEF RollInstance
  <2>4. gw' \in [Instances -> [up : BOOLEAN, view : View]]
    BY <1>0, <1>20, RecreatedType, TRUE \in BOOLEAN DEF RollInstance, TypeOK
  <2> QED
    BY <1>20, <2>2, <2>3, <2>4 DEF RollInstance, TypeOK, StoreTypeOK, JobOK
<1>21. CASE RegisterAgents
  <2>1. job' \in Jobs /\ job'.op = job.op /\ job'.target = job.target /\ job.pc \in Working
    BY <1>0, <1>21, GoToType, "export" \in Steps DEF RegisterAgents, Steps, ApplySteps, Working
  <2>2. \A c \in Codes : /\ job.cand[c] \in 0..Cli
                         /\ files.registry[c] \in 0..Cli
                         /\ registryDb[c] \in 0..Cli
    <3>1. job.cand \in RevMap /\ files.registry \in RevMap /\ registryDb \in DbMap
      BY <1>0 DEF Jobs, Files, TypeOK
    <3>2. Revs \subseteq 0..Cli
      OBVIOUS
    <3> QED
      BY <3>1, <3>2
  <2>3. registryDb' \in DbMap
    BY <1>21, <2>2 DEF RegisterAgents
  <2> QED
    BY <1>21, <2>1, <2>3 DEF RegisterAgents, TypeOK, StoreTypeOK, JobOK
<1>22. CASE ExportRegistry
  <2>1. job' \in Jobs /\ job'.op = job.op /\ job'.target = job.target /\ job.pc \in Working
    BY <1>0, <1>22, GoToType, "commit" \in Steps
       DEF ExportRegistry, WriteFile, Steps, ApplySteps, Working
  <2>2. [c \in Codes |-> IF job.cand[c] # 0 THEN job.cand[c] ELSE files.registry[c]] \in RevMap
    BY <1>0 DEF Jobs, Files, TypeOK
  <2>3. files' \in Files
    BY <1>22, <2>2 DEF ExportRegistry, WriteFile, Files, TypeOK
  <2> QED
    BY <1>22, <2>1, <2>3 DEF ExportRegistry, WriteFile, TypeOK, StoreTypeOK, JobOK
<1>23. CASE CommitApply
  <2>1. job.op \in OpIds
    BY <1>23 DEF CommitApply, JobOK, Working, ApplySteps
  <2>2. job' \in Jobs /\ job'.pc = "refresh"
    BY <1>0, <1>23, GoToType, "refresh" \in Steps DEF CommitApply, Steps
  <2>3. ops' \in [OpIds -> OpRow] /\ recoveryOp' \in 0..MaxOps
    BY <1>0, <1>23, <2>1, StageType, "applied" \in Statuses DEF CommitApply, Statuses
  <2>4. Code \in Codes /\ Expected \in Revs
    BY <1>0, <2>1 DEF StoreTypeOK, OpRow, Code, Expected
  <2>5. [profile[Code] EXCEPT !.applied = Expected] \in ProfileRow
    BY <1>0, <2>4 DEF StoreTypeOK, ProfileRow
  <2>6. profile' = [profile EXCEPT ![Code] = [profile[Code] EXCEPT !.applied = Expected]]
    BY <1>23 DEF CommitApply
  <2>7. profile' \in [Codes -> ProfileRow]
    BY <1>0, <2>4, <2>5, <2>6 DEF StoreTypeOK
  <2>8. baseline' \in Baselines
    BY <1>23 DEF CommitApply, Baselines, TypeOK, Owners
  <2> QED
    BY <1>23, <2>2, <2>3, <2>7, <2>8, StepsOutside DEF CommitApply, TypeOK, StoreTypeOK, JobOK
<1>24. CASE FinishApply
  BY <1>24, IdleType, StepsOutside DEF FinishApply, TypeOK, StoreTypeOK, JobOK
<1>25. CASE ApplyFails
  <2>1. job.op \in OpIds /\ job.target \in OpIds
    BY <1>25 DEF ApplyFails, JobOK, Working
  <2>2. gw' \in [Instances -> [up : BOOLEAN, view : View]]
    BY <1>25, RollDebrisType DEF ApplyFails, TypeOK
  <2>3. CASE Stage(job.op, "failed") /\ Leave
    <3>1. ops' \in [OpIds -> OpRow] /\ recoveryOp' \in 0..MaxOps
      BY <1>0, <2>1, <2>3, StageType, "failed" \in Statuses DEF Statuses
    <3> QED
      BY <1>25, <2>2, <2>3, <3>1, IdleType, StepsOutside
         DEF ApplyFails, Leave, TypeOK, StoreTypeOK, JobOK
  <2>4. CASE /\ job' = [job EXCEPT !.mode = "undo", !.pc = "undoRoutes"]
             /\ UNCHANGED <<ops, recoveryOp, regLock>>
    <3>1. job' \in Jobs /\ job'.op = job.op /\ job'.target = job.target
      BY <1>0, <2>4 DEF Jobs, Modes, Steps, RestoreSteps, RestoreFiles
    <3> QED
      BY <1>25, <2>1, <2>2, <2>4, <3>1 DEF ApplyFails, TypeOK, StoreTypeOK, JobOK
  <2> QED
    BY <1>25, <2>3, <2>4 DEF ApplyFails
<1>26. CASE RestoreFile
  <2>1. job.target \in OpIds /\ job.op \in OpIds
    BY <1>26 DEF RestoreFile, JobOK, Working, RestoreSteps
  <2>2. Saved \in Files
    BY <2>1 DEF Saved, TypeOK, Snapshots
  <2>3. files' \in Files
    <3>1. files \in Files
      BY DEF TypeOK
    <3>2. [files EXCEPT !.routes = Saved.routes, !.ext = Saved.ext] \in Files
      BY <2>2, <3>1 DEF Files
    <3>3. [files EXCEPT !.registry = Saved.registry] \in Files
      BY <2>2, <3>1 DEF Files
    <3>4. [files EXCEPT !.override = Saved.override, !.refs = Saved.refs] \in Files
      BY <2>2, <3>1 DEF Files
    <3>5. [files EXCEPT !.environment = Saved.environment] \in Files
      BY <2>2, <3>1 DEF Files
    <3> QED
      BY <1>26, <3>2, <3>3, <3>4, <3>5 DEF RestoreFile, WriteFile
  <2>4. \E pc \in Steps : GoTo(pc)
    BY <1>26 DEF RestoreFile, WriteFile, Steps, RestoreSteps, RestoreFiles
  <2>5. job' \in Jobs /\ job'.op = job.op /\ job'.target = job.target
    BY <1>0, <2>4, GoToType
  <2> QED
    BY <1>26, <2>1, <2>3, <2>5 DEF RestoreFile, WriteFile, TypeOK, StoreTypeOK, JobOK
<1>27. CASE CheckHost
  <2>1. job' \in Jobs /\ job'.op = job.op /\ job'.target = job.target /\ job.pc \in Working
    BY <1>0, <1>27, GoToType, "reroll1" \in Steps DEF CheckHost, Steps, RestoreSteps, Working
  <2> QED
    BY <1>27, <2>1 DEF CheckHost, TypeOK, StoreTypeOK, JobOK
<1>28. CASE Rebase
  <2>1. job.op \in OpIds /\ job.target \in OpIds
    BY <1>28 DEF Rebase, JobOK, Working, RebaseSteps
  <2>2. baseline' \in Baselines
    <3>1. snap[job.target].base \in Baselines
      BY <2>1 DEF TypeOK, Snapshots
    <3>2. files \in Files /\ registryDb \in DbMap
      BY DEF TypeOK
    <3> QED
      BY <1>28, <3>1, <3>2 DEF Rebase, Baselines
  <2>3. CASE Stage(job.op, "failed") /\ Leave
    <3>1. ops' \in [OpIds -> OpRow] /\ recoveryOp' \in 0..MaxOps
      BY <1>0, <2>1, <2>3, StageType, "failed" \in Statuses DEF Statuses
    <3> QED
      BY <1>28, <2>2, <2>3, <3>1, IdleType, StepsOutside
         DEF Rebase, Leave, TypeOK, StoreTypeOK, JobOK
  <2>4. CASE (GoTo("fail") \/ GoTo("unlock")) /\ UNCHANGED <<ops, recoveryOp, regLock>>
    <3>1. job' \in Jobs /\ job'.op = job.op /\ job'.target = job.target
      BY <1>0, <2>4, GoToType, "fail" \in Steps, "unlock" \in Steps
         DEF Steps, RebaseSteps, CloseSteps
    <3> QED
      BY <1>28, <2>1, <2>2, <2>4, <3>1 DEF Rebase, TypeOK, StoreTypeOK, JobOK
  <2> QED
    BY <1>28, <2>3, <2>4 DEF Rebase
<1>29. CASE StageRestored
  <2>1. job.op \in OpIds
    BY <1>29 DEF StageRestored, JobOK, Working, RebaseSteps
  <2>2. ops' \in [OpIds -> OpRow] /\ recoveryOp' \in 0..MaxOps
    BY <1>0, <1>29, <2>1, StageType, "failed" \in Statuses DEF StageRestored, Statuses
  <2> QED
    BY <1>29, <2>2, IdleType, StepsOutside DEF StageRestored, Leave, TypeOK, StoreTypeOK, JobOK
<1>30. CASE RestoreFails
  <2>1. job.op \in OpIds
    BY <1>30 DEF RestoreFails, JobOK, Working
  <2>2. gw' \in [Instances -> [up : BOOLEAN, view : View]]
    BY <1>30, RollDebrisType DEF RestoreFails, TypeOK
  <2>3. ops' \in [OpIds -> OpRow] /\ recoveryOp' \in 0..MaxOps
    BY <1>0, <1>30, <2>1, StageType, "failed" \in Statuses, "recovery-required" \in Statuses
       DEF RestoreFails, Statuses
  <2> QED
    BY <1>30, <2>2, <2>3, IdleType, StepsOutside
       DEF RestoreFails, Leave, TypeOK, StoreTypeOK, JobOK
<1>31. CASE RecoverUnlock
  <2>1. job' \in Jobs /\ job'.op = job.op /\ job'.target = job.target /\ job.pc \in Working
    BY <1>0, <1>31, GoToType, "closeTarget" \in Steps DEF RecoverUnlock, Steps, CloseSteps, Working
  <2> QED
    BY <1>31, <2>1 DEF RecoverUnlock, TypeOK, StoreTypeOK, JobOK
<1>32. CASE RecoverCloseTarget
  <2>1. job' \in Jobs /\ job'.op = job.op /\ job'.target = job.target /\ job.pc \in Working
    BY <1>0, <1>32, GoToType, "closeSelf" \in Steps
       DEF RecoverCloseTarget, Steps, CloseSteps, Working
  <2>2. ops' \in [OpIds -> OpRow] /\ recoveryOp' \in 0..MaxOps
    BY <1>0, <1>32, <2>1, StageType, "failed" \in Statuses DEF RecoverCloseTarget, Statuses, JobOK
  <2> QED
    BY <1>32, <2>1, <2>2 DEF RecoverCloseTarget, TypeOK, StoreTypeOK, JobOK
<1>33. CASE RecoverCloseSelf
  <2>1. job.op \in OpIds
    BY <1>33 DEF RecoverCloseSelf, JobOK, Working, CloseSteps
  <2>2. ops' \in [OpIds -> OpRow] /\ recoveryOp' \in 0..MaxOps
    BY <1>0, <1>33, <2>1, StageType, "recovered" \in Statuses DEF RecoverCloseSelf, Statuses
  <2> QED
    BY <1>33, <2>2, IdleType, StepsOutside
       DEF RecoverCloseSelf, Leave, TypeOK, StoreTypeOK, JobOK
<1>34. CASE \E o \in OpIds : RecoverBegin(o)
  <2>1. PICK o \in OpIds : RecoverBegin(o)
    BY <1>34
  <2>2. recoveryOp \in OpIds /\ o \in 0..MaxOps /\ recoveryOp \in 0..MaxOps
    BY <1>0, <2>1 DEF RecoverBegin, StoreTypeOK
  <2>3. "serve" \in Drainers /\ "recover" \in Modes /\ "undoRoutes" \in Steps
    BY DEF Modes, Steps, RestoreSteps, RestoreFiles
  <2>4. job' \in Jobs /\ job'.op \in OpIds /\ job'.target \in OpIds
    BY <2>1, <2>2, <2>3, IdleType DEF RecoverBegin, Jobs
  <2> QED
    BY <2>1, <2>4 DEF RecoverBegin, TypeOK, StoreTypeOK, JobOK
<1>35. CASE \E d \in Drainers : Crash(d)
  <2>1. PICK d \in Drainers : Crash(d)
    BY <1>35
  <2>2. picked' \in [Drainers -> 0..MaxOps] /\ crashes' \in 0..MaxCrashes
    BY <2>1 DEF Crash, TypeOK
  <2>3. regLock' \in {"free", "worker", "other"} /\ (job' = Idle \/ job' = job)
    BY <2>1 DEF Crash, TypeOK
  <2> QED
    BY <2>1, <2>2, <2>3, IdleType, StepsOutside DEF Crash, TypeOK, StoreTypeOK, JobOK
<1>36. CASE OutsideEdit
  <2>1. edits' \in 0..MaxEdits /\ edits + 1 \in 0..MaxEdits
    BY <1>36 DEF OutsideEdit, TypeOK
  <2>2. files' \in Files
    BY <1>36, <2>1 DEF OutsideEdit, Files, TypeOK
  <2> QED
    BY <1>36, <2>1, <2>2 DEF OutsideEdit, TypeOK, StoreTypeOK, JobOK
<1>37. CASE OtherTakes
  <2>1. edits' \in 0..MaxEdits
    BY <1>37 DEF OtherTakes, TypeOK
  <2>2. registryDb' \in DbMap
    <3>1. registryDb \in DbMap /\ MaxRev + 1 \in 0..Cli
      BY DEF TypeOK
    <3> QED
      BY <1>37, <3>1 DEF OtherTakes
  <2> QED
    BY <1>37, <2>1, <2>2 DEF OtherTakes, TypeOK, StoreTypeOK, JobOK
<1>38. CASE OtherReleases
  BY <1>38 DEF OtherReleases, TypeOK, StoreTypeOK, JobOK
<1>39. CASE UNCHANGED vars
  BY <1>39, UnchangedType
<1> QED
  BY <1>1, <1>2, <1>3, <1>4, <1>5, <1>6, <1>7, <1>8, <1>9, <1>10, <1>11, <1>12, <1>13, <1>14, <1>15, <1>16, <1>17, <1>18, <1>19, <1>20, <1>21, <1>22, <1>23, <1>24, <1>25, <1>26, <1>27, <1>28, <1>29, <1>30, <1>31, <1>32, <1>33, <1>34, <1>35, <1>36, <1>37, <1>38, <1>39
     DEF Next, JobStep, Forward, Backward, Begin

(* Every variable keeps its type: records stay whole, an operation number     *)
(* names a row, and no step of a saga uses one that does not.                 *)
THEOREM TypeCorrect == Spec => []TypeOK
<1>1. TypeInv => TypeOK
  BY DEF TypeInv
<1> QED
  BY InitTypeInv, StepTypeInv, <1>1, PTL DEF Spec

-----------------------------------------------------------------------------
(* Snapshots. *)

Rolling == {"start", "routes", "override", "roll1", "roll2", "register", "export", "commit"}

SnapInv ==
    /\ SnapshotCovers
    /\ job.pc \in Rolling => snap[job.op].state = "complete"

LEMMA RunningKept ==
  ASSUME TypeInv, UNCHANGED ops
  PROVE  Running' = Running
BY DEF Running

LEMMA RunningAfterStage ==
  ASSUME TypeInv, NEW o \in OpIds, NEW status \in Statuses, status # "running", Stage(o, status)
  PROVE  Running' \subseteq Running
BY StageType DEF Running, TypeInv, TypeOK

LEMMA RunningAfterEnqueue ==
  ASSUME TypeInv, NEW c \in Codes, NEW kind \in Kinds, Enqueue(c, kind)
  PROVE  Running' \subseteq Running
BY EnqueueType DEF Running, TypeInv, TypeOK

LEMMA SnapInvKept ==
  ASSUME TypeInv, SnapInv, UNCHANGED snap, Running' \subseteq Running,
         job'.pc \in Rolling => job.pc \in Rolling /\ job'.op = job.op
  PROVE  SnapInv'
BY DEF SnapInv, SnapshotCovers

LEMMA StatusNames ==
  {"running", "applied", "failed", "recovery-required", "recovered"} \subseteq Statuses
BY DEF Statuses

LEMMA InitSnapInv == Init => SnapInv
BY StoreAssumption DEF Init, StoreInit, NoOp, SnapInv, SnapshotCovers, Running, Idle, Rolling

LEMMA StepSnapInv == TypeInv /\ SnapInv /\ [Next]_vars => SnapInv'
<1> SUFFICES ASSUME TypeInv, SnapInv, [Next]_vars PROVE SnapInv'
  OBVIOUS
<1> USE DEF Rolling
<1>0. TypeOK /\ StoreTypeOK /\ job \in Jobs /\ job.op \in 0..MaxOps
  BY DEF TypeInv, TypeOK, Jobs
<1>1. CASE \E c \in Codes : SaveDraft(c)
  BY <1>1, RunningKept, SnapInvKept DEF SaveDraft, Save, deployVars
<1>2. CASE Bootstrap
  BY <1>2, RunningKept, SnapInvKept DEF Bootstrap
<1>3. CASE Reconcile
  BY <1>3, RunningKept, SnapInvKept DEF Reconcile
<1>4. CASE \E d \in Drainers : DrainSelect(d)
  BY <1>4, RunningKept, SnapInvKept DEF DrainSelect
<1>5. CASE \E d \in Drainers : ApplyDeclined(d)
  BY <1>5, RunningKept, SnapInvKept DEF ApplyDeclined
<1>6. CASE OutsideEdit
  BY <1>6, RunningKept, SnapInvKept DEF OutsideEdit
<1>7. CASE OtherTakes
  BY <1>7, RunningKept, SnapInvKept DEF OtherTakes
<1>8. CASE OtherReleases
  BY <1>8, RunningKept, SnapInvKept DEF OtherReleases
<1>9. CASE UNCHANGED vars
  BY <1>9, RunningKept, SnapInvKept DEF vars
<1>10. CASE \E c \in Codes : RequestApply(c)
  <2>1. PICK c \in Codes : RequestApply(c)
    BY <1>10
  <2>2. Running' \subseteq Running
    BY <2>1, RunningAfterEnqueue, "apply" \in Kinds DEF RequestApply, Kinds
  <2> QED
    BY <2>1, <2>2, SnapInvKept DEF RequestApply
<1>11. CASE \E c \in Codes : RequestRecover(c)
  <2>1. PICK c \in Codes : RequestRecover(c)
    BY <1>11
  <2>2. Running' \subseteq Running
    BY <2>1, RunningAfterEnqueue, "recover" \in Kinds DEF RequestRecover, Kinds
  <2> QED
    BY <2>1, <2>2, SnapInvKept DEF RequestRecover, deployVars
<1>12. CASE \E s \in Secrets : ImportBegin(s)
  <2>1. job'.pc = "write"
    BY <1>12, IdleType DEF ImportBegin, Jobs
  <2> QED
    BY <1>12, <2>1, RunningKept, SnapInvKept DEF ImportBegin
<1>13. CASE \E o \in OpIds : RecoverBegin(o)
  <2>1. job'.pc = "undoRoutes"
    BY <1>13, IdleType DEF RecoverBegin, Jobs
  <2> QED
    BY <1>13, <2>1, RunningKept, SnapInvKept DEF RecoverBegin
<1>14. CASE \E d \in Drainers : ApplyBegin(d)
  <2>1. job'.pc = "preview"
    BY <1>14, IdleType DEF ApplyBegin, Take, Jobs
  <2> QED
    BY <1>14, <2>1, RunningKept, SnapInvKept DEF ApplyBegin
<1>15. CASE \E d \in Drainers : RestartBegin(d)
  <2>1. job'.pc = "undoRoutes"
    BY <1>15, IdleType DEF RestartBegin, Take, Jobs
  <2> QED
    BY <1>15, <2>1, RunningKept, SnapInvKept DEF RestartBegin
<1>16. CASE \E d \in Drainers : RestartRefused(d)
  <2>1. PICK d \in Drainers : RestartRefused(d)
    BY <1>16
  <2>2. picked[d] \in OpIds
    BY <2>1, StoreAssumption DEF RestartRefused, TypeInv, TypeOK
  <2>3. Running' \subseteq Running
    BY <2>1, <2>2, RunningAfterStage, StatusNames DEF RestartRefused
  <2> QED
    BY <2>1, <2>3, SnapInvKept DEF RestartRefused
<1>17. CASE ImportWrite
  <2>1. job'.pc = "adopt" /\ job'.op = job.op
    BY <1>0, <1>17, GoToType, "adopt" \in Steps
       DEF ImportWrite, Steps, ApplySteps, RestoreSteps, CloseSteps, SecretSteps
  <2> QED
    BY <1>17, <2>1, RunningKept, SnapInvKept DEF ImportWrite
<1>18. CASE WriteRoutes
  <2>1. job'.pc = "override" /\ job'.op = job.op
    BY <1>0, <1>18, GoToType, "override" \in Steps
       DEF WriteRoutes, WriteFile, Steps, ApplySteps, RestoreSteps, CloseSteps, SecretSteps
  <2> QED
    BY <1>18, <2>1, RunningKept, SnapInvKept DEF WriteRoutes, WriteFile
<1>19. CASE WriteOverride
  <2>1. job'.pc = "roll1" /\ job'.op = job.op
    BY <1>0, <1>19, GoToType, "roll1" \in Steps
       DEF WriteOverride, WriteFile, Steps, ApplySteps, RestoreSteps, CloseSteps, SecretSteps
  <2> QED
    BY <1>19, <2>1, RunningKept, SnapInvKept DEF WriteOverride, WriteFile
<1>20. CASE ExportRegistry
  <2>1. job'.pc = "commit" /\ job'.op = job.op
    BY <1>0, <1>20, GoToType, "commit" \in Steps
       DEF ExportRegistry, WriteFile, Steps, ApplySteps, RestoreSteps, CloseSteps, SecretSteps
  <2> QED
    BY <1>20, <2>1, RunningKept, SnapInvKept DEF ExportRegistry, WriteFile
<1>21. CASE RegisterAgents
  <2>1. job'.pc = "export" /\ job'.op = job.op
    BY <1>0, <1>21, GoToType, "export" \in Steps
       DEF RegisterAgents, Steps, ApplySteps, RestoreSteps, CloseSteps, SecretSteps
  <2> QED
    BY <1>21, <2>1, RunningKept, SnapInvKept DEF RegisterAgents
<1>22. CASE CheckHost
  <2>1. job'.pc = "reroll1" /\ job'.op = job.op
    BY <1>0, <1>22, GoToType, "reroll1" \in Steps
       DEF CheckHost, Steps, ApplySteps, RestoreSteps, CloseSteps, SecretSteps
  <2> QED
    BY <1>22, <2>1, RunningKept, SnapInvKept DEF CheckHost
<1>23. CASE RecoverUnlock
  <2>1. job'.pc = "closeTarget" /\ job'.op = job.op
    BY <1>0, <1>23, GoToType, "closeTarget" \in Steps
       DEF RecoverUnlock, Steps, ApplySteps, RestoreSteps, CloseSteps, SecretSteps
  <2> QED
    BY <1>23, <2>1, RunningKept, SnapInvKept DEF RecoverUnlock
<1>24. CASE ImportAdopt
  BY <1>24, IdleType, RunningKept, SnapInvKept DEF ImportAdopt
<1>25. CASE FinishApply
  BY <1>25, IdleType, RunningKept, SnapInvKept DEF FinishApply
<1>26. CASE \E d \in Drainers : Crash(d)
  BY <1>26, IdleType, RunningKept, SnapInvKept DEF Crash
<1>27. CASE CheckPreview
  <2>1. job'.pc = "snapshot"
    BY <1>0, <1>27 DEF CheckPreview, Jobs
  <2> QED
    BY <1>27, <2>1, RunningKept, SnapInvKept DEF CheckPreview
<1>28. CASE RollInstance
  <2>1. job.pc \in {"roll1", "roll2", "reroll1", "reroll2"}
    BY <1>28 DEF RollInstance, NextRoll
  <2>2. NextRoll[job.pc] \in Steps
    BY <2>1 DEF NextRoll, Steps, ApplySteps, RestoreSteps, RebaseSteps
  <2>3. job'.pc = NextRoll[job.pc] /\ job'.op = job.op
    BY <1>0, <1>28, <2>2, GoToType DEF RollInstance
  <2>4. job'.pc \in Rolling => job.pc \in Rolling
    BY <2>1, <2>3 DEF NextRoll
  <2> QED
    BY <1>28, <2>3, <2>4, RunningKept, SnapInvKept DEF RollInstance
<1>29. CASE RestoreFile
  <2>1. job'.pc \in RestoreSteps
    BY <1>0, <1>29 DEF RestoreFile, WriteFile, GoTo, Jobs, RestoreSteps, RestoreFiles
  <2>2. job'.pc \notin Rolling
    BY <2>1 DEF RestoreSteps, RestoreFiles
  <2> QED
    BY <1>29, <2>2, RunningKept, SnapInvKept DEF RestoreFile, WriteFile
<1>30. CASE SnapshotOpen
  <2>1. CASE snap[job.op].state = "none" /\ GoTo("fill")
    <3>1. job'.pc = "fill" /\ job.op \in OpIds
      BY <1>0, <1>30, <2>1, GoToType, "fill" \in Steps
         DEF SnapshotOpen, Steps, ApplySteps, TypeInv, JobOK, Working
    <3>2. job.op \notin Running
      BY <2>1 DEF SnapInv, SnapshotCovers
    <3>3. \A o \in OpIds : o # job.op => snap'[o] = snap[o]
      BY <1>30, <2>1 DEF SnapshotOpen, TypeOK, TypeInv
    <3> QED
      BY <1>30, <3>1, <3>2, <3>3, RunningKept DEF SnapshotOpen, SnapInv, SnapshotCovers, Running
  <2>2. CASE snap[job.op].state = "complete" /\ UNCHANGED snap /\ GoTo("start")
    <3>1. job'.op = job.op
      BY <1>0, <2>2, GoToType, "start" \in Steps DEF Steps, ApplySteps
    <3> QED
      BY <1>30, <2>2, <3>1, RunningKept DEF SnapshotOpen, SnapInv, SnapshotCovers
  <2> QED
    BY <1>30, <2>1, <2>2 DEF SnapshotOpen
<1>31. CASE SnapshotFill
  <2>1. job'.op = job.op /\ job.op \in OpIds
    BY <1>0, <1>31, GoToType, "start" \in Steps
       DEF SnapshotFill, Steps, ApplySteps, TypeInv, JobOK, Working
  <2>2. /\ snap'[job.op].state = "complete"
        /\ \A o \in OpIds : o # job.op => snap'[o] = snap[o]
    BY <1>31, <2>1 DEF SnapshotFill, TypeOK, TypeInv
  <2> QED
    BY <1>31, <2>1, <2>2, RunningKept DEF SnapshotFill, SnapInv, SnapshotCovers, Running
<1>32. CASE StageRunning
  <2>1. job'.op = job.op /\ job.op \in OpIds
    BY <1>0, <1>32, GoToType, "routes" \in Steps
       DEF StageRunning, Steps, ApplySteps, TypeInv, JobOK, Working
  <2>2. \A o \in OpIds : o # job.op => ops'[o] = ops[o]
    BY <1>0, <1>32, <2>1, StageType, StatusNames DEF StageRunning
  <2>3. snap[job.op].state = "complete"
    BY <1>32 DEF StageRunning, SnapInv
  <2> QED
    BY <1>32, <2>1, <2>2, <2>3 DEF StageRunning, SnapInv, SnapshotCovers, Running
<1>33. CASE CommitApply
  <2>1. job.op \in OpIds /\ job'.pc = "refresh"
    BY <1>0, <1>33, GoToType, "refresh" \in Steps
       DEF CommitApply, Steps, ApplySteps, CloseSteps, TypeInv, JobOK, Working
  <2>2. Running' \subseteq Running
    BY <1>33, <2>1, RunningAfterStage, StatusNames DEF CommitApply
  <2> QED
    BY <1>33, <2>1, <2>2, SnapInvKept DEF CommitApply
<1>34. CASE RecoverCloseTarget
  <2>1. job.target \in OpIds /\ job'.pc = "closeSelf"
    BY <1>0, <1>34, GoToType, "closeSelf" \in Steps
       DEF RecoverCloseTarget, Steps, ApplySteps, CloseSteps, TypeInv, JobOK, Working
  <2>2. Running' \subseteq Running
    BY <1>34, <2>1, RunningAfterStage, StatusNames DEF RecoverCloseTarget
  <2> QED
    BY <1>34, <2>1, <2>2, SnapInvKept DEF RecoverCloseTarget
<1>35. CASE StageRestored
  <2>1. job.op \in OpIds
    BY <1>35 DEF StageRestored, TypeInv, JobOK, Working, CloseSteps, RebaseSteps
  <2>2. Running' \subseteq Running
    BY <1>35, <2>1, RunningAfterStage, StatusNames DEF StageRestored
  <2> QED
    BY <1>35, <2>2, IdleType, SnapInvKept DEF StageRestored, Leave
<1>36. CASE RestoreFails
  <2>1. job.op \in OpIds
    BY <1>36 DEF RestoreFails, TypeInv, JobOK, Working, CloseSteps, RebaseSteps
  <2>2. Running' \subseteq Running
    BY <1>36, <2>1, RunningAfterStage, StatusNames DEF RestoreFails
  <2> QED
    BY <1>36, <2>2, IdleType, SnapInvKept DEF RestoreFails, Leave
<1>37. CASE RecoverCloseSelf
  <2>1. job.op \in OpIds
    BY <1>37 DEF RecoverCloseSelf, TypeInv, JobOK, Working, CloseSteps, RebaseSteps
  <2>2. Running' \subseteq Running
    BY <1>37, <2>1, RunningAfterStage, StatusNames DEF RecoverCloseSelf
  <2> QED
    BY <1>37, <2>2, IdleType, SnapInvKept DEF RecoverCloseSelf, Leave
<1>38. CASE ApplyFails
  <2>1. job.op \in OpIds
    BY <1>38 DEF ApplyFails, TypeInv, JobOK, Working
  <2>2. Running' \subseteq Running
    BY <1>38, <2>1, RunningAfterStage, RunningKept, StatusNames DEF ApplyFails
  <2>3. job'.pc \in {"idle", "undoRoutes"}
    BY <1>0, <1>38, IdleType DEF ApplyFails, Leave, Jobs
  <2> QED
    BY <1>38, <2>2, <2>3, SnapInvKept DEF ApplyFails
<1>39. CASE Rebase
  <2>1. job.op \in OpIds
    BY <1>39 DEF Rebase, TypeInv, JobOK, Working, RebaseSteps
  <2>2. Running' \subseteq Running
    BY <1>39, <2>1, RunningAfterStage, RunningKept, StatusNames DEF Rebase
  <2>3. job'.pc \in {"idle", "fail", "unlock"}
    BY <1>0, <1>39, IdleType DEF Rebase, Leave, GoTo, Jobs
  <2> QED
    BY <1>39, <2>2, <2>3, SnapInvKept DEF Rebase
<1> QED
  BY <1>1, <1>2, <1>3, <1>4, <1>5, <1>6, <1>7, <1>8, <1>9, <1>10, <1>11, <1>12, <1>13, <1>14, <1>15, <1>16, <1>17, <1>18, <1>19, <1>20, <1>21, <1>22, <1>23, <1>24, <1>25, <1>26, <1>27, <1>28, <1>29, <1>30, <1>31, <1>32, <1>33, <1>34, <1>35, <1>36, <1>37, <1>38, <1>39
     DEF Next, JobStep, Forward, Backward, Begin

(* A rollout that may be interrupted can be undone: while an apply is running *)
(* its snapshot is complete, manifest and baseline included, for any number   *)
(* of drains and whatever crashes.                                            *)
THEOREM SnapshotsCover == Spec => []SnapshotCovers
<1>1. SnapInv => SnapshotCovers
  BY DEF SnapInv
<1> QED
  BY InitTypeInv, StepTypeInv, InitSnapInv, StepSnapInv, <1>1, PTL DEF Spec

-----------------------------------------------------------------------------
(* One drain: who may change the status of which operation. *)

ModeOfStep ==
    /\ job.pc \in ApplySteps => job.mode = "apply"
    /\ job.pc \in RestoreSteps \cup RebaseSteps => job.mode \in {"undo", "restart", "recover"}
    /\ job.pc = "fail" => job.mode = "undo"
    /\ job.pc \in CloseSteps => job.mode = "recover"
    /\ job.mode # "none" => job.who \in Drainers

(* Rows not yet inserted have no status. *)
FreshRows == \A o \in OpIds : o > lastOp => ops[o].status = "none"

(* The drain holds an apply that is still to be done, and nothing else while  *)
(* it is working on one.                                                      *)
PickIsOpen ==
    \A d \in Drainers : picked[d] # 0 =>
        /\ ops[picked[d]].kind = "apply" /\ Unresolved(picked[d])
        /\ job.mode \in {"none", "secret", "recover"}

(* The saga works on an open apply, undoes itself, and knows no other.  *)
SagaIsOpen ==
    job.pc \in Working /\ job.mode # "recover" =>
        ops[job.op].kind = "apply" /\ Unresolved(job.op)

PointerIsApply ==
    recoveryOp # 0 => /\ ops[recoveryOp].kind = "apply"
                      /\ ops[recoveryOp].status = "recovery-required"

(* A recovery works on the operation the pointer names until it is cleared,   *)
(* and closes that one before itself.                                         *)
RecoveryIsOpen ==
    job.pc \in Working /\ job.mode = "recover" =>
        /\ ops[job.op].kind = "recover" /\ ops[job.op].status # "none"
        /\ ops[job.target].kind = "apply" /\ ops[job.target].status # "none"
        /\ job.pc \notin {"closeTarget", "closeSelf"} => recoveryOp = job.target
        /\ job.pc \in {"closeTarget", "closeSelf"} => recoveryOp = 0
        /\ job.pc = "closeTarget" => ops[job.target].status = "recovery-required"

PointerInv == ModeOfStep /\ FreshRows /\ PickIsOpen /\ SagaIsOpen
                /\ PointerIsApply /\ RecoveryIsOpen

LEMMA InitPointerInv == Init => PointerInv
<1> USE StoreAssumption DEF Init, StoreInit, NoOp, Idle
<1>1. Init => ModeOfStep
  BY DEF ModeOfStep, ApplySteps, RestoreSteps, RestoreFiles, RebaseSteps, CloseSteps
<1>2a. Init => FreshRows
  BY DEF FreshRows
<1>2b. Init => PickIsOpen
  BY DEF PickIsOpen
<1>2c. Init => PointerIsApply
  BY DEF PointerIsApply
<1>3. Init => SagaIsOpen /\ RecoveryIsOpen
  BY StepsOutside DEF SagaIsOpen, RecoveryIsOpen
<1> QED
  BY <1>1, <1>2a, <1>2b, <1>2c, <1>3 DEF PointerInv

LEMMA PickedRows ==
  TypeInv => \A d \in Drainers : picked[d] # 0 => picked[d] \in OpIds
BY StoreAssumption DEF TypeInv, TypeOK

(* Steps that leave the tables alone. *)

LEMMA PointerSameJob ==
  ASSUME TypeInv, PointerInv, UNCHANGED <<ops, lastOp, recoveryOp, job>>,
         \A d \in Drainers : picked'[d] \in {0, picked[d]}
  PROVE  PointerInv'
BY DEF PointerInv, ModeOfStep, FreshRows, PickIsOpen, SagaIsOpen, PointerIsApply,
       RecoveryIsOpen, Unresolved

LEMMA PointerIdleJob ==
  ASSUME TypeInv, PointerInv, UNCHANGED <<ops, lastOp, recoveryOp>>, job' = Idle,
         \A d \in Drainers : picked'[d] \in {0, picked[d]}
  PROVE  PointerInv'
<1>1. ModeOfStep' /\ SagaIsOpen' /\ RecoveryIsOpen'
  BY IdleType, StepsOutside DEF ModeOfStep, SagaIsOpen, RecoveryIsOpen, Working
<1>2. FreshRows' /\ PickIsOpen' /\ PointerIsApply'
  BY IdleType DEF PointerInv, FreshRows, PickIsOpen, PointerIsApply, Unresolved
<1> QED
  BY <1>1, <1>2 DEF PointerInv

LEMMA PointerAdvances ==
  ASSUME TypeInv, PointerInv, UNCHANGED <<ops, lastOp, recoveryOp, picked>>,
         job'.mode = job.mode, job'.who = job.who,
         job'.op = job.op, job'.target = job.target,
         \/ job.pc \in ApplySteps /\ job'.pc \in ApplySteps
         \/ job.pc \in RestoreSteps /\ job'.pc \in RestoreSteps \cup {"rebase"}
  PROVE  PointerInv'
<1> USE DEF ApplySteps, RestoreSteps, RestoreFiles, RebaseSteps, CloseSteps
<1>1. ModeOfStep'
  BY DEF PointerInv, ModeOfStep
<1>2. job.pc \in Working /\ job'.pc \notin CloseSteps /\ job.pc \notin CloseSteps
  BY DEF Working
<1>3. SagaIsOpen' /\ RecoveryIsOpen'
  BY <1>2 DEF PointerInv, SagaIsOpen, RecoveryIsOpen, Unresolved
<1>4. FreshRows' /\ PickIsOpen' /\ PointerIsApply'
  BY DEF PointerInv, FreshRows, PickIsOpen, PointerIsApply, Unresolved
<1> QED
  BY <1>1, <1>3, <1>4 DEF PointerInv

(* Steps that end the job by writing a status. *)

LEMMA PointerStagesSaga ==
  ASSUME TypeInv, PointerInv, job.pc \in Working, job.mode # "recover",
         UNCHANGED <<lastOp, picked>>, job' = Idle,
         Stage(job.op, "failed") \/ Stage(job.op, "recovery-required")
  PROVE  PointerInv'
<1>1. job.op \in OpIds /\ StoreTypeOK /\ job.mode # "none"
  BY DEF TypeInv, JobOK, TypeOK, PointerInv, ModeOfStep, Working
<1>2. PICK status \in {"failed", "recovery-required"} : Stage(job.op, status)
  OBVIOUS
<1>3. /\ ops'[job.op].status = status /\ ops'[job.op].kind = ops[job.op].kind
      /\ \A p \in OpIds : p # job.op => ops'[p] = ops[p]
  BY <1>1, <1>2, StageType, StatusNames
<1>4. ops[job.op].kind = "apply" /\ Unresolved(job.op)
  BY DEF PointerInv, SagaIsOpen
<1>5. \A d \in Drainers : picked[d] = 0 \/ job.mode = "secret"
  BY <1>1 DEF PointerInv, PickIsOpen
<1>6. job.mode # "secret"
  BY DEF PointerInv, ModeOfStep, Working
<1>7. ModeOfStep' /\ SagaIsOpen' /\ RecoveryIsOpen' /\ PickIsOpen'
  BY <1>5, <1>6, IdleType, StepsOutside
     DEF ModeOfStep, SagaIsOpen, RecoveryIsOpen, PickIsOpen, Working
<1>8. FreshRows'
  BY <1>1, <1>3, <1>4 DEF PointerInv, FreshRows, Unresolved
<1>9. PointerIsApply'
  BY <1>1, <1>2, <1>3, <1>4, StoreAssumption
     DEF PointerInv, PointerIsApply, Stage, StoreTypeOK, Unresolved
<1> QED
  BY <1>7, <1>8, <1>9 DEF PointerInv

LEMMA PointerStagesRecovery ==
  ASSUME TypeInv, PointerInv, job.pc \in Working, job.mode = "recover",
         UNCHANGED <<lastOp, picked>>, job' = Idle,
         Stage(job.op, "failed") \/ Stage(job.op, "recovered")
  PROVE  PointerInv'
<1>1. job.op \in OpIds /\ StoreTypeOK
  BY DEF TypeInv, JobOK, TypeOK
<1>2. PICK status \in {"failed", "recovered"} : Stage(job.op, status)
  OBVIOUS
<1>3. /\ ops'[job.op].status = status /\ ops'[job.op].kind = ops[job.op].kind
      /\ \A p \in OpIds : p # job.op => ops'[p] = ops[p]
  BY <1>1, <1>2, StageType, StatusNames
<1>3a. recoveryOp' = recoveryOp
  BY <1>2 DEF Stage
<1>4. ops[job.op].kind = "recover" /\ ops[job.op].status # "none"
  BY DEF PointerInv, RecoveryIsOpen
<1>5. ModeOfStep' /\ SagaIsOpen' /\ RecoveryIsOpen'
  BY IdleType, StepsOutside DEF ModeOfStep, SagaIsOpen, RecoveryIsOpen, Working
<1>6. PickIsOpen'
  BY <1>3, <1>4, IdleType, PickedRows DEF PointerInv, PickIsOpen, Unresolved
<1>7. FreshRows'
  BY <1>1, <1>3, <1>4 DEF PointerInv, FreshRows
<1>8. PointerIsApply'
  BY <1>1, <1>3, <1>3a, <1>4, StoreAssumption DEF PointerInv, PointerIsApply, StoreTypeOK
<1> QED
  BY <1>5, <1>6, <1>7, <1>8 DEF PointerInv

LEMMA PointerEnqueue ==
  ASSUME TypeInv, PointerInv, NEW c \in Codes, NEW kind \in Kinds, Enqueue(c, kind),
         UNCHANGED <<job, picked>>
  PROVE  PointerInv'
<1>1. /\ StoreTypeOK /\ lastOp + 1 \in OpIds /\ lastOp \in Nat
      /\ lastOp' = lastOp + 1 /\ recoveryOp' = recoveryOp
      /\ \A p \in OpIds : p # lastOp + 1 => ops'[p] = ops[p]
  BY EnqueueType, StoreAssumption DEF TypeInv, TypeOK, StoreTypeOK, Enqueue
<1>2. \A p \in OpIds : ops[p].status # "none" => ops'[p] = ops[p]
  BY <1>1 DEF PointerInv, FreshRows
<1>3. ModeOfStep'
  BY DEF PointerInv, ModeOfStep
<1>4. FreshRows'
  BY <1>1 DEF PointerInv, FreshRows
<1>5. PickIsOpen'
  BY <1>2, PickedRows DEF PointerInv, PickIsOpen, Unresolved
<1>6. SagaIsOpen'
  BY <1>2 DEF PointerInv, SagaIsOpen, Unresolved, TypeInv, JobOK
<1>7. PointerIsApply'
  BY <1>1, <1>2 DEF PointerInv, PointerIsApply, StoreTypeOK
<1>8. RecoveryIsOpen'
  BY <1>1, <1>2 DEF PointerInv, RecoveryIsOpen, TypeInv, JobOK
<1> QED
  BY <1>3, <1>4, <1>5, <1>6, <1>7, <1>8 DEF PointerInv

LEMMA StepPointerInv ==
  ASSUME Drainers = {"serve"}
  PROVE  TypeInv /\ PointerInv /\ [Next]_vars => PointerInv'
<1> SUFFICES ASSUME TypeInv, PointerInv, [Next]_vars PROVE PointerInv'
  OBVIOUS
<1>0. /\ TypeOK /\ StoreTypeOK /\ job \in Jobs
      /\ ModeOfStep /\ FreshRows /\ PickIsOpen /\ SagaIsOpen /\ PointerIsApply /\ RecoveryIsOpen
  BY DEF TypeInv, TypeOK, PointerInv
<1>1. CASE \E c \in Codes : SaveDraft(c)
  BY <1>1, PointerSameJob DEF SaveDraft, Save, deployVars
<1>2. CASE Bootstrap
  BY <1>2, PointerSameJob DEF Bootstrap
<1>3. CASE Reconcile
  BY <1>3, PointerSameJob DEF Reconcile
<1>4. CASE OutsideEdit
  BY <1>4, PointerSameJob DEF OutsideEdit
<1>5. CASE OtherTakes
  BY <1>5, PointerSameJob DEF OtherTakes
<1>6. CASE OtherReleases
  BY <1>6, PointerSameJob DEF OtherReleases
<1>7. CASE UNCHANGED vars
  BY <1>7, PointerSameJob DEF vars
<1>8. CASE \E c \in Codes : RequestApply(c)
  <2>1. PICK c \in Codes : RequestApply(c)
    BY <1>8
  <2> QED
    BY <2>1, PointerEnqueue, "apply" \in Kinds DEF RequestApply, Kinds
<1>9. CASE \E c \in Codes : RequestRecover(c)
  <2>1. PICK c \in Codes : RequestRecover(c)
    BY <1>9
  <2> QED
    BY <2>1, PointerEnqueue, "recover" \in Kinds DEF RequestRecover, deployVars, Kinds
<1>10. CASE \E s \in Secrets : ImportBegin(s)
  <2>1. job'.pc = "write" /\ job'.mode = "secret" /\ job'.who = "serve"
    BY <1>10, IdleType DEF ImportBegin, Jobs
  <2>2. ModeOfStep'
    BY <2>1 DEF ModeOfStep, ApplySteps, RestoreSteps, RestoreFiles, RebaseSteps, CloseSteps
  <2>3. FreshRows' /\ PickIsOpen' /\ PointerIsApply'
    BY <1>0, <1>10, <2>1 DEF ImportBegin, FreshRows, PickIsOpen, PointerIsApply, Unresolved
  <2>4. SagaIsOpen' /\ RecoveryIsOpen'
    BY <2>1, StepsOutside DEF SagaIsOpen, RecoveryIsOpen
  <2> QED
    BY <2>2, <2>3, <2>4 DEF PointerInv
<1>11. CASE ImportWrite
  <2>1. job'.pc = "adopt" /\ job'.mode = job.mode /\ job'.who = job.who
    BY <1>0, <1>11, GoToType, "adopt" \in Steps DEF ImportWrite, Steps, SecretSteps
  <2>2. ModeOfStep'
    BY <1>0, <2>1 DEF ModeOfStep, ApplySteps, RestoreSteps, RestoreFiles, RebaseSteps, CloseSteps
  <2>3. FreshRows' /\ PickIsOpen' /\ PointerIsApply'
    BY <1>0, <1>11, <2>1 DEF ImportWrite, FreshRows, PickIsOpen, PointerIsApply, Unresolved
  <2>4. SagaIsOpen' /\ RecoveryIsOpen'
    BY <2>1, StepsOutside DEF SagaIsOpen, RecoveryIsOpen
  <2> QED
    BY <2>2, <2>3, <2>4 DEF PointerInv
<1>12. CASE ImportAdopt
  BY <1>12, PointerIdleJob DEF ImportAdopt
<1>13. CASE FinishApply
  BY <1>13, PointerIdleJob DEF FinishApply
<1>14. CASE \E d \in Drainers : DrainSelect(d)
  <2>1. PICK d \in Drainers : DrainSelect(d)
    BY <1>14
  <2>2. PICK o \in Drainable : picked' = [picked EXCEPT ![d] = o]
    BY <2>1 DEF DrainSelect
  <2>3. o \in OpIds /\ ops[o].kind = "apply" /\ Unresolved(o)
    BY <2>2 DEF Drainable
  <2>4. job.mode \in {"none", "secret", "recover"}
    BY <1>0, <2>1 DEF DrainSelect, ModeOfStep
  <2>5. PickIsOpen'
    BY <1>0, <2>1, <2>2, <2>3, <2>4 DEF DrainSelect, PickIsOpen, Unresolved, TypeOK
  <2>6. ModeOfStep' /\ FreshRows' /\ SagaIsOpen' /\ PointerIsApply' /\ RecoveryIsOpen'
    BY <1>0, <2>1 DEF DrainSelect, ModeOfStep, FreshRows, SagaIsOpen, PointerIsApply,
                      RecoveryIsOpen, Unresolved
  <2> QED
    BY <2>5, <2>6 DEF PointerInv
<1>15. CASE \E d \in Drainers : ApplyDeclined(d)
  <2>1. \A d \in Drainers : picked'[d] \in {0, picked[d]}
    BY <1>0, <1>15 DEF ApplyDeclined, TypeOK
  <2> QED
    BY <1>15, <2>1, PointerSameJob DEF ApplyDeclined
<1>16. CASE \E d \in Drainers : Crash(d)
  <2>1. \A d \in Drainers : picked'[d] \in {0, picked[d]}
    BY <1>0, <1>16 DEF Crash, TypeOK
  <2> QED
    BY <1>16, <2>1, PointerSameJob, PointerIdleJob DEF Crash
<1>17. CASE \E d \in Drainers : ApplyBegin(d)
  <2>1. PICK d \in Drainers : ApplyBegin(d)
    BY <1>17
  <2>2. picked[d] \in OpIds /\ ops[picked[d]].kind = "apply" /\ Unresolved(picked[d])
    BY <1>0, <2>1, PickedRows DEF ApplyBegin, PickIsOpen
  <2>3. /\ job'.op = picked[d] /\ job'.target = picked[d] /\ job'.who = d
        /\ job'.mode = "apply" /\ job'.pc = "preview"
    BY <2>1, IdleType DEF ApplyBegin, Take, Jobs
  <2>4. \A e \in Drainers : picked'[e] = 0
    BY <1>0, <2>1 DEF ApplyBegin, TypeOK
  <2>5. ModeOfStep'
    BY <2>3 DEF ModeOfStep, ApplySteps, RestoreSteps, RestoreFiles, RebaseSteps, CloseSteps
  <2>6. FreshRows' /\ PointerIsApply' /\ PickIsOpen'
    BY <1>0, <2>1, <2>4 DEF ApplyBegin, FreshRows, PointerIsApply, PickIsOpen
  <2>7. SagaIsOpen' /\ RecoveryIsOpen'
    BY <2>1, <2>2, <2>3 DEF ApplyBegin, SagaIsOpen, RecoveryIsOpen, Unresolved
  <2> QED
    BY <2>5, <2>6, <2>7 DEF PointerInv
<1>18. CASE \E d \in Drainers : RestartBegin(d)
  <2>1. PICK d \in Drainers : RestartBegin(d)
    BY <1>18
  <2>2. picked[d] \in OpIds /\ ops[picked[d]].kind = "apply" /\ Unresolved(picked[d])
    BY <1>0, <2>1, PickedRows DEF RestartBegin, PickIsOpen
  <2>3. /\ job'.op = picked[d] /\ job'.target = picked[d] /\ job'.who = d
        /\ job'.mode = "restart" /\ job'.pc = "undoRoutes"
    BY <2>1, IdleType DEF RestartBegin, Take, Jobs
  <2>4. \A e \in Drainers : picked'[e] = 0
    BY <1>0, <2>1 DEF RestartBegin, TypeOK
  <2>5. ModeOfStep'
    BY <2>3 DEF ModeOfStep, ApplySteps, RestoreSteps, RestoreFiles, RebaseSteps, CloseSteps
  <2>6. FreshRows' /\ PointerIsApply' /\ PickIsOpen'
    BY <1>0, <2>1, <2>4 DEF RestartBegin, FreshRows, PointerIsApply, PickIsOpen
  <2>7. SagaIsOpen' /\ RecoveryIsOpen'
    BY <2>1, <2>2, <2>3 DEF RestartBegin, SagaIsOpen, RecoveryIsOpen, Unresolved
  <2> QED
    BY <2>5, <2>6, <2>7 DEF PointerInv
<1>19. CASE \E d \in Drainers : RestartRefused(d)
  <2>1. PICK d \in Drainers : RestartRefused(d)
    BY <1>19
  <2>2. picked[d] \in OpIds /\ ops[picked[d]].kind = "apply" /\ Unresolved(picked[d])
    BY <1>0, <2>1, PickedRows DEF RestartRefused, PickIsOpen
  <2>3. /\ ops'[picked[d]].status = "recovery-required"
        /\ ops'[picked[d]].kind = "apply"
        /\ \A p \in OpIds : p # picked[d] => ops'[p] = ops[p]
    BY <1>0, <2>1, <2>2, StageType, StatusNames DEF RestartRefused
  <2>4. recoveryOp' = picked[d] /\ job' = Idle
    BY <2>1 DEF RestartRefused, Stage, Unlocked
  <2>5. \A e \in Drainers : picked'[e] = 0
    BY <1>0, <2>1 DEF RestartRefused, TypeOK
  <2>6. ModeOfStep' /\ SagaIsOpen' /\ RecoveryIsOpen' /\ PickIsOpen'
    BY <2>4, <2>5, IdleType, StepsOutside
       DEF ModeOfStep, SagaIsOpen, RecoveryIsOpen, PickIsOpen, Working
  <2>7. FreshRows' /\ PointerIsApply'
    BY <1>0, <2>1, <2>2, <2>3, <2>4
       DEF RestartRefused, FreshRows, PointerIsApply, Unresolved
  <2> QED
    BY <2>6, <2>7 DEF PointerInv
<1>20. CASE CheckPreview
  <2>1. /\ job'.pc = "snapshot" /\ job'.op = job.op /\ job'.target = job.target
        /\ job'.mode = job.mode /\ job'.who = job.who
    BY <1>0, <1>20 DEF CheckPreview, Jobs
  <2> QED
    BY <1>20, <2>1, PointerAdvances DEF CheckPreview, ApplySteps
<1>21. CASE WriteRoutes
  <2>1. /\ job'.pc = "override" /\ job'.op = job.op /\ job'.target = job.target
        /\ job'.mode = job.mode /\ job'.who = job.who
    BY <1>0, <1>21, GoToType, "override" \in Steps DEF WriteRoutes, WriteFile, Steps, ApplySteps
  <2> QED
    BY <1>21, <2>1, PointerAdvances DEF WriteRoutes, WriteFile, ApplySteps
<1>22. CASE WriteOverride
  <2>1. /\ job'.pc = "roll1" /\ job'.op = job.op /\ job'.target = job.target
        /\ job'.mode = job.mode /\ job'.who = job.who
    BY <1>0, <1>22, GoToType, "roll1" \in Steps DEF WriteOverride, WriteFile, Steps, ApplySteps
  <2> QED
    BY <1>22, <2>1, PointerAdvances DEF WriteOverride, WriteFile, ApplySteps
<1>23. CASE ExportRegistry
  <2>1. /\ job'.pc = "commit" /\ job'.op = job.op /\ job'.target = job.target
        /\ job'.mode = job.mode /\ job'.who = job.who
    BY <1>0, <1>23, GoToType, "commit" \in Steps DEF ExportRegistry, WriteFile, Steps, ApplySteps
  <2> QED
    BY <1>23, <2>1, PointerAdvances DEF ExportRegistry, WriteFile, ApplySteps
<1>24. CASE RegisterAgents
  <2>1. /\ job'.pc = "export" /\ job'.op = job.op /\ job'.target = job.target
        /\ job'.mode = job.mode /\ job'.who = job.who
    BY <1>0, <1>24, GoToType, "export" \in Steps DEF RegisterAgents, Steps, ApplySteps
  <2> QED
    BY <1>24, <2>1, PointerAdvances DEF RegisterAgents, ApplySteps
<1>25. CASE SnapshotFill
  <2>1. /\ job'.pc = "start" /\ job'.op = job.op /\ job'.target = job.target
        /\ job'.mode = job.mode /\ job'.who = job.who
    BY <1>0, <1>25, GoToType, "start" \in Steps DEF SnapshotFill, Steps, ApplySteps
  <2> QED
    BY <1>25, <2>1, PointerAdvances DEF SnapshotFill, ApplySteps
<1>26. CASE SnapshotOpen
  <2>1. PICK pc \in {"fill", "start"} : GoTo(pc)
    BY <1>26 DEF SnapshotOpen
  <2>2. /\ job'.pc = pc /\ job'.op = job.op /\ job'.target = job.target
        /\ job'.mode = job.mode /\ job'.who = job.who
    BY <1>0, <2>1, GoToType, "fill" \in Steps, "start" \in Steps DEF Steps, ApplySteps
  <2> QED
    BY <1>26, <2>2, PointerAdvances DEF SnapshotOpen, ApplySteps
<1>27. CASE CheckHost
  <2>1. /\ job'.pc = "reroll1" /\ job'.op = job.op /\ job'.target = job.target
        /\ job'.mode = job.mode /\ job'.who = job.who
    BY <1>0, <1>27, GoToType, "reroll1" \in Steps DEF CheckHost, Steps, RestoreSteps
  <2> QED
    BY <1>27, <2>1, PointerAdvances DEF CheckHost, RestoreSteps
<1>28. CASE RollInstance
  <2>1. job.pc \in {"roll1", "roll2", "reroll1", "reroll2"}
    BY <1>28 DEF RollInstance, NextRoll
  <2>2. NextRoll[job.pc] \in Steps
    BY <2>1 DEF NextRoll, Steps, ApplySteps, RestoreSteps, RebaseSteps
  <2>3. /\ job'.pc = NextRoll[job.pc] /\ job'.op = job.op /\ job'.target = job.target
        /\ job'.mode = job.mode /\ job'.who = job.who
    BY <1>0, <1>28, <2>2, GoToType DEF RollInstance
  <2>4. \/ job.pc \in ApplySteps /\ job'.pc \in ApplySteps
        \/ job.pc \in RestoreSteps /\ job'.pc \in RestoreSteps \cup {"rebase"}
    BY <2>1, <2>3 DEF NextRoll, ApplySteps, RestoreSteps
  <2> QED
    BY <1>28, <2>3, <2>4, PointerAdvances DEF RollInstance
<1>29. CASE RestoreFile
  <2>1. \E pc \in RestoreSteps : GoTo(pc)
    BY <1>29 DEF RestoreFile, WriteFile, RestoreSteps, RestoreFiles
  <2>2. /\ job'.pc \in RestoreSteps /\ job'.op = job.op /\ job'.target = job.target
        /\ job'.mode = job.mode /\ job'.who = job.who
    BY <1>0, <2>1, GoToType DEF Steps
  <2> QED
    BY <1>29, <2>2, PointerAdvances DEF RestoreFile, WriteFile, RestoreSteps
<1>30. CASE StageRunning
  <2>1. /\ job'.pc = "routes" /\ job'.op = job.op /\ job'.target = job.target
        /\ job'.mode = job.mode /\ job'.who = job.who
    BY <1>0, <1>30, GoToType, "routes" \in Steps DEF StageRunning, Steps, ApplySteps
  <2>2. job.op \in OpIds /\ job.mode = "apply" /\ job.pc \in Working
    BY <1>0, <1>30 DEF StageRunning, TypeInv, JobOK, Working, ApplySteps, ModeOfStep
  <2>3. /\ ops'[job.op].status = "running" /\ ops'[job.op].kind = ops[job.op].kind
        /\ \A p \in OpIds : p # job.op => ops'[p] = ops[p]
    BY <1>0, <1>30, <2>2, StageType, StatusNames DEF StageRunning
  <2>4. recoveryOp' = recoveryOp /\ lastOp' = lastOp /\ picked' = picked
    BY <1>30 DEF StageRunning, Stage
  <2>5. ops[job.op].kind = "apply" /\ Unresolved(job.op)
    BY <1>0, <2>2 DEF SagaIsOpen
  <2>6. ModeOfStep'
    BY <1>0, <2>1, <2>2 DEF ModeOfStep, RestoreSteps, RestoreFiles, RebaseSteps, CloseSteps
  <2>7. FreshRows' /\ PickIsOpen'
    BY <1>0, <2>2, <2>3, <2>4, <2>5 DEF FreshRows, PickIsOpen, Unresolved
  <2>8. SagaIsOpen' /\ RecoveryIsOpen'
    BY <2>1, <2>2, <2>3, <2>5 DEF SagaIsOpen, RecoveryIsOpen, Unresolved
  <2>9. PointerIsApply'
    BY <1>0, <2>2, <2>3, <2>4, <2>5, StoreAssumption DEF PointerIsApply, Unresolved, StoreTypeOK
  <2> QED
    BY <2>6, <2>7, <2>8, <2>9 DEF PointerInv
<1>31. CASE CommitApply
  <2>1. job'.pc = "refresh" /\ job'.mode = job.mode /\ job'.who = job.who
    BY <1>0, <1>31, GoToType, "refresh" \in Steps DEF CommitApply, Steps
  <2>2. job.op \in OpIds /\ job.mode = "apply" /\ job.pc \in Working
    BY <1>0, <1>31 DEF CommitApply, TypeInv, JobOK, Working, ApplySteps, ModeOfStep
  <2>3. /\ ops'[job.op].status = "applied" /\ ops'[job.op].kind = ops[job.op].kind
        /\ \A p \in OpIds : p # job.op => ops'[p] = ops[p]
    BY <1>0, <1>31, <2>2, StageType, StatusNames DEF CommitApply
  <2>4. recoveryOp' = recoveryOp /\ lastOp' = lastOp /\ picked' = picked
    BY <1>31 DEF CommitApply, Stage
  <2>5. ops[job.op].kind = "apply" /\ Unresolved(job.op)
    BY <1>0, <2>2 DEF SagaIsOpen
  <2>6. ModeOfStep'
    BY <1>0, <2>1, <2>2
       DEF ModeOfStep, ApplySteps, RestoreSteps, RestoreFiles, RebaseSteps, CloseSteps
  <2>7. FreshRows' /\ PickIsOpen'
    BY <1>0, <2>2, <2>3, <2>4, <2>5 DEF FreshRows, PickIsOpen, Unresolved
  <2>8. SagaIsOpen' /\ RecoveryIsOpen'
    BY <2>1, StepsOutside DEF SagaIsOpen, RecoveryIsOpen
  <2>9. PointerIsApply'
    BY <1>0, <2>2, <2>3, <2>4, <2>5, StoreAssumption DEF PointerIsApply, Unresolved, StoreTypeOK
  <2> QED
    BY <2>6, <2>7, <2>8, <2>9 DEF PointerInv
<1>32. CASE ApplyFails
  <2>1. job.op \in OpIds /\ job.mode = "apply" /\ job.pc \in Working
    BY <1>0, <1>32 DEF ApplyFails, TypeInv, JobOK, Working, ModeOfStep
  <2>2. CASE Stage(job.op, "failed") /\ Leave
    BY <1>32, <2>1, <2>2, PointerStagesSaga DEF ApplyFails, Leave
  <2>3. CASE /\ job' = [job EXCEPT !.mode = "undo", !.pc = "undoRoutes"]
             /\ UNCHANGED <<ops, recoveryOp, regLock>>
    <3>1. /\ job'.pc = "undoRoutes" /\ job'.op = job.op /\ job'.mode = "undo"
          /\ job'.who = job.who
      BY <1>0, <2>3 DEF Jobs
    <3>2. \A d \in Drainers : picked[d] = 0
      BY <1>0, <2>1 DEF PickIsOpen
    <3>3. ModeOfStep' /\ PickIsOpen'
      BY <1>0, <1>32, <2>1, <3>1, <3>2
         DEF ApplyFails, ModeOfStep, PickIsOpen, ApplySteps, CloseSteps
    <3>4. FreshRows' /\ PointerIsApply'
      BY <1>0, <1>32, <2>3 DEF ApplyFails, FreshRows, PointerIsApply
    <3>5. SagaIsOpen' /\ RecoveryIsOpen'
      BY <1>0, <2>1, <2>3, <3>1 DEF SagaIsOpen, RecoveryIsOpen, Unresolved
    <3> QED
      BY <3>3, <3>4, <3>5 DEF PointerInv
  <2> QED
    BY <1>32, <2>2, <2>3 DEF ApplyFails
<1>33. CASE Rebase
  <2>1. job.op \in OpIds /\ job.pc \in Working /\ job.pc = "rebase"
    BY <1>0, <1>33 DEF Rebase, TypeInv, JobOK, Working, RebaseSteps
  <2>2. CASE job.mode = "restart" /\ Stage(job.op, "failed") /\ Leave
    BY <1>33, <2>1, <2>2, PointerStagesSaga DEF Rebase, Leave
  <2>3. CASE /\ \/ job.mode = "undo" /\ GoTo("fail")
                \/ job.mode = "recover" /\ GoTo("unlock")
             /\ UNCHANGED <<ops, recoveryOp, regLock>>
    <3>1. /\ job'.pc = IF job.mode = "undo" THEN "fail" ELSE "unlock"
          /\ job'.op = job.op /\ job'.target = job.target
          /\ job'.mode = job.mode /\ job'.who = job.who
      BY <1>0, <2>3, GoToType, "fail" \in Steps, "unlock" \in Steps
         DEF Steps, RebaseSteps, CloseSteps
    <3>2. ModeOfStep'
      BY <1>0, <2>3, <3>1
         DEF ModeOfStep, ApplySteps, RestoreSteps, RestoreFiles, RebaseSteps, CloseSteps
    <3>3. FreshRows' /\ PointerIsApply' /\ PickIsOpen'
      BY <1>0, <1>33, <2>3, <3>1 DEF Rebase, FreshRows, PointerIsApply, PickIsOpen, Unresolved
    <3>4. SagaIsOpen' /\ RecoveryIsOpen'
      BY <1>0, <2>1, <2>3, <3>1 DEF SagaIsOpen, RecoveryIsOpen, Unresolved
    <3> QED
      BY <3>2, <3>3, <3>4 DEF PointerInv
  <2> QED
    BY <1>33, <2>2, <2>3 DEF Rebase
<1>34. CASE StageRestored
  <2>1. job.pc \in Working /\ job.mode = "undo"
    BY <1>0, <1>34 DEF StageRestored, Working, RebaseSteps, ModeOfStep
  <2> QED
    BY <1>34, <2>1, PointerStagesSaga DEF StageRestored, Leave
<1>35. CASE RestoreFails
  <2>1. job.pc \in Working
    BY <1>35 DEF RestoreFails, Working
  <2>2. CASE job.mode = "recover"
    BY <1>35, <2>1, <2>2, PointerStagesRecovery DEF RestoreFails, Leave
  <2>3. CASE job.mode # "recover"
    BY <1>35, <2>1, <2>3, PointerStagesSaga DEF RestoreFails, Leave
  <2> QED
    BY <2>2, <2>3
<1>36. CASE RecoverUnlock
  <2>1. /\ job'.pc = "closeTarget" /\ job'.op = job.op /\ job'.target = job.target
        /\ job'.mode = job.mode /\ job'.who = job.who
    BY <1>0, <1>36, GoToType, "closeTarget" \in Steps DEF RecoverUnlock, Steps, CloseSteps
  <2>2. /\ job.pc \in Working /\ job.mode = "recover"
        /\ job.op \in OpIds /\ job.target \in OpIds
    BY <1>0, <1>36 DEF RecoverUnlock, Working, CloseSteps, ModeOfStep, TypeInv, JobOK
  <2>3. recoveryOp = job.target /\ ops[job.target].status = "recovery-required"
    BY <1>0, <1>36, <2>2 DEF RecoverUnlock, RecoveryIsOpen, PointerIsApply
  <2>4. ModeOfStep'
    BY <1>0, <2>1, <2>2
       DEF ModeOfStep, ApplySteps, RestoreSteps, RestoreFiles, RebaseSteps, CloseSteps
  <2>5. FreshRows' /\ PickIsOpen' /\ PointerIsApply'
    BY <1>0, <1>36, <2>1 DEF RecoverUnlock, FreshRows, PickIsOpen, PointerIsApply, Unresolved
  <2>6. SagaIsOpen' /\ RecoveryIsOpen'
    BY <1>0, <1>36, <2>1, <2>2, <2>3 DEF RecoverUnlock, SagaIsOpen, RecoveryIsOpen
  <2> QED
    BY <2>4, <2>5, <2>6 DEF PointerInv
<1>37. CASE RecoverCloseTarget
  <2>1. /\ job'.pc = "closeSelf" /\ job'.op = job.op /\ job'.target = job.target
        /\ job'.mode = job.mode /\ job'.who = job.who
    BY <1>0, <1>37, GoToType, "closeSelf" \in Steps DEF RecoverCloseTarget, Steps, CloseSteps
  <2>2. /\ job.pc \in Working /\ job.mode = "recover"
        /\ job.op \in OpIds /\ job.target \in OpIds
    BY <1>0, <1>37 DEF RecoverCloseTarget, Working, CloseSteps, ModeOfStep, TypeInv, JobOK
  <2>3. /\ ops'[job.target].status = "failed" /\ ops'[job.target].kind = ops[job.target].kind
        /\ \A p \in OpIds : p # job.target => ops'[p] = ops[p]
    BY <1>0, <1>37, <2>2, StageType, StatusNames DEF RecoverCloseTarget
  <2>4. recoveryOp' = recoveryOp /\ lastOp' = lastOp /\ picked' = picked
    BY <1>37 DEF RecoverCloseTarget, Stage
  <2>5. /\ recoveryOp = 0 /\ ops[job.target].status = "recovery-required"
        /\ ops[job.target].kind = "apply" /\ ops[job.op].kind = "recover"
        /\ ops[job.op].status # "none"
    BY <1>0, <1>37, <2>2 DEF RecoverCloseTarget, RecoveryIsOpen
  <2>6. ModeOfStep'
    BY <1>0, <2>1, <2>2
       DEF ModeOfStep, ApplySteps, RestoreSteps, RestoreFiles, RebaseSteps, CloseSteps
  <2>7. FreshRows' /\ PointerIsApply'
    BY <1>0, <2>3, <2>4, <2>5 DEF FreshRows, PointerIsApply
  <2>8. PickIsOpen'
    BY <1>0, <2>1, <2>3, <2>4, <2>5, PickedRows DEF PickIsOpen, Unresolved
  <2>9. SagaIsOpen' /\ RecoveryIsOpen'
    BY <2>1, <2>2, <2>3, <2>4, <2>5 DEF SagaIsOpen, RecoveryIsOpen
  <2> QED
    BY <2>6, <2>7, <2>8, <2>9 DEF PointerInv
<1>38. CASE RecoverCloseSelf
  <2>1. job.pc \in Working /\ job.mode = "recover"
    BY <1>0, <1>38 DEF RecoverCloseSelf, Working, CloseSteps, ModeOfStep
  <2> QED
    BY <1>38, <2>1, PointerStagesRecovery DEF RecoverCloseSelf, Leave
<1>39. CASE \E o \in OpIds : RecoverBegin(o)
  <2>1. PICK o \in OpIds : RecoverBegin(o)
    BY <1>39
  <2>2. /\ job'.pc = "undoRoutes" /\ job'.op = o /\ job'.target = recoveryOp
        /\ job'.mode = "recover" /\ job'.who = "serve"
    BY <2>1, IdleType DEF RecoverBegin, Jobs
  <2>3. ModeOfStep'
    BY <2>2 DEF ModeOfStep, ApplySteps, RestoreSteps, RestoreFiles, RebaseSteps, CloseSteps
  <2>4. FreshRows' /\ PickIsOpen' /\ PointerIsApply'
    BY <1>0, <2>1, <2>2 DEF RecoverBegin, FreshRows, PickIsOpen, PointerIsApply, Unresolved
  <2>5. SagaIsOpen' /\ RecoveryIsOpen'
    BY <1>0, <2>1, <2>2 DEF RecoverBegin, SagaIsOpen, RecoveryIsOpen, PointerIsApply
  <2> QED
    BY <2>3, <2>4, <2>5 DEF PointerInv
<1> QED
  BY <1>1, <1>2, <1>3, <1>4, <1>5, <1>6, <1>7, <1>8, <1>9, <1>10, <1>11, <1>12, <1>13, <1>14, <1>15, <1>16, <1>17, <1>18, <1>19, <1>20, <1>21, <1>22, <1>23, <1>24, <1>25, <1>26, <1>27, <1>28, <1>29, <1>30, <1>31, <1>32, <1>33, <1>34, <1>35, <1>36, <1>37, <1>38, <1>39
     DEF Next, JobStep, Forward, Backward, Begin

(* With one worker draining, the deployment row points at an operation only   *)
(* while that operation waits for recovery: no crash between the transactions *)
(* of recover() and no replayed drain leaves it on one that ended.            *)
THEOREM PointerIsTrue ==
  ASSUME Drainers = {"serve"}
  PROVE  Spec => []RecoveryNamesUnresolved
<1>1. PointerInv => RecoveryNamesUnresolved
  BY DEF PointerInv, PointerIsApply, RecoveryNamesUnresolved
<1>2. TypeInv /\ PointerInv /\ [Next]_vars => PointerInv'
  BY StepPointerInv
<1> QED
  BY InitTypeInv, StepTypeInv, InitPointerInv, <1>1, <1>2, PTL DEF Spec

LEMMA EndedKept ==
  ASSUME Drainers = {"serve"}, TypeInv, PointerInv, [Next]_vars, NEW o \in OpIds,
         ops[o].kind = "apply", ops[o].status \in {"applied", "failed"}
  PROVE  ops'[o].status = ops[o].status
<1>0. /\ TypeOK /\ StoreTypeOK /\ job \in Jobs
      /\ ModeOfStep /\ FreshRows /\ PickIsOpen /\ SagaIsOpen /\ RecoveryIsOpen
  BY DEF TypeInv, TypeOK, PointerInv
<1>1. ASSUME NEW p \in OpIds, NEW status \in Statuses, Stage(p, status), p # o
      PROVE  ops'[o].status = ops[o].status
  BY <1>0, <1>1, StageType
<1>2. CASE UNCHANGED ops
  BY <1>2
<1>3. CASE \E c \in Codes : RequestApply(c) \/ RequestRecover(c)
  <2>1. PICK c \in Codes, kind \in Kinds : Enqueue(c, kind)
    BY <1>3, "apply" \in Kinds, "recover" \in Kinds DEF RequestApply, RequestRecover, Kinds
  <2>2. o # lastOp + 1
    BY <1>0, <2>1, StoreAssumption DEF FreshRows, StoreTypeOK
  <2> QED
    BY <1>0, <2>1, <2>2, EnqueueType
<1>4. CASE \E d \in Drainers : RestartRefused(d)
  <2>1. PICK d \in Drainers : RestartRefused(d)
    BY <1>4
  <2>2. picked[d] \in OpIds /\ Unresolved(picked[d])
    BY <1>0, <2>1, PickedRows DEF RestartRefused, PickIsOpen
  <2> QED
    BY <1>1, <2>1, <2>2, StatusNames DEF RestartRefused, Unresolved
<1>5. CASE job.pc \in Working /\ job.mode # "recover" /\
           \E status \in Statuses : Stage(job.op, status)
  BY <1>0, <1>1, <1>5 DEF SagaIsOpen, Unresolved, TypeInv, JobOK
<1>6. CASE job.pc \in Working /\ job.mode = "recover" /\
           \E status \in Statuses : Stage(job.op, status)
  BY <1>0, <1>1, <1>6 DEF RecoveryIsOpen, TypeInv, JobOK
<1>7. CASE RecoverCloseTarget
  <2>1. job.pc \in Working /\ job.mode = "recover" /\ job.target \in OpIds
    BY <1>0, <1>7 DEF RecoverCloseTarget, Working, CloseSteps, ModeOfStep, TypeInv, JobOK
  <2>2. ops[job.target].status = "recovery-required"
    BY <1>0, <1>7, <2>1 DEF RecoverCloseTarget, RecoveryIsOpen
  <2> QED
    BY <1>1, <1>7, <2>1, <2>2, StatusNames DEF RecoverCloseTarget
<1>8. CASE StageRunning \/ CommitApply \/ ApplyFails \/ Rebase \/ StageRestored
           \/ RestoreFails \/ RecoverCloseSelf
  <2>1. job.pc \in Working
    BY <1>8 DEF StageRunning, CommitApply, ApplyFails, Rebase, StageRestored, RestoreFails,
                RecoverCloseSelf, Working, ApplySteps, RebaseSteps, CloseSteps
  <2>2. UNCHANGED ops \/ \E status \in Statuses : Stage(job.op, status)
    BY <1>8, StatusNames DEF StageRunning, CommitApply, ApplyFails, Rebase, StageRestored,
                             RestoreFails, RecoverCloseSelf
  <2> QED
    BY <1>2, <1>5, <1>6, <2>1, <2>2
<1>9. CASE JobStep
  BY <1>2, <1>7, <1>8, <1>9
     DEF JobStep, Forward, Backward, ImportWrite, ImportAdopt, CheckPreview, SnapshotOpen,
         SnapshotFill, WriteRoutes, WriteOverride, ExportRegistry, WriteFile, RollInstance,
         RegisterAgents, FinishApply, RestoreFile, CheckHost, RecoverUnlock
<1>10. CASE \E c \in Codes : SaveDraft(c)
  BY <1>2, <1>10 DEF SaveDraft, Save
<1>11. CASE \E d \in Drainers : DrainSelect(d) \/ ApplyDeclined(d) \/ Crash(d)
                                \/ ApplyBegin(d) \/ RestartBegin(d)
  BY <1>2, <1>11 DEF DrainSelect, ApplyDeclined, Crash, ApplyBegin, RestartBegin
<1>12. CASE \/ Bootstrap \/ Reconcile \/ OutsideEdit \/ OtherTakes \/ OtherReleases
            \/ \E s \in Secrets : ImportBegin(s)
            \/ \E r \in OpIds : RecoverBegin(r)
            \/ UNCHANGED vars
  BY <1>2, <1>12 DEF Bootstrap, Reconcile, OutsideEdit, OtherTakes, OtherReleases,
                     ImportBegin, RecoverBegin, vars
<1> QED
  BY <1>3, <1>4, <1>9, <1>10, <1>11, <1>12 DEF Next, Begin

(* With one worker draining, an apply that was reported as applied or failed  *)
(* keeps that status for ever: it is neither replayed nor overwritten.        *)
THEOREM EndedStaysEnded ==
  ASSUME Drainers = {"serve"}
  PROVE  Spec => TerminalIsFinal
<1>1. TypeInv /\ PointerInv /\ [Next]_vars => PointerInv'
  BY StepPointerInv
<1>2. TypeInv /\ PointerInv /\ [Next]_vars =>
        [\A o \in OpIds : ops[o].kind = "apply" /\ ops[o].status \in {"applied", "failed"}
           => ops'[o].status = ops[o].status]_vars
  BY EndedKept
<1> QED
  BY InitTypeInv, StepTypeInv, InitPointerInv, <1>1, <1>2, PTL DEF Spec, TerminalIsFinal

-----------------------------------------------------------------------------
(* The registry under the worker's lock. *)

ReviewedSteps == {"snapshot", "fill", "start", "routes", "override", "roll1", "roll2",
                  "register"}

(* From the check of the preview to the registration the worker holds the     *)
(* registry lock, and nobody else writes the registry without it.             *)
ReviewInv ==
    /\ job.pc \in ApplySteps => regLock = "worker"
    /\ job.pc \in ReviewedSteps => registryDb = reviewed[job.op].registry

LEMMA ReviewKept ==
  ASSUME ReviewInv, UNCHANGED <<registryDb, reviewed>>,
         \/ job'.pc \notin ApplySteps
         \/ /\ job.pc \in ApplySteps /\ regLock' = regLock
            /\ job'.op = job.op
            /\ job'.pc \in ReviewedSteps => job.pc \in ReviewedSteps
  PROVE  ReviewInv'
BY DEF ReviewInv, ReviewedSteps, ApplySteps

LEMMA StepReviewInv ==
  ASSUME Drainers = {"serve"}
  PROVE  TypeInv /\ PointerInv /\ ReviewInv /\ [Next]_vars => ReviewInv'
<1> SUFFICES ASSUME TypeInv, PointerInv, ReviewInv, [Next]_vars PROVE ReviewInv'
  OBVIOUS
<1>0. /\ job \in Jobs /\ StoreTypeOK /\ reviewed \in [OpIds -> Reviews]
      /\ ModeOfStep /\ SagaIsOpen /\ FreshRows
  BY DEF TypeInv, TypeOK, PointerInv
<1>1. CASE UNCHANGED <<registryDb, reviewed, job, regLock>>
  BY <1>1 DEF ReviewInv
<1>2. CASE job' = Idle /\ UNCHANGED <<registryDb, reviewed>>
  BY <1>2, IdleType, ReviewKept DEF ApplySteps
<1>3. CASE \/ \E c \in Codes : SaveDraft(c) \/ RequestRecover(c)
           \/ Bootstrap \/ Reconcile \/ OutsideEdit \/ UNCHANGED vars
           \/ \E d \in Drainers : DrainSelect(d) \/ ApplyDeclined(d) \/ RestartRefused(d)
  BY <1>1, <1>3 DEF SaveDraft, RequestRecover, Bootstrap, Reconcile, OutsideEdit, DrainSelect,
                    ApplyDeclined, RestartRefused, deployVars, vars
<1>4. CASE \E c \in Codes : RequestApply(c)
  <2>1. PICK c \in Codes : RequestApply(c)
    BY <1>4
  <2>2. UNCHANGED <<registryDb, job, regLock>>
    BY <2>1 DEF RequestApply
  <2>3. ASSUME job.pc \in ReviewedSteps
        PROVE  reviewed'[job.op] = reviewed[job.op]
    <3>1. job.pc \in ApplySteps /\ job.pc \in Working
      BY <2>3 DEF ReviewedSteps, ApplySteps, Working
    <3>2. job.op \in OpIds /\ ops[job.op].status # "none"
      BY <1>0, <3>1 DEF ModeOfStep, SagaIsOpen, Unresolved, TypeInv, JobOK
    <3>3. job.op # lastOp + 1
      BY <1>0, <3>2, StoreAssumption DEF FreshRows, StoreTypeOK
    <3> QED
      BY <1>0, <2>1, <3>2, <3>3 DEF RequestApply
  <2> QED
    BY <2>2, <2>3 DEF ReviewInv
<1>5. CASE OtherTakes \/ OtherReleases
  <2>1. regLock # "worker" /\ job' = job
    BY <1>5 DEF OtherTakes, OtherReleases
  <2>2. job.pc \notin ApplySteps /\ job.pc \notin ReviewedSteps
    BY <2>1 DEF ReviewInv, ReviewedSteps, ApplySteps
  <2> QED
    BY <2>1, <2>2 DEF ReviewInv
<1>6. CASE \/ ImportWrite \/ \E s \in Secrets : ImportBegin(s)
           \/ \E o \in OpIds : RecoverBegin(o)
           \/ \E d \in Drainers : RestartBegin(d)
  <2>1. job'.pc \in {"adopt", "write", "undoRoutes"} /\ UNCHANGED <<registryDb, reviewed>>
    BY <1>0, <1>6 DEF ImportWrite, ImportBegin, RecoverBegin, RestartBegin, Take, Idle, GoTo, Jobs
  <2> QED
    BY <2>1, ReviewKept DEF ApplySteps
<1>7. CASE ImportAdopt \/ FinishApply \/ StageRestored \/ RestoreFails \/ RecoverCloseSelf
  BY <1>2, <1>7 DEF ImportAdopt, FinishApply, StageRestored, RestoreFails, RecoverCloseSelf, Leave
<1>8. CASE \E d \in Drainers : Crash(d)
  BY <1>1, <1>2, <1>8 DEF Crash
<1>9. CASE \E d \in Drainers : ApplyBegin(d)
  <2>1. job'.pc = "preview" /\ regLock' = "worker"
    BY <1>9 DEF ApplyBegin, Take, Idle
  <2> QED
    BY <2>1 DEF ReviewInv, ReviewedSteps
<1>10. CASE CheckPreview
  <2>1. registryDb = reviewed[job.op].registry
    BY <1>10 DEF CheckPreview, PreviewOK, PreviewHash
  <2>2. /\ job.pc = "preview" /\ job'.op = job.op /\ job'.pc = "snapshot"
        /\ UNCHANGED <<registryDb, reviewed, regLock>>
    BY <1>0, <1>10 DEF CheckPreview, Jobs
  <2> QED
    BY <2>1, <2>2 DEF ReviewInv, ApplySteps
<1>11. CASE RegisterAgents
  <2>1. /\ job.pc = "register" /\ job'.pc = "export" /\ UNCHANGED regLock
    BY <1>0, <1>11 DEF RegisterAgents, GoTo, Jobs
  <2> QED
    BY <2>1 DEF ReviewInv, ReviewedSteps, ApplySteps
<1>12. CASE CommitApply
  <2>1. job'.pc = "refresh" /\ UNCHANGED <<registryDb, reviewed>>
    BY <1>0, <1>12 DEF CommitApply, GoTo, Jobs
  <2> QED
    BY <2>1, ReviewKept DEF ApplySteps
<1>13. CASE \/ SnapshotOpen \/ SnapshotFill \/ StageRunning \/ WriteRoutes \/ WriteOverride
            \/ ExportRegistry
            \/ (RollInstance /\ job.pc \in {"roll1", "roll2"})
  <2>1. /\ job.pc \in ApplySteps /\ UNCHANGED <<registryDb, reviewed, regLock>>
        /\ job'.op = job.op
    BY <1>0, <1>13 DEF SnapshotOpen, SnapshotFill, StageRunning, WriteRoutes, WriteOverride,
         ExportRegistry, WriteFile, RollInstance, GoTo, Jobs, ApplySteps
  <2>2. job.pc \in ReviewedSteps \/ job'.pc = "commit"
    BY <1>0, <1>13 DEF SnapshotOpen, SnapshotFill, StageRunning, WriteRoutes, WriteOverride,
         ExportRegistry, WriteFile, RollInstance, GoTo, Jobs, ReviewedSteps
  <2> QED
    BY <2>1, <2>2, ReviewKept DEF ReviewedSteps
<1>14. CASE RollInstance /\ job.pc \notin {"roll1", "roll2"}
  <2>1. job.pc \in {"reroll1", "reroll2"} /\ UNCHANGED <<registryDb, reviewed>>
    BY <1>14 DEF RollInstance, NextRoll
  <2>2. NextRoll[job.pc] \in {"reroll2", "rebase"}
    BY <2>1 DEF NextRoll
  <2>3. job'.pc \in {"reroll2", "rebase"}
    BY <1>0, <1>14, <2>2 DEF RollInstance, GoTo, Jobs
  <2> QED
    BY <2>1, <2>3, ReviewKept DEF ApplySteps
<1>17. CASE RestoreFile \/ CheckHost \/ RecoverUnlock \/ RecoverCloseTarget
  <2>1. job'.pc \notin ApplySteps /\ UNCHANGED <<registryDb, reviewed>>
    BY <1>0, <1>17 DEF RestoreFile, WriteFile, CheckHost, RecoverUnlock,
         RecoverCloseTarget, GoTo, Jobs, ApplySteps
  <2> QED
    BY <2>1, ReviewKept
<1>15. CASE ApplyFails
  <2>1. job'.pc \in {"idle", "undoRoutes"} /\ UNCHANGED <<registryDb, reviewed>>
    BY <1>0, <1>15, IdleType DEF ApplyFails, Leave, Jobs
  <2> QED
    BY <2>1, ReviewKept DEF ApplySteps
<1>16. CASE Rebase
  <2>1. job'.pc \in {"idle", "fail", "unlock"} /\ UNCHANGED <<registryDb, reviewed>>
    BY <1>0, <1>16, IdleType DEF Rebase, Leave, GoTo, Jobs
  <2> QED
    BY <2>1, ReviewKept DEF ApplySteps
<1>18. CASE JobStep
  BY <1>6, <1>7, <1>10, <1>11, <1>12, <1>13, <1>14, <1>15, <1>16, <1>17, <1>18
     DEF JobStep, Forward, Backward
<1>19. CASE \E d \in Drainers : Begin(d)
  BY <1>3, <1>6, <1>9, <1>19 DEF Begin
<1> QED
  BY <1>3, <1>4, <1>5, <1>6, <1>8, <1>18, <1>19 DEF Next

(* With one worker draining, an apply writes the registry tables only while   *)
(* they are what the administrator reviewed, whatever the CLI did between the *)
(* preview and the apply.                                                     *)
THEOREM RegistryIsAsReviewed ==
  ASSUME Drainers = {"serve"}
  PROVE  Spec => RegistryAsReviewed
<1>1. Init => ReviewInv
  BY DEF Init, ReviewInv, ReviewedSteps, ApplySteps, Idle
<1>2. TypeInv /\ PointerInv /\ ReviewInv /\ [Next]_vars => ReviewInv'
  BY StepReviewInv
<1>3. TypeInv /\ PointerInv /\ [Next]_vars => PointerInv'
  BY StepPointerInv
<1>4. ReviewInv /\ [Next]_vars
        => [RegisterAgents => registryDb = reviewed[job.op].registry]_vars
  BY DEF ReviewInv, ReviewedSteps, RegisterAgents
<1> QED
  BY InitTypeInv, StepTypeInv, InitPointerInv, <1>1, <1>2, <1>3, <1>4, PTL
     DEF Spec, RegistryAsReviewed

-----------------------------------------------------------------------------
(* With one drain loop: the refinement, the gateway and what is at rest. *)

Applied == [c \in Codes |-> profile[c].applied]
Begun(o) == Seen(o) = "rolling"
Serves(i, mix) == gw[i].up /\ gw[i].view.routes = mix
AllServe(mix) == Serves(1, mix) /\ Serves(2, mix)

FirstSteps  == {"preview", "snapshot", "fill", "start"}
WriteSteps  == {"routes", "override", "roll1", "roll2", "register", "export", "commit"}
UndoneSteps == {"undoRegistry", "undoOverride", "undoEnvironment", "hostcheck",
                "reroll1", "reroll2", "rebase", "fail", "unlock", "closeTarget"}

(* Only applies have snapshots, and of those still to be done only the oldest *)
(* one, which is the one that drain has selected or works on.                 *)
SnapRows == \A o \in OpIds :
    snap[o].state # "none" => ops[o].kind = "apply" /\ ops[o].status # "none"

OldestFirst ==
    /\ \A o \in Drainable : snap[o].state # "none" => \A p \in Drainable : o <= p
    /\ \A d \in Drainers : picked[d] # 0 => \A p \in Drainable : picked[d] <= p
    /\ job.pc \in Working /\ job.mode # "recover" => \A p \in Drainable : job.op <= p

(* How far the saga is and what is on record of it. *)
SagaOnRecord ==
    /\ job.pc \in Working /\ job.mode # "recover" => job.target = job.op
    /\ job.pc \in FirstSteps => ops[job.op].status = "queued" /\ job.fresh
    /\ job.pc \in WriteSteps => ops[job.op].status = "running"
    /\ job.pc = "fill" => snap[job.op].state = "partial"
    /\ job.pc \in RestoreSteps \cup RebaseSteps /\ job.mode # "recover"
         => snap[job.op].state = "complete"

(* The combination at work is the reviewed one: what is applied, with one     *)
(* profile changed.                                                           *)
CandIsReviewed ==
    job.pc \in ApplySteps \ {"preview"} =>
        /\ job.cand = reviewed[job.op].profiles
        /\ job.cand = [c \in Codes |-> IF c = Code THEN Expected ELSE profile[c].applied]

(* What each step of a rollout and of a restore has achieved. *)
Rolled ==
    /\ job.pc \in WriteSteps \ {"routes"} => files.routes = job.cand
    /\ job.pc = "roll2" => Serves(1, job.cand)
    /\ job.pc \in {"register", "export", "commit"} => AllServe(job.cand)

Undone ==
    /\ job.pc \in UndoneSteps => files.routes = Saved.routes
    /\ job.pc = "reroll2" => Serves(1, Saved.routes)
    /\ job.pc \in RebaseSteps \cup {"unlock", "closeTarget"} => AllServe(Saved.routes)

(* With no rollout half way and no recovery pending, both instances serve     *)
(* what is in the routes file.                                                *)
Settled ==
    recoveryOp = 0 /\ (\A o \in OpIds : ~Begun(o)) => AllServe(files.routes)

(* Unless an apply was let through while a recovery was pending, there is one *)
(* way back at a time, and it leads to what is applied.                       *)
WayBack ==
    ~overtaken =>
        /\ \A o \in OpIds : Begun(o) => snap[o].files.routes = Applied
        /\ recoveryOp # 0 =>
             /\ snap[recoveryOp].files.routes = Applied
             /\ \A o \in OpIds : ~Begun(o)
             /\ job.pc \in Working => job.mode = "recover"
        /\ recoveryOp = 0 /\ Running = {} => files.routes = Applied /\ AllServe(Applied)

ApplyInv == SnapRows /\ OldestFirst /\ SagaOnRecord /\ CandIsReviewed /\ Rolled
              /\ Undone /\ Settled /\ WayBack

Before == TypeInv /\ SnapInv /\ PointerInv /\ ApplyInv

-----------------------------------------------------------------------------
LEMMA InitAtomic == Init => Atomic!Init
<1> SUFFICES ASSUME Init PROVE Atomic!Init
  OBVIOUS
<1>1. \A o \in OpIds : Seen(o) = "none"
  BY DEF Init, StoreInit, NoOp, Seen, NoSnapshot
<1>2. \A i \in Instances : Served(i) = Nothing
  BY DEF Init, Served, ViewOf, NoFiles
<1>3. \A o \in OpIds : reviewed[o].profiles = Nothing /\ snap[o].files.routes = Nothing
  BY DEF Init, NoReview, NoSnapshot, NoFiles
<1>4. \A c \in Codes : profile[c].applied = 0
  BY DEF Init, StoreInit
<1> QED
  BY <1>1, <1>2, <1>3, <1>4 DEF Atomic!Init, Nothing

-----------------------------------------------------------------------------
(* Lemmas on the rows. *)

LEMMA SeenOf ==
  ASSUME NEW o \in OpIds
  PROVE  /\ ops[o].kind # "apply" => Seen(o) = "none"
         /\ ops[o].kind = "apply" =>
              /\ ops[o].status = "queued" /\ snap[o].state = "complete" => Seen(o) = "rolling"
              /\ ops[o].status = "queued" /\ snap[o].state # "complete" => Seen(o) = "waiting"
              /\ ops[o].status = "running" => Seen(o) = "rolling"
              /\ ops[o].status = "recovery-required" => Seen(o) = "stuck"
              /\ ops[o].status \notin {"queued", "running", "recovery-required"}
                   => Seen(o) = ops[o].status
<1>1. ASSUME ops[o].kind # "apply" PROVE Seen(o) = "none"
  BY <1>1 DEF Seen
<1>2. ASSUME ops[o].kind = "apply", ops[o].status = "queued", snap[o].state = "complete"
      PROVE  Seen(o) = "rolling"
  BY <1>2 DEF Seen
<1>3. ASSUME ops[o].kind = "apply", ops[o].status = "queued", snap[o].state # "complete"
      PROVE  Seen(o) = "waiting"
  BY <1>3 DEF Seen
<1>4. ASSUME ops[o].kind = "apply", ops[o].status = "running"
      PROVE  Seen(o) = "rolling"
  BY <1>4 DEF Seen
<1>5. ASSUME ops[o].kind = "apply", ops[o].status = "recovery-required"
      PROVE  Seen(o) = "stuck"
  BY <1>5 DEF Seen
<1>6. ASSUME ops[o].kind = "apply",
             ops[o].status \notin {"queued", "running", "recovery-required"}
      PROVE  Seen(o) = ops[o].status
  BY <1>6 DEF Seen
<1> QED
  BY <1>1, <1>2, <1>3, <1>4, <1>5, <1>6

LEMMA SeenOfNext ==
  ASSUME NEW o \in OpIds
  PROVE  /\ ops'[o].kind # "apply" => Seen(o)' = "none"
         /\ ops'[o].kind = "apply" =>
              /\ ops'[o].status = "queued" /\ snap'[o].state = "complete" => Seen(o)' = "rolling"
              /\ ops'[o].status = "queued" /\ snap'[o].state # "complete" => Seen(o)' = "waiting"
              /\ ops'[o].status = "running" => Seen(o)' = "rolling"
              /\ ops'[o].status = "recovery-required" => Seen(o)' = "stuck"
              /\ ops'[o].status \notin {"queued", "running", "recovery-required"}
                   => Seen(o)' = ops'[o].status
<1>1. ASSUME ops'[o].kind # "apply" PROVE Seen(o)' = "none"
  BY <1>1 DEF Seen
<1>2. ASSUME ops'[o].kind = "apply", ops'[o].status = "queued", snap'[o].state = "complete"
      PROVE  Seen(o)' = "rolling"
  BY <1>2 DEF Seen
<1>3. ASSUME ops'[o].kind = "apply", ops'[o].status = "queued", snap'[o].state # "complete"
      PROVE  Seen(o)' = "waiting"
  BY <1>3 DEF Seen
<1>4. ASSUME ops'[o].kind = "apply", ops'[o].status = "running"
      PROVE  Seen(o)' = "rolling"
  BY <1>4 DEF Seen
<1>5. ASSUME ops'[o].kind = "apply", ops'[o].status = "recovery-required"
      PROVE  Seen(o)' = "stuck"
  BY <1>5 DEF Seen
<1>6. ASSUME ops'[o].kind = "apply",
             ops'[o].status \notin {"queued", "running", "recovery-required"}
      PROVE  Seen(o)' = ops'[o].status
  BY <1>6 DEF Seen
<1> QED
  BY <1>1, <1>2, <1>3, <1>4, <1>5, <1>6

LEMMA BegunMeans ==
  ASSUME StoreTypeOK, NEW o \in OpIds
  PROVE  Begun(o) <=> /\ ops[o].kind = "apply"
                      /\ \/ ops[o].status = "running"
                         \/ ops[o].status = "queued" /\ snap[o].state = "complete"
<1>1. ops[o].status # "rolling"
  BY DEF StoreTypeOK, OpRow, Statuses
<1> QED
  BY <1>1, SeenOf DEF Begun

LEMMA BegunMeansNext ==
  ASSUME StoreTypeOK', NEW o \in OpIds
  PROVE  Begun(o)' <=> /\ ops'[o].kind = "apply"
                       /\ \/ ops'[o].status = "running"
                          \/ ops'[o].status = "queued" /\ snap'[o].state = "complete"
<1>1. ops'[o].status # "rolling"
  BY DEF StoreTypeOK, OpRow, Statuses
<1> QED
  BY <1>1, SeenOfNext DEF Begun

LEMMA BegunSame ==
  ASSUME NEW o \in OpIds, ops'[o] = ops[o], snap'[o] = snap[o]
  PROVE  Begun(o)' <=> Begun(o)
BY DEF Begun, Seen

LEMMA StageRow ==
  ASSUME StoreTypeOK, NEW o \in OpIds, NEW status \in Statuses, Stage(o, status)
  PROVE  /\ ops'[o].status = status /\ ops'[o].kind = ops[o].kind
         /\ ops'[o].code = ops[o].code /\ ops'[o].rev = ops[o].rev
         /\ \A p \in OpIds : p # o => ops'[p] = ops[p]
         /\ recoveryOp' = IF status = "recovery-required" THEN o ELSE recoveryOp
<1>1. ops[o] \in OpRow
  BY DEF StoreTypeOK
<1>2. ops' = [ops EXCEPT ![o] = [ops[o] EXCEPT !.status = status]]
  BY DEF Stage, StoreTypeOK
<1>3. /\ [ops[o] EXCEPT !.status = status].status = status
      /\ [ops[o] EXCEPT !.status = status].kind = ops[o].kind
      /\ [ops[o] EXCEPT !.status = status].code = ops[o].code
      /\ [ops[o] EXCEPT !.status = status].rev = ops[o].rev
  BY <1>1 DEF OpRow
<1> QED
  BY <1>2, <1>3 DEF Stage, StoreTypeOK

LEMMA StepSets ==
  /\ FirstSteps \cup WriteSteps = ApplySteps
  /\ UndoneSteps \subseteq RestoreSteps \cup RebaseSteps \cup CloseSteps
  /\ Working = ApplySteps \cup RestoreSteps \cup RebaseSteps \cup CloseSteps
  /\ FirstSteps \cap WriteSteps = {}
BY DEF FirstSteps, WriteSteps, UndoneSteps, Working, ApplySteps, RestoreSteps, RestoreFiles,
       RebaseSteps, CloseSteps

(* A saga that is no longer there has nothing on record. *)
LEMMA NoSaga ==
  ASSUME \/ job'.pc \notin Working
         \/ job'.pc = "closeSelf" /\ job'.mode = "recover"
  PROVE  SagaOnRecord' /\ CandIsReviewed' /\ Rolled' /\ Undone'
<1>1. /\ job'.pc \notin FirstSteps \cup WriteSteps \cup UndoneSteps \cup ApplySteps
      /\ job'.pc \notin RestoreSteps \cup RebaseSteps
  BY StepSets DEF FirstSteps, WriteSteps, UndoneSteps, ApplySteps, RestoreSteps,
                  RestoreFiles, RebaseSteps
<1>2. job'.pc \notin {"fill", "roll2", "register", "export", "commit", "reroll2",
                      "unlock", "closeTarget"}
  BY <1>1 DEF ApplySteps, RestoreSteps, UndoneSteps
<1> QED
  BY <1>1, <1>2 DEF SagaOnRecord, CandIsReviewed, Rolled, Undone

LEMMA RowsKept ==
  ASSUME SnapRows, OldestFirst,
         \A o \in OpIds : /\ snap'[o].state # "none" => snap[o].state # "none"
                          /\ ops'[o].kind = ops[o].kind
                          /\ ops[o].status # "none" => ops'[o].status # "none"
                          /\ Unresolved(o)' => Unresolved(o),
         \A d \in Drainers : picked'[d] \in {0, picked[d]},
         job'.pc \in Working /\ job'.mode # "recover"
           => job.pc \in Working /\ job.mode # "recover" /\ job'.op = job.op
  PROVE  SnapRows' /\ OldestFirst'
<1>1. SnapRows'
  BY DEF SnapRows
<1>2. Drainable' \subseteq Drainable
  BY DEF Drainable
<1> QED
  BY <1>1, <1>2 DEF OldestFirst, Drainable

(* Only the oldest unresolved apply can be under way. *)
LEMMA BegunIsOldest ==
  ASSUME TypeInv, SnapInv, ApplyInv, NEW o \in OpIds, Begun(o)
  PROVE  /\ o \in Drainable
         /\ \A p \in Drainable : o <= p
         /\ \A p \in OpIds : Begun(p) => p = o
<1>1. \A p \in OpIds : Begun(p) => p \in Drainable /\ snap[p].state = "complete"
  <2> TAKE p \in OpIds
  <2> QED
    BY BegunMeans DEF TypeInv, TypeOK, Drainable, Unresolved, SnapInv, SnapshotCovers, Running
<1>2. \A p \in OpIds : Begun(p) => \A q \in Drainable : p <= q
  BY <1>1 DEF ApplyInv, OldestFirst
<1>3. \A p \in OpIds : Begun(p) => p = o
  <2> TAKE p \in OpIds
  <2> HAVE Begun(p)
  <2>1. p \in Drainable /\ o \in Drainable
    BY <1>1
  <2>2. p <= o /\ o <= p
    BY <1>2, <2>1
  <2>3. p \in Nat /\ o \in Nat
    BY StoreAssumption DEF OpIds
  <2> QED
    BY <2>2, <2>3
<1>4. o \in Drainable /\ \A p \in Drainable : o <= p
  BY <1>1, <1>2
<1> QED
  BY <1>3, <1>4

-----------------------------------------------------------------------------
(* Steps that touch nothing of this. *)

LEMMA ApplyFrame ==
  ASSUME TypeInv, ApplyInv,
         UNCHANGED <<ops, recoveryOp, snap, reviewed, gw, overtaken>>,
         \A c \in Codes : profile'[c].applied = profile[c].applied,
         files'.routes = files.routes,
         \A d \in Drainers : picked'[d] \in {0, picked[d]},
         job' = job \/ job'.pc \notin Working
  PROVE  ApplyInv'
<1>1. /\ Applied' = Applied /\ Running' = Running
      /\ \A o \in OpIds : Begun(o)' <=> Begun(o)
      /\ \A i \in {1, 2} : \A mix : Serves(i, mix)' <=> Serves(i, mix)
  BY BegunSame DEF Applied, Running, Serves
<1>2. SnapRows' /\ OldestFirst'
  BY RowsKept DEF ApplyInv, Unresolved
<1>3. Settled'
  BY <1>1 DEF ApplyInv, Settled, AllServe, Serves
<1>4. WayBack'
  BY <1>1 DEF ApplyInv, WayBack, AllServe, Serves
<1>5. SagaOnRecord' /\ CandIsReviewed' /\ Rolled' /\ Undone'
  <2>1. CASE job'.pc \notin Working
    BY <2>1, NoSaga
  <2>2. CASE job' = job
    <3>1. SagaOnRecord'
      BY <2>2 DEF ApplyInv, SagaOnRecord
    <3>2. CandIsReviewed'
      BY <2>2 DEF ApplyInv, CandIsReviewed, Code, Expected
    <3>3. Rolled'
      BY <2>2 DEF ApplyInv, Rolled, AllServe, Serves
    <3>4. Undone'
      BY <2>2 DEF ApplyInv, Undone, AllServe, Serves, Saved
    <3> QED
      BY <3>1, <3>2, <3>3, <3>4
  <2> QED
    BY <2>1, <2>2
<1> QED
  BY <1>2, <1>3, <1>4, <1>5 DEF ApplyInv

(* Steps of the saga that write other files than the routes, or nothing. *)
QuietSteps == {<<"override", "roll1">>, <<"register", "export">>, <<"export", "commit">>,
               <<"undoRegistry", "undoOverride">>, <<"undoOverride", "undoEnvironment">>,
               <<"undoEnvironment", "hostcheck">>, <<"hostcheck", "reroll1">>,
               <<"rebase", "fail">>, <<"rebase", "unlock">>}

LEMMA ApplyQuiet ==
  ASSUME TypeInv, ApplyInv,
         UNCHANGED <<ops, recoveryOp, snap, reviewed, gw, overtaken, profile, picked>>,
         files'.routes = files.routes,
         job'.op = job.op, job'.target = job.target, job'.mode = job.mode,
         job'.fresh = job.fresh, job'.cand = job.cand,
         <<job.pc, job'.pc>> \in QuietSteps
  PROVE  ApplyInv'
<1>1. /\ Applied' = Applied /\ Running' = Running
      /\ \A o \in OpIds : Begun(o)' <=> Begun(o)
  BY BegunSame DEF Applied, Running
<1>2. job.pc \in Working /\ job'.pc \in Working
  BY DEF QuietSteps, Working, ApplySteps, RestoreSteps, RestoreFiles, RebaseSteps, CloseSteps
<1>3. SnapRows' /\ OldestFirst'
  BY <1>2, RowsKept DEF ApplyInv, Unresolved
<1>4. Settled'
  BY <1>1 DEF ApplyInv, Settled, AllServe, Serves
<1>5. WayBack'
  BY <1>1, <1>2 DEF ApplyInv, WayBack, AllServe, Serves
<1>6. SagaOnRecord'
  BY <1>2 DEF ApplyInv, SagaOnRecord, QuietSteps, FirstSteps, WriteSteps, RestoreSteps,
              RestoreFiles, RebaseSteps
<1>7. CandIsReviewed'
  <2>1. job'.pc \in ApplySteps \ {"preview"} => job.pc \in ApplySteps \ {"preview"}
    BY DEF QuietSteps, ApplySteps
  <2> QED
    BY <2>1 DEF ApplyInv, CandIsReviewed, Code, Expected
<1>8. Rolled'
  BY DEF ApplyInv, Rolled, AllServe, Serves, QuietSteps, WriteSteps
<1>9. Undone'
  BY DEF ApplyInv, Undone, AllServe, Serves, Saved, QuietSteps, UndoneSteps, RebaseSteps
<1> QED
  BY <1>3, <1>4, <1>5, <1>6, <1>7, <1>8, <1>9 DEF ApplyInv

-----------------------------------------------------------------------------
(* The apply at work. *)

LEMMA SagaRow ==
  ASSUME Before, job.pc \in Working, job.mode # "recover"
  PROVE  /\ job.op \in Drainable /\ job.op \in OpIds /\ job.target = job.op
         /\ \A p \in Drainable : job.op <= p
         /\ ~overtaken => recoveryOp = 0
<1>1. job.op \in OpIds /\ job.op \in Drainable
  BY DEF Before, TypeInv, JobOK, PointerInv, SagaIsOpen, Drainable
<1>2. job.target = job.op
  BY DEF Before, ApplyInv, SagaOnRecord
<1>3. \A p \in Drainable : job.op <= p
  BY DEF Before, ApplyInv, OldestFirst
<1>4. ~overtaken => recoveryOp = 0
  BY DEF Before, ApplyInv, WayBack
<1> QED
  BY <1>1, <1>2, <1>3, <1>4

LEMMA SagaBegun ==
  ASSUME Before, job.mode # "recover",
         job.pc \in {"start"} \cup WriteSteps \cup RestoreSteps \cup RebaseSteps
  PROVE  /\ job.pc \in Working
         /\ Begun(job.op) /\ snap[job.op].state = "complete"
         /\ \A p \in OpIds : Begun(p) => p = job.op
<1>1. job.pc \in Working
  BY StepSets DEF FirstSteps
<1>2. /\ job.op \in OpIds /\ ops[job.op].kind = "apply"
      /\ ops[job.op].status \in {"queued", "running"}
  BY <1>1, SagaRow DEF Drainable, Unresolved
<1>3. snap[job.op].state = "complete"
  <2>1. CASE job.pc = "start"
    BY <2>1 DEF Before, SnapInv, Rolling
  <2>2. CASE job.pc \in WriteSteps
    BY <1>2, <2>2 DEF Before, ApplyInv, SagaOnRecord, SnapInv, SnapshotCovers, Running
  <2>3. CASE job.pc \in RestoreSteps \cup RebaseSteps
    BY <2>3 DEF Before, ApplyInv, SagaOnRecord
  <2> QED
    BY <2>1, <2>2, <2>3
<1>4. Begun(job.op)
  BY <1>2, <1>3, BegunMeans DEF Before, TypeInv, TypeOK
<1>5. \A p \in OpIds : Begun(p) => p = job.op
  BY <1>2, <1>4, BegunIsOldest DEF Before
<1> QED
  BY <1>1, <1>3, <1>4, <1>5

-----------------------------------------------------------------------------
(* New operations. *)

LEMMA ApplyEnqueue ==
  ASSUME Before, StoreTypeOK', NEW c \in Codes, NEW kind \in {"apply", "recover"},
         Enqueue(c, kind),
         \A o \in OpIds : o # lastOp + 1 => reviewed'[o] = reviewed[o],
         UNCHANGED <<files, gw, snap, job, picked, overtaken>>
  PROVE  ApplyInv'
<1> DEFINE n == lastOp + 1
<1>1. /\ n \in OpIds /\ lastOp \in Nat /\ profile' = profile /\ recoveryOp' = recoveryOp
      /\ ops'[n].kind = kind /\ ops'[n].status = "queued"
      /\ \A p \in OpIds : p # n => ops'[p] = ops[p]
  BY EnqueueType, kind \in Kinds DEF Enqueue, Kinds, Before, TypeInv, TypeOK, StoreTypeOK
<1>2. /\ ops[n].status = "none" /\ snap[n].state = "none"
      /\ \A p \in OpIds : ops[p].status # "none" => p < n /\ ops'[p] = ops[p]
  <2>1. \A p \in OpIds : p > lastOp => ops[p].status = "none"
    BY DEF Before, PointerInv, FreshRows
  <2>2. \A p \in OpIds : p \in Nat
    BY StoreAssumption DEF OpIds
  <2>3. snap[n].state = "none"
    BY <1>1, <2>1, <2>2 DEF Before, ApplyInv, SnapRows
  <2> QED
    BY <1>1, <2>1, <2>2, <2>3
<1> HIDE DEF n
<1>3. /\ Drainable \subseteq Drainable' /\ Drainable' \subseteq Drainable \cup {n}
      /\ n \notin Drainable
      /\ \A p \in Drainable : p <= n
  BY <1>1, <1>2, StoreAssumption DEF Drainable, Unresolved, OpIds
<1>4. SnapRows'
  BY <1>2 DEF Before, ApplyInv, SnapRows
<1>5. OldestFirst'
  <2>1. \A o \in Drainable' : snap'[o].state # "none" => \A p \in Drainable' : o <= p
    BY <1>2, <1>3 DEF Before, ApplyInv, OldestFirst
  <2>2. \A d \in Drainers : picked'[d] # 0 => \A p \in Drainable' : picked'[d] <= p
    <3>1. \A d \in Drainers : picked[d] # 0 => picked[d] \in Drainable
      BY PickedRows DEF Before, PointerInv, PickIsOpen, Drainable
    <3> QED
      BY <3>1, <1>3 DEF Before, ApplyInv, OldestFirst
  <2>3. job'.pc \in Working /\ job'.mode # "recover" => \A p \in Drainable' : job'.op <= p
    BY <1>3, SagaRow
  <2> QED
    BY <2>1, <2>2, <2>3 DEF OldestFirst
<1>6. /\ Applied' = Applied /\ Running' = Running
      /\ \A o \in OpIds : Begun(o)' <=> Begun(o)
  <2>1. \A o \in OpIds : Begun(o)' <=> Begun(o)
    <3> TAKE o \in OpIds
    <3>1. CASE o = n
      BY <1>1, <1>2, <3>1, BegunMeans, BegunMeansNext DEF Before, TypeInv, TypeOK
    <3>2. CASE o # n
      BY <1>1, <3>2, BegunSame
    <3> QED
      BY <3>1, <3>2
  <2>2. Running' = Running
    BY <1>1, <1>2 DEF Running
  <2> QED
    BY <1>1, <2>1, <2>2 DEF Applied
<1>7. job.pc \in Working /\ job.mode # "recover" =>
        ops'[job.op] = ops[job.op] /\ reviewed'[job.op] = reviewed[job.op]
  BY <1>1, <1>2, SagaRow DEF Drainable, Unresolved, n
<1>7a. job.pc \in ApplySteps => job.pc \in Working /\ job.mode # "recover"
  BY StepSets DEF Before, PointerInv, ModeOfStep
<1>8. SagaOnRecord'
  BY <1>7, <1>7a, StepSets DEF Before, ApplyInv, SagaOnRecord
<1>9. CandIsReviewed'
  BY <1>1, <1>7, <1>7a DEF Before, ApplyInv, CandIsReviewed, Code, Expected
<1>10. Rolled' /\ Undone'
  BY DEF Before, ApplyInv, Rolled, Undone, AllServe, Serves, Saved
<1>11. Settled'
  BY <1>1, <1>6 DEF Before, ApplyInv, Settled, AllServe, Serves
<1>12. WayBack'
  BY <1>1, <1>6 DEF Before, ApplyInv, WayBack, AllServe, Serves
<1> QED
  BY <1>4, <1>5, <1>8, <1>9, <1>10, <1>11, <1>12 DEF ApplyInv

-----------------------------------------------------------------------------
(* The drain. *)

LEMMA ApplySelect ==
  ASSUME Before, NEW d \in Drainers, DrainSelect(d)
  PROVE  ApplyInv'
<1>1. PICK o \in Drainable : (\A p \in Drainable : o <= p) /\ picked' = [picked EXCEPT ![d] = o]
  BY DEF DrainSelect
<1>2. UNCHANGED <<profile, ops, recoveryOp, files, gw, snap, reviewed, job, overtaken>>
  BY DEF DrainSelect
<1>3. \A e \in Drainers : picked'[e] = picked[e] \/ picked'[e] = o
  BY <1>1 DEF Before, TypeInv, TypeOK
<1>4. OldestFirst'
  BY <1>1, <1>2, <1>3 DEF Before, ApplyInv, OldestFirst, Drainable, Unresolved
<1>5. /\ Applied' = Applied /\ Running' = Running
      /\ \A p \in OpIds : Begun(p)' <=> Begun(p)
  BY <1>2, BegunSame DEF Applied, Running
<1>6. SnapRows' /\ SagaOnRecord' /\ CandIsReviewed' /\ Rolled' /\ Undone'
  BY <1>2 DEF Before, ApplyInv, SnapRows, SagaOnRecord, CandIsReviewed, Code, Expected,
              Rolled, Undone, AllServe, Serves, Saved
<1>7. Settled' /\ WayBack'
  BY <1>2, <1>5 DEF Before, ApplyInv, Settled, WayBack, AllServe, Serves
<1> QED
  BY <1>4, <1>6, <1>7 DEF ApplyInv

LEMMA ApplyTaken ==
  ASSUME Before, Drainers = {"serve"}, NEW d \in Drainers, ApplyBegin(d) \/ RestartBegin(d)
  PROVE  ApplyInv'
<1> DEFINE o == picked[d]
<1>1. o \in OpIds /\ o \in Drainable /\ \A p \in Drainable : o <= p
  BY PickedRows DEF Before, PointerInv, PickIsOpen, Drainable, ApplyInv, OldestFirst,
                    ApplyBegin, RestartBegin
<1>2. /\ UNCHANGED <<profile, ops, recoveryOp, files, gw, snap, reviewed>>
      /\ \A e \in Drainers : picked'[e] = 0
      /\ overtaken' = overtaken \/ overtaken' = (overtaken \/ recoveryOp # 0)
  BY DEF ApplyBegin, RestartBegin, Before, TypeInv, TypeOK
<1>3. /\ job'.op = o /\ job'.target = o /\ job'.mode # "recover"
      /\ job'.fresh = (ops[o].status = "queued")
      /\ \/ ApplyBegin(d) /\ job'.pc = "preview"
         \/ RestartBegin(d) /\ job'.pc = "undoRoutes"
  BY DEF ApplyBegin, RestartBegin, Take, Idle
<1> HIDE DEF o
<1>4. ops[o].status = IF ApplyBegin(d) THEN "queued" ELSE "running"
  BY <1>1 DEF Drainable, Unresolved, ApplyBegin, RestartBegin, o
<1>5. /\ Applied' = Applied /\ Running' = Running
      /\ \A p \in OpIds : Begun(p)' <=> Begun(p)
  BY <1>2, BegunSame DEF Applied, Running
<1>6. SnapRows' /\ OldestFirst'
  BY <1>1, <1>2, <1>3 DEF Before, ApplyInv, SnapRows, OldestFirst, Drainable, Unresolved
<1>7. SagaOnRecord'
  <2>1. CASE ApplyBegin(d)
    <3>1. job'.pc = "preview" /\ job'.fresh /\ ops'[o].status = "queued"
      BY <1>2, <1>3, <1>4, <2>1 DEF ApplyBegin, RestartBegin
    <3> QED
      BY <1>3, <3>1 DEF SagaOnRecord, FirstSteps, WriteSteps, RestoreSteps, RestoreFiles,
                        RebaseSteps
  <2>2. CASE ~ApplyBegin(d)
    <3>1. job'.pc = "undoRoutes" /\ ops[o].status = "running"
      BY <1>3, <1>4, <2>2
    <3>2. snap'[o].state = "complete"
      BY <1>1, <1>2, <3>1 DEF Before, SnapInv, SnapshotCovers, Running, Drainable
    <3> QED
      BY <1>3, <3>1, <3>2 DEF SagaOnRecord, FirstSteps, WriteSteps
  <2> QED
    BY <2>1, <2>2
<1>8. CandIsReviewed' /\ Rolled' /\ Undone'
  BY <1>3 DEF CandIsReviewed, Rolled, Undone, ApplySteps, WriteSteps, UndoneSteps, RebaseSteps
<1>9. Settled'
  BY <1>2, <1>5 DEF Before, ApplyInv, Settled, AllServe, Serves
<1>10. WayBack'
  <2>1. ~overtaken' => ~overtaken /\ recoveryOp = 0
    <3>1. CASE ApplyBegin(d)
      BY <3>1 DEF ApplyBegin
    <3>2. CASE RestartBegin(d)
      <4>1. overtaken' = overtaken
        BY <3>2 DEF RestartBegin
      <4>2. ops[o].status = "running"
        BY <3>2 DEF RestartBegin, o
      <4>3. Begun(o)
        BY <1>1, <4>2, BegunMeans DEF Before, TypeInv, TypeOK, Drainable
      <4> QED
        BY <1>1, <4>1, <4>3 DEF Before, ApplyInv, WayBack
    <3> QED
      BY <3>1, <3>2
  <2> QED
    BY <1>2, <1>5, <2>1 DEF Before, ApplyInv, WayBack, AllServe, Serves
<1> QED
  BY <1>6, <1>7, <1>8, <1>9, <1>10 DEF ApplyInv

-----------------------------------------------------------------------------
(* Operations that end, or get stuck. *)

(* An operation that changed nothing ends. *)
LEMMA ApplyQuietEnd ==
  ASSUME Before, StoreTypeOK', NEW o \in OpIds, NEW status \in {"failed", "recovered"},
         Stage(o, status), ops[o].status # "none", ~Begun(o),
         UNCHANGED <<profile, files, snap, reviewed, picked, overtaken>>,
         UNCHANGED gw \/ recoveryOp # 0,
         \/ job'.pc \notin Working
         \/ job'.pc = "closeSelf" /\ job'.mode = "recover"
               /\ job.pc \in Working /\ job.mode = "recover"
  PROVE  ApplyInv'
<1>1. /\ ops'[o].status = status /\ ops'[o].kind = ops[o].kind /\ recoveryOp' = recoveryOp
      /\ \A p \in OpIds : p # o => ops'[p] = ops[p]
  BY StageRow, status \in Statuses DEF Before, TypeInv, TypeOK, Statuses
<1>2. \A p \in OpIds : Begun(p)' <=> Begun(p)
  <2> TAKE p \in OpIds
  <2>1. CASE p = o
    BY <1>1, <2>1, BegunMeansNext
  <2>2. CASE p # o
    BY <1>1, <2>2, BegunSame
  <2> QED
    BY <2>1, <2>2
<1>3. Running' = Running /\ Applied' = Applied
  <2>1. o \notin Running
    BY BegunMeans DEF Running, Before, TypeInv, TypeOK
  <2> QED
    BY <1>1, <2>1 DEF Running, Applied
<1>4. SnapRows' /\ OldestFirst'
  BY <1>1, RowsKept DEF Before, ApplyInv, Unresolved
<1>5. SagaOnRecord' /\ CandIsReviewed' /\ Rolled' /\ Undone'
  BY NoSaga
<1>6. Settled'
  BY <1>1, <1>2 DEF Before, ApplyInv, Settled, AllServe, Serves
<1>7. WayBack'
  BY <1>1, <1>2, <1>3 DEF Before, ApplyInv, WayBack, AllServe, Serves
<1> QED
  BY <1>4, <1>5, <1>6, <1>7 DEF ApplyInv

(* An apply that cannot be undone now waits for recovery. *)
LEMMA ApplyStuck ==
  ASSUME Before, StoreTypeOK', NEW o \in OpIds, Stage(o, "recovery-required"), Begun(o),
         UNCHANGED <<profile, files, snap, reviewed, overtaken>>,
         \A d \in Drainers : picked'[d] \in {0, picked[d]},
         job'.pc \notin Working
  PROVE  ApplyInv'
<1>1. /\ ops'[o].status = "recovery-required" /\ ops'[o].kind = ops[o].kind
      /\ recoveryOp' = o /\ o # 0
      /\ \A p \in OpIds : p # o => ops'[p] = ops[p]
  BY StageRow, StatusNames, StoreAssumption DEF Before, TypeInv, TypeOK, OpIds
<1>2. \A p \in OpIds : ~Begun(p)'
  <2> TAKE p \in OpIds
  <2>1. CASE p = o
    BY <1>1, <2>1, BegunMeansNext
  <2>2. CASE p # o
    BY <1>1, <2>2, BegunSame, BegunIsOldest DEF Before
  <2> QED
    BY <2>1, <2>2
<1>3. Applied' = Applied
  BY DEF Applied
<1>4. SnapRows' /\ OldestFirst'
  <2>1. ops[o].status # "none"
    BY BegunIsOldest DEF Before, Drainable, Unresolved
  <2> QED
    BY <1>1, <2>1, RowsKept DEF Before, ApplyInv, Unresolved
<1>5. SagaOnRecord' /\ CandIsReviewed' /\ Rolled' /\ Undone'
  BY NoSaga
<1>6. Settled'
  BY <1>1 DEF Settled
<1>7. WayBack'
  BY <1>1, <1>2, <1>3 DEF Before, ApplyInv, WayBack
<1> QED
  BY <1>4, <1>5, <1>6, <1>7 DEF ApplyInv

(* The apply at work ends with everything in place: as applied, when it       *)
(* committed, or as failed, when what was before is back.                     *)
LEMMA ApplyEnds ==
  ASSUME Before, StoreTypeOK', job.mode # "recover",
         job.pc \in WriteSteps \cup RestoreSteps \cup RebaseSteps,
         NEW status \in {"applied", "failed"}, Stage(job.op, status),
         UNCHANGED <<files, gw, snap, reviewed, picked, overtaken>>,
         ~overtaken => files.routes = Applied', AllServe(files.routes),
         job'.pc \notin Working
  PROVE  ApplyInv'
<1>1. /\ job.op \in OpIds /\ job.op \in Drainable
      /\ ops'[job.op].status = status /\ ops'[job.op].kind = ops[job.op].kind
      /\ recoveryOp' = recoveryOp
      /\ \A p \in OpIds : p # job.op => ops'[p] = ops[p]
  BY SagaBegun, SagaRow, StageRow, status \in Statuses DEF Before, TypeInv, TypeOK, Statuses
<1>2. \A p \in OpIds : ~Begun(p)'
  <2> TAKE p \in OpIds
  <2>1. CASE p = job.op
    BY <1>1, <2>1, BegunMeansNext
  <2>2. CASE p # job.op
    BY <1>1, <2>2, BegunSame, SagaBegun
  <2> QED
    BY <2>1, <2>2
<1>3. SnapRows' /\ OldestFirst'
  BY <1>1, RowsKept DEF Before, ApplyInv, Unresolved, Drainable
<1>4. SagaOnRecord' /\ CandIsReviewed' /\ Rolled' /\ Undone'
  BY NoSaga
<1>5. AllServe(files.routes)' /\ (~overtaken => AllServe(Applied)')
  BY DEF AllServe, Serves
<1>6. ~overtaken => recoveryOp = 0
  BY SagaBegun, SagaRow
<1>7. Settled' /\ WayBack'
  BY <1>1, <1>2, <1>5, <1>6 DEF Settled, WayBack
<1> QED
  BY <1>3, <1>4, <1>7 DEF ApplyInv

-----------------------------------------------------------------------------
(* The first steps of an apply. *)

LEMMA Advanced ==
  ASSUME job \in Jobs, NEW pc, GoTo(pc)
  PROVE  /\ job'.pc = pc /\ job'.op = job.op /\ job'.target = job.target
         /\ job'.mode = job.mode /\ job'.fresh = job.fresh /\ job'.cand = job.cand
BY DEF GoTo, Jobs

LEMMA SagaApplies ==
  ASSUME Before, job.pc \in ApplySteps
  PROVE  job.mode = "apply" /\ job.pc \in Working /\ job.mode # "recover"
BY StepSets DEF Before, PointerInv, ModeOfStep

LEMMA ApplyPreview ==
  ASSUME Before, CheckPreview
  PROVE  ApplyInv'
<1>0. job.pc = "preview" /\ job.pc \in ApplySteps /\ job \in Jobs
  BY DEF CheckPreview, ApplySteps, Before, TypeInv, TypeOK
<1>1. /\ job'.op = job.op /\ job'.target = job.target /\ job'.mode = job.mode
      /\ job'.fresh = job.fresh /\ job'.pc = "snapshot" /\ job'.cand = Rendered(Code)
      /\ UNCHANGED <<profile, ops, recoveryOp, files, gw, snap, reviewed, picked, overtaken>>
  BY <1>0 DEF CheckPreview, Jobs
<1>2. /\ Rendered(Code) = reviewed[job.op].profiles
      /\ Rendered(Code) = [c \in Codes |-> IF c = Code THEN Expected ELSE profile[c].applied]
  BY DEF CheckPreview, PreviewHash, Rendered
<1>3. /\ Applied' = Applied /\ Running' = Running
      /\ \A o \in OpIds : Begun(o)' <=> Begun(o)
  BY <1>1, BegunSame DEF Applied, Running
<1>4. SnapRows' /\ OldestFirst'
  BY <1>0, <1>1, SagaApplies, RowsKept DEF Before, ApplyInv, Unresolved
<1>5. SagaOnRecord'
  BY <1>0, <1>1 DEF Before, ApplyInv, SagaOnRecord, FirstSteps, WriteSteps, RestoreSteps,
     RestoreFiles, RebaseSteps, Working, ApplySteps
<1>6. CandIsReviewed'
  BY <1>1, <1>2 DEF CandIsReviewed, Code, Expected
<1>7. Rolled' /\ Undone'
  BY <1>1 DEF Rolled, Undone, WriteSteps, UndoneSteps, RebaseSteps
<1>8. Settled'
  BY <1>1, <1>3 DEF Before, ApplyInv, Settled, AllServe, Serves
<1>9. WayBack'
  BY <1>0, <1>1, <1>3, SagaApplies DEF Before, ApplyInv, WayBack, AllServe, Serves
<1> QED
  BY <1>4, <1>5, <1>6, <1>7, <1>8, <1>9 DEF ApplyInv

LEMMA ApplyOpens ==
  ASSUME Before, StoreTypeOK', SnapshotOpen
  PROVE  ApplyInv'
<1>0. job.pc = "snapshot" /\ job.pc \in ApplySteps /\ job \in Jobs
  BY DEF SnapshotOpen, ApplySteps, Before, TypeInv, TypeOK
<1>1. /\ job'.op = job.op /\ job'.target = job.target /\ job'.mode = job.mode
      /\ job'.fresh = job.fresh /\ job'.cand = job.cand /\ job'.pc \in {"fill", "start"}
      /\ UNCHANGED <<profile, ops, recoveryOp, files, gw, reviewed, picked, overtaken>>
  BY <1>0, Advanced DEF SnapshotOpen
<1>2. /\ job.op \in OpIds /\ job.op \in Drainable
      /\ \A p \in Drainable : job.op <= p
      /\ ops[job.op].kind = "apply" /\ ops[job.op].status = "queued"
  BY <1>0, SagaApplies, SagaRow DEF Drainable, Before, ApplyInv, SagaOnRecord, FirstSteps
<1>3. /\ \A o \in OpIds : snap'[o].files = snap[o].files
      /\ \A o \in OpIds : o # job.op => snap'[o] = snap[o]
      /\ snap'[job.op].state = "complete" <=> snap[job.op].state = "complete"
      /\ job'.pc = "fill" => snap'[job.op].state = "partial"
  <2>1. snap[job.op] \in Snapshots /\ snap \in [OpIds -> Snapshots]
    BY <1>2 DEF Before, TypeInv, TypeOK
  <2>2. CASE UNCHANGED snap /\ GoTo("start")
    BY <2>2, <1>0, Advanced
  <2>3. CASE /\ snap[job.op].state = "none" /\ GoTo("fill")
             /\ snap' = [snap EXCEPT ![job.op].state = "partial"]
    <3>1. snap' = [snap EXCEPT ![job.op] = [snap[job.op] EXCEPT !.state = "partial"]]
      BY <2>3
    <3>2. /\ [snap[job.op] EXCEPT !.state = "partial"].files = snap[job.op].files
          /\ [snap[job.op] EXCEPT !.state = "partial"].state = "partial"
      BY <2>1 DEF Snapshots
    <3> QED
      BY <1>0, <1>2, <2>1, <2>3, <3>1, <3>2, Advanced
  <2> QED
    BY <2>2, <2>3 DEF SnapshotOpen
<1>4. \A o \in OpIds : Begun(o)' <=> Begun(o)
  BY <1>1, <1>3, BegunMeans, BegunMeansNext DEF Before, TypeInv, TypeOK
<1>5. Applied' = Applied /\ Running' = Running
  BY <1>1 DEF Applied, Running
<1>6. SnapRows'
  BY <1>1, <1>2, <1>3 DEF Before, ApplyInv, SnapRows
<1>7. OldestFirst'
  <2>1. Drainable' = Drainable
    BY <1>1 DEF Drainable, Unresolved
  <2> QED
    BY <1>1, <1>2, <1>3, <2>1 DEF Before, ApplyInv, OldestFirst, Drainable
<1>8. SagaOnRecord'
  BY <1>0, <1>1, <1>3 DEF Before, ApplyInv, SagaOnRecord, FirstSteps, WriteSteps, RestoreSteps,
     RestoreFiles, RebaseSteps, Working, ApplySteps
<1>9. CandIsReviewed'
  BY <1>0, <1>1 DEF Before, ApplyInv, CandIsReviewed, Code, Expected
<1>10. Rolled' /\ Undone'
  BY <1>1 DEF Rolled, Undone, WriteSteps, UndoneSteps, RebaseSteps
<1>11. Settled'
  BY <1>1, <1>4 DEF Before, ApplyInv, Settled, AllServe, Serves
<1>12. WayBack'
  <2>1. ~overtaken => recoveryOp = 0
    BY <1>0, SagaApplies, SagaRow
  <2> QED
    BY <1>1, <1>3, <1>4, <1>5, <2>1 DEF Before, ApplyInv, WayBack, AllServe, Serves
<1> QED
  BY <1>6, <1>7, <1>8, <1>9, <1>10, <1>11, <1>12 DEF ApplyInv

(* With the snapshot whole, the apply has begun: nothing else had, so what it *)
(* goes back to is what is applied.                                           *)
LEMMA ApplyFills ==
  ASSUME Before, StoreTypeOK', SnapshotFill
  PROVE  ApplyInv'
<1>0. job.pc = "fill" /\ job.pc \in ApplySteps /\ job \in Jobs
  BY DEF SnapshotFill, ApplySteps, Before, TypeInv, TypeOK
<1>1. /\ job'.op = job.op /\ job'.target = job.target /\ job'.mode = job.mode
      /\ job'.fresh = job.fresh /\ job'.cand = job.cand /\ job'.pc = "start"
      /\ UNCHANGED <<profile, ops, recoveryOp, files, gw, reviewed, picked, overtaken>>
  BY <1>0, Advanced DEF SnapshotFill
<1>2. /\ job.op \in OpIds /\ job.op \in Drainable
      /\ \A p \in Drainable : job.op <= p
      /\ ops[job.op].kind = "apply" /\ ops[job.op].status = "queued"
      /\ snap[job.op].state = "partial"
  BY <1>0, SagaApplies, SagaRow DEF Drainable, Before, ApplyInv, SagaOnRecord, FirstSteps
<1>3. /\ snap'[job.op].state = "complete" /\ snap'[job.op].files = files
      /\ \A o \in OpIds : o # job.op => snap'[o] = snap[o]
  BY <1>2 DEF SnapshotFill, Before, TypeInv, TypeOK
<1>4. \A o \in OpIds : ~Begun(o)
  <2> SUFFICES ASSUME NEW o \in OpIds, Begun(o) PROVE FALSE
    OBVIOUS
  <2>1. o \in Drainable /\ o <= job.op
    BY <1>2, BegunIsOldest DEF Before
  <2>2. job.op <= o /\ o \in Nat /\ job.op \in Nat
    BY <1>2, <2>1, StoreAssumption DEF OpIds
  <2>3. o = job.op
    BY <2>1, <2>2
  <2> QED
    BY <1>2, <2>3, BegunMeans DEF Before, TypeInv, TypeOK
<1>5. \A o \in OpIds : Begun(o)' <=> o = job.op
  BY <1>1, <1>2, <1>3, <1>4, BegunMeansNext, BegunSame
<1>6. Running = {} /\ Running' = {} /\ Applied' = Applied
  BY <1>1, <1>4, BegunMeans DEF Running, Applied, Before, TypeInv, TypeOK
<1>7. SnapRows'
  BY <1>1, <1>2, <1>3 DEF Before, ApplyInv, SnapRows
<1>8. OldestFirst'
  <2>1. Drainable' = Drainable
    BY <1>1 DEF Drainable, Unresolved
  <2> QED
    BY <1>1, <1>2, <1>3, <2>1 DEF Before, ApplyInv, OldestFirst, Drainable
<1>9. SagaOnRecord'
  BY <1>0, <1>1 DEF Before, ApplyInv, SagaOnRecord, FirstSteps, WriteSteps, RestoreSteps,
     RestoreFiles, RebaseSteps, Working, ApplySteps
<1>10. CandIsReviewed'
  BY <1>0, <1>1 DEF Before, ApplyInv, CandIsReviewed, Code, Expected
<1>11. Rolled' /\ Undone'
  BY <1>1 DEF Rolled, Undone, WriteSteps, UndoneSteps, RebaseSteps
<1>12. Settled'
  BY <1>2, <1>5 DEF Settled
<1>13. WayBack'
  <2>1. ~overtaken => recoveryOp = 0
    BY <1>0, SagaApplies, SagaRow
  <2>2. ~overtaken => files.routes = Applied /\ AllServe(Applied)
    BY <1>6, <2>1 DEF Before, ApplyInv, WayBack
  <2> QED
    BY <1>1, <1>3, <1>5, <1>6, <2>1, <2>2 DEF WayBack, AllServe, Serves
<1> QED
  BY <1>7, <1>8, <1>9, <1>10, <1>11, <1>12, <1>13 DEF ApplyInv

-----------------------------------------------------------------------------
(* The rollout. *)

LEMMA ApplyStarts ==
  ASSUME Before, StoreTypeOK', StageRunning
  PROVE  ApplyInv'
<1>0. /\ job.pc = "start" /\ job.pc \in ApplySteps /\ job \in Jobs
      /\ job.pc \in Working /\ job.mode # "recover"
  BY SagaApplies DEF StageRunning, ApplySteps, Before, TypeInv, TypeOK
<1>1. /\ job'.op = job.op /\ job'.target = job.target /\ job'.mode = job.mode
      /\ job'.fresh = job.fresh /\ job'.cand = job.cand /\ job'.pc = "routes"
      /\ UNCHANGED <<profile, files, gw, snap, reviewed, picked, overtaken>>
  BY <1>0, Advanced DEF StageRunning
<1>2. /\ job.op \in OpIds /\ ops[job.op].kind = "apply" /\ Unresolved(job.op)
      /\ Begun(job.op) /\ \A p \in OpIds : Begun(p) => p = job.op
      /\ ~overtaken => recoveryOp = 0
  BY <1>0, SagaRow, SagaBegun DEF Drainable
<1>3. /\ ops'[job.op].status = "running" /\ ops'[job.op].kind = "apply"
      /\ ops'[job.op].code = ops[job.op].code /\ ops'[job.op].rev = ops[job.op].rev
      /\ recoveryOp' = recoveryOp
      /\ \A p \in OpIds : p # job.op => ops'[p] = ops[p]
  BY <1>2, StageRow, StatusNames DEF StageRunning, Before, TypeInv, TypeOK
<1>4. \A p \in OpIds : Begun(p)' <=> p = job.op
  BY <1>1, <1>2, <1>3, BegunMeansNext, BegunSame
<1>5. job.op \in Running' /\ Applied' = Applied
  BY <1>1, <1>2, <1>3 DEF Running, Applied
<1>6. SnapRows' /\ OldestFirst'
  BY <1>0, <1>1, <1>2, <1>3, RowsKept DEF Before, ApplyInv, Unresolved
<1>7. SagaOnRecord'
  BY <1>0, <1>1, <1>3 DEF Before, ApplyInv, SagaOnRecord, FirstSteps, RestoreSteps,
     RestoreFiles, RebaseSteps
<1>8. CandIsReviewed'
  BY <1>0, <1>1, <1>3 DEF Before, ApplyInv, CandIsReviewed, Code, Expected
<1>9. Rolled' /\ Undone'
  BY <1>1 DEF Rolled, Undone, WriteSteps, UndoneSteps, RebaseSteps
<1>10. Settled'
  BY <1>2, <1>4 DEF Settled
<1>11. WayBack'
  BY <1>1, <1>2, <1>3, <1>4, <1>5 DEF Before, ApplyInv, WayBack
<1> QED
  BY <1>6, <1>7, <1>8, <1>9, <1>10, <1>11 DEF ApplyInv

(* While the rollout is at work its operation is running, and whatever it     *)
(* writes or restarts is accounted for.                                       *)
LEMMA ApplyRolls ==
  ASSUME Before, job.pc \in WriteSteps, job'.pc \in WriteSteps \ {"routes"},
         UNCHANGED <<profile, ops, recoveryOp, snap, reviewed, picked, overtaken>>,
         job'.op = job.op, job'.target = job.target, job'.mode = job.mode,
         job'.fresh = job.fresh, job'.cand = job.cand, Rolled'
  PROVE  ApplyInv'
<1>0. job.pc \in ApplySteps /\ job.pc \in Working /\ job.mode # "recover"
  BY StepSets, SagaApplies
<1>1. /\ job.op \in OpIds /\ Begun(job.op)
      /\ job.op \in Running
      /\ ~overtaken => recoveryOp = 0
  BY <1>0, SagaRow, SagaBegun DEF Drainable, Running, Before, ApplyInv, SagaOnRecord
<1>2. /\ \A p \in OpIds : Begun(p)' <=> Begun(p)
      /\ Running' = Running /\ Applied' = Applied
  BY BegunSame DEF Running, Applied
<1>3. SnapRows' /\ OldestFirst'
  BY <1>0, RowsKept DEF Before, ApplyInv, Unresolved
<1>4. SagaOnRecord'
  BY <1>0 DEF Before, ApplyInv, SagaOnRecord, FirstSteps, WriteSteps, RestoreSteps,
     RestoreFiles, RebaseSteps
<1>5. CandIsReviewed'
  <2>1. job.pc \in ApplySteps \ {"preview"}
    BY <1>0 DEF WriteSteps
  <2> QED
    BY <2>1 DEF Before, ApplyInv, CandIsReviewed, Code, Expected
<1>6. Undone'
  BY DEF Undone, WriteSteps, UndoneSteps, RebaseSteps
<1>7. Settled'
  BY <1>1, <1>2 DEF Settled
<1>8. WayBack'
  BY <1>0, <1>1, <1>2 DEF Before, ApplyInv, WayBack
<1> QED
  BY <1>3, <1>4, <1>5, <1>6, <1>7, <1>8 DEF ApplyInv

LEMMA ApplyWritesRoutes ==
  ASSUME Before, WriteRoutes
  PROVE  ApplyInv'
<1>1. job.pc = "routes" /\ job \in Jobs /\ files \in Files
  BY DEF WriteRoutes, WriteFile, Before, TypeInv, TypeOK
<1>2. /\ job'.op = job.op /\ job'.target = job.target /\ job'.mode = job.mode
      /\ job'.fresh = job.fresh /\ job'.cand = job.cand /\ job'.pc = "override"
      /\ UNCHANGED <<profile, ops, recoveryOp, gw, snap, reviewed, picked, overtaken>>
  BY <1>1, Advanced DEF WriteRoutes, WriteFile
<1>3. files'.routes = job.cand
  BY <1>1 DEF WriteRoutes, WriteFile, Files
<1>4. Rolled'
  BY <1>2, <1>3 DEF Rolled
<1> QED
  BY <1>1, <1>2, <1>4, ApplyRolls DEF WriteSteps

(* A recreated instance runs with what the files hold. *)
LEMMA RecreatedServes ==
  ASSUME TypeOK
  PROVE  /\ Recreated(1, TRUE) =>
              gw'[1].up /\ gw'[1].view.routes = files.routes /\ gw'[2] = gw[2]
         /\ Recreated(2, TRUE) =>
              gw'[2].up /\ gw'[2].view.routes = files.routes /\ gw'[1] = gw[1]
<1>1. ViewOf(files).routes = files.routes
  BY DEF ViewOf
<1>2. gw \in [1..2 -> [up : BOOLEAN, view : View]]
  BY DEF TypeOK, Instances
<1>3. ASSUME Recreated(1, TRUE)
      PROVE  gw'[1].up /\ gw'[1].view.routes = files.routes /\ gw'[2] = gw[2]
  <2>1. gw'[1] = [up |-> TRUE, view |-> ViewOf(files)] /\ gw'[2] = gw[2]
    BY <1>2, <1>3 DEF Recreated
  <2> QED
    BY <1>1, <2>1
<1>4. ASSUME Recreated(2, TRUE)
      PROVE  gw'[2].up /\ gw'[2].view.routes = files.routes /\ gw'[1] = gw[1]
  <2>1. gw'[2] = [up |-> TRUE, view |-> ViewOf(files)] /\ gw'[1] = gw[1]
    BY <1>2, <1>4 DEF Recreated
  <2> QED
    BY <1>1, <2>1
<1> QED
  BY <1>3, <1>4

LEMMA TwoInstances ==
  /\ 1 \in Instances /\ 2 \in Instances
  /\ \A i \in Instances : i = 1 \/ i = 2
BY DEF Instances

LEMMA RollNames ==
  /\ RollIndex["roll1"] = 1 /\ RollIndex["roll2"] = 2
  /\ RollIndex["reroll1"] = 1 /\ RollIndex["reroll2"] = 2
BY DEF RollIndex

LEMMA ApplyRollsOut ==
  ASSUME Before, RollInstance, job.pc \in {"roll1", "roll2"}
  PROVE  ApplyInv'
<1>1. job \in Jobs /\ TypeOK /\ job.pc \in WriteSteps
  BY DEF Before, TypeInv, TypeOK, WriteSteps
<1>2. /\ job'.op = job.op /\ job'.target = job.target /\ job'.mode = job.mode
      /\ job'.fresh = job.fresh /\ job'.cand = job.cand
      /\ job'.pc = IF job.pc = "roll1" THEN "roll2" ELSE "register"
      /\ UNCHANGED <<profile, ops, recoveryOp, files, snap, reviewed, picked, overtaken>>
  BY <1>1, Advanced DEF RollInstance, NextRoll
<1>3. files.routes = job.cand
  BY DEF Before, ApplyInv, Rolled, WriteSteps
<1>4. Rolled'
  <2>1. CASE job.pc = "roll1"
    <3>0. Recreated(1, TRUE)
      BY <2>1, RollNames DEF RollInstance
    <3>1. gw'[1].up /\ gw'[1].view.routes = files.routes
      BY <1>1, <3>0, RecreatedServes, TwoInstances
    <3> QED
      BY <1>2, <1>3, <2>1, <3>1 DEF Rolled, Serves
  <2>2. CASE job.pc = "roll2"
    <3>0. Recreated(2, TRUE)
      BY <2>2, RollNames DEF RollInstance
    <3>1. gw'[2].up /\ gw'[2].view.routes = files.routes /\ gw'[1] = gw[1]
      BY <1>1, <3>0, RecreatedServes, TwoInstances
    <3>2. Serves(1, job.cand)
      BY <2>2 DEF Before, ApplyInv, Rolled
    <3> QED
      BY <1>2, <1>3, <2>2, <3>1, <3>2 DEF Rolled, AllServe, Serves
  <2> QED
    BY <2>1, <2>2
<1>5. job'.pc \in WriteSteps \ {"routes"}
  BY <1>2 DEF WriteSteps
<1> QED
  BY <1>1, <1>2, <1>4, <1>5, ApplyRolls

LEMMA ApplyCommits ==
  ASSUME Before, StoreTypeOK', CommitApply
  PROVE  ApplyInv'
<1>1. /\ job.pc = "commit" /\ job \in Jobs /\ job.pc \in WriteSteps
      /\ job.pc \in ApplySteps \ {"preview"}
  BY DEF CommitApply, Before, TypeInv, TypeOK, WriteSteps, ApplySteps
<1>2. job.mode # "recover" /\ job'.pc = "refresh"
  BY <1>1, SagaApplies, Advanced DEF CommitApply
<1>3. files.routes = job.cand /\ AllServe(job.cand)
  BY <1>1 DEF Before, ApplyInv, Rolled
<1>4. job.cand = [c \in Codes |-> IF c = Code THEN Expected ELSE profile[c].applied]
  BY <1>1 DEF Before, ApplyInv, CandIsReviewed
<1>5. Applied' = [c \in Codes |-> IF c = Code THEN Expected ELSE profile[c].applied]
  <2>1. profile \in [Codes -> ProfileRow] /\ profile' = [profile EXCEPT ![Code].applied = Expected]
    BY DEF Before, TypeInv, TypeOK, StoreTypeOK, CommitApply
  <2>2. \A c \in Codes : profile'[c].applied = IF c = Code THEN Expected ELSE profile[c].applied
    BY <2>1 DEF ProfileRow
  <2> QED
    BY <2>2 DEF Applied
<1>6. job'.pc \notin Working
  BY <1>2, StepsOutside
<1> QED
  BY <1>1, <1>2, <1>3, <1>4, <1>5, <1>6, ApplyEnds DEF CommitApply

-----------------------------------------------------------------------------
(* The way back. *)

(* A restore puts back what the snapshot saved and restarts the instances on  *)
(* what the files hold: while an apply is undone, that is what is applied.    *)
LEMMA ApplyRestores ==
  ASSUME Before, job.pc \in RestoreSteps, job'.pc \in RestoreSteps \cup RebaseSteps,
         UNCHANGED <<profile, ops, recoveryOp, snap, reviewed, picked, overtaken>>,
         job'.op = job.op, job'.target = job.target, job'.mode = job.mode,
         job'.fresh = job.fresh, job'.cand = job.cand,
         files'.routes \in {files.routes, Saved.routes},
         \A i \in Instances : \/ gw'[i] = gw[i]
                              \/ gw'[i].up /\ gw'[i].view.routes = files.routes,
         Undone'
  PROVE  ApplyInv'
<1>0. /\ job.pc \in Working /\ job'.pc \in Working
      /\ job'.pc \notin ApplySteps \cup FirstSteps \cup WriteSteps
      /\ job.pc \notin CloseSteps
  BY StepSets DEF RestoreSteps, RestoreFiles, RebaseSteps, ApplySteps, CloseSteps
<1>1. /\ \A p \in OpIds : Begun(p)' <=> Begun(p)
      /\ Running' = Running /\ Applied' = Applied
  BY BegunSame DEF Running, Applied
<1>2. SnapRows' /\ OldestFirst'
  BY <1>0, RowsKept DEF Before, ApplyInv, Unresolved
<1>3. SagaOnRecord'
  BY <1>0, StepSets DEF Before, ApplyInv, SagaOnRecord, FirstSteps
<1>4. CandIsReviewed' /\ Rolled'
  BY <1>0, StepSets DEF CandIsReviewed, Rolled, WriteSteps
<1>5. CASE job.mode = "recover"
  <2>1. recoveryOp = job.target /\ recoveryOp # 0
    BY <1>0, <1>5, StoreAssumption
       DEF Before, PointerInv, RecoveryIsOpen, TypeInv, JobOK, CloseSteps, OpIds
  <2>2. Settled'
    BY <2>1 DEF Settled
  <2>3. WayBack'
    BY <1>1, <1>5, <2>1 DEF Before, ApplyInv, WayBack
  <2> QED
    BY <1>2, <1>3, <1>4, <2>2, <2>3 DEF ApplyInv
<1>6. CASE job.mode # "recover"
  <2>1. /\ job.op \in OpIds /\ Begun(job.op) /\ job.target = job.op
        /\ ~overtaken => recoveryOp = 0
    BY <1>0, <1>6, SagaRow, SagaBegun
  <2>2. Settled'
    BY <1>1, <2>1 DEF Settled
  <2>3. ~overtaken => Saved.routes = Applied
    BY <2>1 DEF Before, ApplyInv, WayBack, Saved
  <2>4. ~overtaken /\ Running = {} => files'.routes = Applied /\ AllServe(Applied)'
    BY <1>1, <2>1, <2>3, TwoInstances DEF Before, ApplyInv, WayBack, AllServe, Serves
  <2>5. WayBack'
    BY <1>1, <2>1, <2>4 DEF Before, ApplyInv, WayBack
  <2> QED
    BY <1>2, <1>3, <1>4, <2>2, <2>5 DEF ApplyInv
<1> QED
  BY <1>5, <1>6

LEMMA ApplyPutsRoutesBack ==
  ASSUME Before, WriteFile("undoRoutes", "undoRegistry",
                           [files EXCEPT !.routes = Saved.routes, !.ext = Saved.ext])
  PROVE  ApplyInv'
<1>1. job.pc = "undoRoutes" /\ job \in Jobs /\ files \in Files
  BY DEF WriteFile, Before, TypeInv, TypeOK
<1>2. /\ job'.op = job.op /\ job'.target = job.target /\ job'.mode = job.mode
      /\ job'.fresh = job.fresh /\ job'.cand = job.cand /\ job'.pc = "undoRegistry"
      /\ UNCHANGED <<profile, ops, recoveryOp, gw, snap, reviewed, picked, overtaken>>
  BY <1>1, Advanced DEF WriteFile
<1>3. files'.routes = Saved.routes
  BY <1>1 DEF WriteFile, Files
<1>4. Undone'
  BY <1>2, <1>3 DEF Undone, Saved, RebaseSteps
<1> QED
  BY <1>1, <1>2, <1>3, <1>4, ApplyRestores DEF RestoreSteps, RestoreFiles

LEMMA ApplyRollsBack ==
  ASSUME Before, RollInstance, job.pc \in {"reroll1", "reroll2"}
  PROVE  ApplyInv'
<1>1. job \in Jobs /\ TypeOK
  BY DEF Before, TypeInv, TypeOK
<1>2. /\ job'.op = job.op /\ job'.target = job.target /\ job'.mode = job.mode
      /\ job'.fresh = job.fresh /\ job'.cand = job.cand
      /\ job'.pc = IF job.pc = "reroll1" THEN "reroll2" ELSE "rebase"
      /\ UNCHANGED <<profile, ops, recoveryOp, files, snap, reviewed, picked, overtaken>>
  BY <1>1, Advanced DEF RollInstance, NextRoll
<1>3. files.routes = Saved.routes
  BY DEF Before, ApplyInv, Undone, UndoneSteps
<1>4. CASE job.pc = "reroll1"
  <2>1. Recreated(1, TRUE)
    BY <1>4, RollNames DEF RollInstance
  <2>2. gw'[1].up /\ gw'[1].view.routes = files.routes /\ gw'[2] = gw[2]
    BY <1>1, <2>1, RecreatedServes, TwoInstances
  <2>3. Undone'
    BY <1>2, <1>3, <1>4, <2>2 DEF Undone, Serves, Saved, RebaseSteps
  <2> QED
    BY <1>2, <1>4, <2>2, <2>3, ApplyRestores, TwoInstances DEF RestoreSteps
<1>5. CASE job.pc = "reroll2"
  <2>1. Recreated(2, TRUE)
    BY <1>5, RollNames DEF RollInstance
  <2>2. gw'[2].up /\ gw'[2].view.routes = files.routes /\ gw'[1] = gw[1]
    BY <1>1, <2>1, RecreatedServes, TwoInstances
  <2>3. Serves(1, Saved.routes)
    BY <1>5 DEF Before, ApplyInv, Undone
  <2>4. Undone'
    BY <1>2, <1>3, <1>5, <2>2, <2>3 DEF Undone, AllServe, Serves, Saved, RebaseSteps
  <2> QED
    BY <1>2, <1>5, <2>2, <2>4, ApplyRestores, TwoInstances DEF RestoreSteps, RebaseSteps
<1> QED
  BY <1>4, <1>5

(* A failure after the snapshot turns round: what may have been done to an    *)
(* instance was done by the rollout of the running operation.                 *)
LEMMA ApplyTurnsRound ==
  ASSUME Before, job.pc \in ApplySteps, RollDebris,
         ~(job.fresh /\ snap[job.op].state # "complete"),
         job' = [job EXCEPT !.mode = "undo", !.pc = "undoRoutes"],
         UNCHANGED <<profile, ops, recoveryOp, files, snap, reviewed, picked, overtaken>>
  PROVE  ApplyInv'
<1>0. job.mode # "recover" /\ job.pc \in Working /\ job \in Jobs
  BY SagaApplies DEF Before, TypeInv, TypeOK
<1>1. /\ job'.op = job.op /\ job'.target = job.target /\ job'.mode = "undo"
      /\ job'.fresh = job.fresh /\ job'.cand = job.cand /\ job'.pc = "undoRoutes"
  BY <1>0 DEF Jobs
<1>2. /\ job.op \in OpIds /\ job.target = job.op /\ ops[job.op].kind = "apply"
      /\ ~overtaken => recoveryOp = 0
  BY <1>0, SagaRow DEF Drainable
<1>3. snap[job.op].state = "complete" /\ Begun(job.op)
  <2>1. CASE job.pc \in WriteSteps
    BY <1>0, <2>1, SagaBegun
  <2>2. CASE job.pc \in FirstSteps
    <3>1. job.fresh /\ ops[job.op].status = "queued"
      BY <2>2 DEF Before, ApplyInv, SagaOnRecord
    <3> QED
      BY <1>2, <3>1, BegunMeans DEF Before, TypeInv, TypeOK
  <2> QED
    BY <2>1, <2>2, StepSets
<1>4. /\ \A p \in OpIds : Begun(p)' <=> Begun(p)
      /\ Running' = Running /\ Applied' = Applied
  BY BegunSame DEF Running, Applied
<1>5. SnapRows' /\ OldestFirst'
  BY <1>0, <1>1, RowsKept DEF Before, ApplyInv, Unresolved
<1>6. SagaOnRecord'
  BY <1>1, <1>2, <1>3 DEF SagaOnRecord, FirstSteps, WriteSteps
<1>7. CandIsReviewed' /\ Rolled' /\ Undone'
  BY <1>1 DEF CandIsReviewed, Rolled, Undone, ApplySteps, WriteSteps, UndoneSteps, RebaseSteps
<1>8. Settled'
  BY <1>2, <1>3, <1>4 DEF Settled
<1>9. Running = {} => UNCHANGED gw
  <2>1. job.pc \in WriteSteps => job.op \in Running
    BY <1>2 DEF Before, ApplyInv, SagaOnRecord, Running
  <2>2. job.pc \notin WriteSteps => job.pc \notin DOMAIN RollIndex
    BY DEF WriteSteps, ApplySteps, RollIndex
  <2> QED
    BY <2>1, <2>2 DEF RollDebris
<1>10. WayBack'
  BY <1>0, <1>1, <1>2, <1>3, <1>4, <1>9 DEF Before, ApplyInv, WayBack, AllServe, Serves
<1> QED
  BY <1>5, <1>6, <1>7, <1>8, <1>10 DEF ApplyInv

LEMMA ApplyGivesUp ==
  ASSUME Before, StoreTypeOK', ApplyFails
  PROVE  ApplyInv'
<1>1. CASE job.fresh /\ snap[job.op].state # "complete"
  <2>1. job.pc \in ApplySteps /\ Stage(job.op, "failed") /\ job' = Idle
    BY <1>1 DEF ApplyFails, Leave
  <2>2. /\ job.op \in OpIds /\ job.op \in Drainable
    BY <2>1, SagaApplies, SagaRow
  <2>3. job.pc \in FirstSteps
    BY <1>1, <2>1, SagaApplies, SagaBegun, StepSets
  <2>4. ops[job.op].status = "queued" /\ ~Begun(job.op)
    BY <1>1, <2>2, <2>3, BegunMeans DEF Before, ApplyInv, SagaOnRecord, TypeInv, TypeOK
  <2>5. UNCHANGED gw
    BY <2>3 DEF ApplyFails, RollDebris, RollIndex, FirstSteps
  <2>6. job'.pc \notin Working
    BY <2>1, IdleType, StepsOutside
  <2> QED
    BY <2>1, <2>2, <2>4, <2>5, <2>6, ApplyQuietEnd DEF ApplyFails
<1>2. CASE ~(job.fresh /\ snap[job.op].state # "complete")
  BY <1>2, ApplyTurnsRound DEF ApplyFails
<1> QED
  BY <1>1, <1>2

LEMMA ApplyRebases ==
  ASSUME Before, StoreTypeOK', Rebase
  PROVE  ApplyInv'
<1>0. job.pc = "rebase" /\ job \in Jobs
  BY DEF Rebase, Before, TypeInv, TypeOK
<1>1. CASE job.mode \in {"undo", "recover"}
  <2>1. /\ job'.op = job.op /\ job'.target = job.target /\ job'.mode = job.mode
        /\ job'.fresh = job.fresh /\ job'.cand = job.cand /\ job'.pc \in {"fail", "unlock"}
        /\ UNCHANGED <<profile, ops, recoveryOp, files, gw, snap, reviewed, picked, overtaken>>
    BY <1>0, <1>1, Advanced DEF Rebase
  <2> QED
    BY <1>0, <2>1, ApplyQuiet DEF Before, QuietSteps
<1>2. CASE job.mode = "restart"
  <2>1. Stage(job.op, "failed") /\ job' = Idle
    BY <1>2 DEF Rebase, Leave
  <2>2. job.mode # "recover" /\ job.pc \in RebaseSteps /\ job.pc \in UndoneSteps
    BY <1>0, <1>2 DEF RebaseSteps, UndoneSteps
  <2>3. files.routes = Saved.routes /\ AllServe(Saved.routes)
    BY <2>2 DEF Before, ApplyInv, Undone
  <2>4. Applied' = Applied /\ (~overtaken => Saved.routes = Applied)
    <3>1. job.pc \in Working /\ Begun(job.op)
      BY <2>2, SagaBegun
    <3>2. job.target = job.op /\ job.op \in OpIds
      BY <2>2, <3>1, SagaRow
    <3>3. Applied' = Applied
      BY DEF Rebase, Applied
    <3> QED
      BY <3>1, <3>2, <3>3 DEF Before, ApplyInv, WayBack, Saved
  <2>5. job'.pc \notin Working
    BY <2>1, IdleType, StepsOutside
  <2> QED
    BY <2>1, <2>2, <2>3, <2>4, <2>5, ApplyEnds DEF Rebase
<1> QED
  BY <1>1, <1>2 DEF Rebase

LEMMA ApplyUndone ==
  ASSUME Before, StoreTypeOK', StageRestored
  PROVE  ApplyInv'
<1>1. /\ job.pc = "fail" /\ job.pc \in RebaseSteps /\ job.pc \in UndoneSteps
      /\ Stage(job.op, "failed") /\ job' = Idle
  BY DEF StageRestored, Leave, RebaseSteps, UndoneSteps
<1>2. job.mode # "recover"
  BY <1>1 DEF Before, PointerInv, ModeOfStep
<1>3. files.routes = Saved.routes /\ AllServe(Saved.routes)
  BY <1>1 DEF Before, ApplyInv, Undone
<1>4. Applied' = Applied /\ (~overtaken => Saved.routes = Applied)
  <2>1. job.pc \in Working /\ Begun(job.op)
    BY <1>1, <1>2, SagaBegun
  <2>2. job.target = job.op /\ job.op \in OpIds
    BY <1>2, <2>1, SagaRow
  <2>3. Applied' = Applied
    BY DEF StageRestored, Applied
  <2> QED
    BY <2>1, <2>2, <2>3 DEF Before, ApplyInv, WayBack, Saved
<1>5. job'.pc \notin Working
  BY <1>1, IdleType, StepsOutside
<1> QED
  BY <1>1, <1>2, <1>3, <1>4, <1>5, ApplyEnds DEF StageRestored

LEMMA ApplyRestoreFails ==
  ASSUME Before, StoreTypeOK', RestoreFails
  PROVE  ApplyInv'
<1>0. /\ job.pc \in RestoreSteps \cup RebaseSteps \cup CloseSteps /\ job.pc \in Working
      /\ job' = Idle /\ job'.pc \notin Working
  BY IdleType, StepsOutside, StepSets DEF RestoreFails, Leave
<1>1. CASE job.mode = "recover"
  <2>1. /\ Stage(job.op, "failed") /\ job.op \in OpIds
        /\ ops[job.op].kind = "recover" /\ ops[job.op].status # "none"
    BY <1>0, <1>1 DEF RestoreFails, Before, TypeInv, JobOK, PointerInv, RecoveryIsOpen
  <2>2. ~Begun(job.op)
    BY <2>1, BegunMeans DEF Before, TypeInv, TypeOK
  <2>3. UNCHANGED gw \/ recoveryOp # 0
    <3>1. CASE job.pc \in {"reroll1", "reroll2"}
      <4>1. recoveryOp = job.target /\ job.target \in 1..MaxOps
        BY <1>0, <1>1, <3>1 DEF Before, PointerInv, RecoveryIsOpen, TypeInv, JobOK, OpIds
      <4> QED
        BY <4>1, StoreAssumption
    <3>2. CASE job.pc \notin {"reroll1", "reroll2"}
      BY <1>0, <3>2 DEF RestoreFails, RollDebris, RollIndex, RestoreSteps, RestoreFiles,
                        RebaseSteps, CloseSteps
    <3> QED
      BY <3>1, <3>2
  <2> QED
    BY <1>0, <2>1, <2>2, <2>3, ApplyQuietEnd DEF RestoreFails
<1>2. CASE job.mode # "recover"
  <2>1. Stage(job.op, "recovery-required")
    BY <1>2 DEF RestoreFails
  <2>2. job.pc \in RestoreSteps \cup RebaseSteps
    BY <1>0, <1>2 DEF Before, PointerInv, ModeOfStep
  <2>3. Begun(job.op) /\ job.op \in OpIds
    BY <1>0, <1>2, <2>2, SagaBegun, SagaRow
  <2>4. \A d \in Drainers : picked'[d] \in {0, picked[d]}
    BY DEF RestoreFails
  <2> QED
    BY <1>0, <2>1, <2>3, <2>4, ApplyStuck DEF RestoreFails
<1> QED
  BY <1>1, <1>2

LEMMA ApplyRefused ==
  ASSUME Before, StoreTypeOK', NEW d \in Drainers, RestartRefused(d)
  PROVE  ApplyInv'
<1>1. /\ picked[d] \in OpIds /\ ops[picked[d]].kind = "apply" /\ ops[picked[d]].status = "running"
      /\ Stage(picked[d], "recovery-required")
  BY PickedRows DEF RestartRefused, Before, PointerInv, PickIsOpen
<1>2. Begun(picked[d])
  BY <1>1, BegunMeans DEF Before, TypeInv, TypeOK
<1>3. \A e \in Drainers : picked'[e] \in {0, picked[e]}
  BY DEF RestartRefused, Before, TypeInv, TypeOK
<1>4. job' = Idle /\ job'.pc \notin Working
  BY IdleType, StepsOutside DEF RestartRefused, Unlocked
<1> QED
  BY <1>1, <1>2, <1>3, <1>4, ApplyStuck DEF RestartRefused

-----------------------------------------------------------------------------
(* Recovery. *)

LEMMA ApplyRecovers ==
  ASSUME Before, NEW o \in OpIds, RecoverBegin(o)
  PROVE  ApplyInv'
<1>1. /\ job'.mode = "recover" /\ job'.pc = "undoRoutes"
      /\ recoveryOp # 0
      /\ UNCHANGED <<profile, ops, recoveryOp, files, gw, snap, reviewed, picked, overtaken>>
  BY DEF RecoverBegin, Idle
<1>2. /\ \A p \in OpIds : Begun(p)' <=> Begun(p)
      /\ Running' = Running /\ Applied' = Applied
  BY <1>1, BegunSame DEF Running, Applied
<1>3. SnapRows' /\ OldestFirst'
  BY <1>1, RowsKept DEF Before, ApplyInv, Unresolved
<1>4. SagaOnRecord'
  BY <1>1 DEF SagaOnRecord, FirstSteps, WriteSteps
<1>5. CandIsReviewed' /\ Rolled' /\ Undone'
  BY <1>1 DEF CandIsReviewed, Rolled, Undone, ApplySteps, WriteSteps, UndoneSteps, RebaseSteps
<1>6. Settled'
  BY <1>1 DEF Settled
<1>7. WayBack'
  BY <1>1, <1>2 DEF Before, ApplyInv, WayBack
<1> QED
  BY <1>3, <1>4, <1>5, <1>6, <1>7 DEF ApplyInv

LEMMA ApplyUnlocks ==
  ASSUME Before, RecoverUnlock
  PROVE  ApplyInv'
<1>0. /\ job.pc = "unlock" /\ job \in Jobs /\ job.pc \in CloseSteps /\ job.pc \in Working
      /\ job.pc \in UndoneSteps
  BY DEF RecoverUnlock, Before, TypeInv, TypeOK, CloseSteps, Working, UndoneSteps
<1>1. /\ job'.op = job.op /\ job'.target = job.target /\ job'.mode = "recover"
      /\ job'.fresh = job.fresh /\ job'.cand = job.cand /\ job'.pc = "closeTarget"
      /\ job.mode = "recover" /\ recoveryOp' = 0
      /\ UNCHANGED <<profile, ops, files, gw, snap, reviewed, picked, overtaken>>
  BY <1>0, Advanced DEF RecoverUnlock, Before, PointerInv, ModeOfStep
<1>2. recoveryOp = job.target /\ job.target # 0
  BY <1>0, <1>1, StoreAssumption DEF Before, PointerInv, RecoveryIsOpen, TypeInv, JobOK, OpIds
<1>3. files.routes = Saved.routes /\ AllServe(Saved.routes)
  BY <1>0 DEF Before, ApplyInv, Undone
<1>4. /\ \A p \in OpIds : Begun(p)' <=> Begun(p)
      /\ Running' = Running /\ Applied' = Applied
  BY <1>1, BegunSame DEF Running, Applied
<1>5. SnapRows' /\ OldestFirst'
  BY <1>1, RowsKept DEF Before, ApplyInv, Unresolved
<1>6. SagaOnRecord'
  BY <1>1 DEF SagaOnRecord, FirstSteps, WriteSteps
<1>7. CandIsReviewed' /\ Rolled' 
  BY <1>1 DEF CandIsReviewed, Rolled, ApplySteps, WriteSteps
<1>8. Undone' /\ Settled'
  BY <1>1, <1>3 DEF Undone, Settled, AllServe, Serves, Saved
<1>9. WayBack'
  BY <1>1, <1>2, <1>3, <1>4 DEF Before, ApplyInv, WayBack, AllServe, Serves, Saved
<1> QED
  BY <1>5, <1>6, <1>7, <1>8, <1>9 DEF ApplyInv

LEMMA ApplyCloses ==
  ASSUME Before, StoreTypeOK', RecoverCloseTarget \/ RecoverCloseSelf
  PROVE  ApplyInv'
<1>1. CASE RecoverCloseTarget
  <2>1. job.pc = "closeTarget" /\ job \in Jobs /\ job.pc \in CloseSteps /\ job.pc \in Working
    BY <1>1 DEF RecoverCloseTarget, Before, TypeInv, TypeOK, CloseSteps, Working
  <2>2. job.mode = "recover" /\ job.target \in OpIds
        /\ ops[job.target].status = "recovery-required"
    BY <2>1 DEF Before, PointerInv, ModeOfStep, RecoveryIsOpen, TypeInv, JobOK
  <2>3. ~Begun(job.target)
    BY <2>2, BegunMeans DEF Before, TypeInv, TypeOK
  <2>4. job'.pc = "closeSelf" /\ job'.mode = "recover" /\ Stage(job.target, "failed")
    BY <1>1, <2>1, <2>2, Advanced DEF RecoverCloseTarget
  <2> QED
    BY <1>1, <2>1, <2>2, <2>3, <2>4, ApplyQuietEnd DEF RecoverCloseTarget
<1>2. CASE RecoverCloseSelf
  <2>1. job.pc = "closeSelf" /\ job.pc \in CloseSteps /\ job.pc \in Working
    BY <1>2 DEF RecoverCloseSelf, CloseSteps, Working
  <2>2. /\ job.mode = "recover" /\ job.op \in OpIds
        /\ ops[job.op].kind = "recover" /\ ops[job.op].status # "none"
    BY <2>1 DEF Before, PointerInv, ModeOfStep, RecoveryIsOpen, TypeInv, JobOK
  <2>3. ~Begun(job.op)
    BY <2>2, BegunMeans DEF Before, TypeInv, TypeOK
  <2>4. Stage(job.op, "recovered") /\ job'.pc \notin Working
    BY <1>2, IdleType, StepsOutside DEF RecoverCloseSelf, Leave
  <2> QED
    BY <1>2, <2>2, <2>3, <2>4, ApplyQuietEnd DEF RecoverCloseSelf
<1> QED
  BY <1>1, <1>2

-----------------------------------------------------------------------------
(* The invariant. *)

LEMMA InitApplyInv == Init => ApplyInv
<1> SUFFICES ASSUME Init PROVE ApplyInv
  OBVIOUS
<1>1. \A o \in OpIds : ops[o].status = "none" /\ snap[o].state = "none"
  BY DEF Init, StoreInit, NoOp, NoSnapshot
<1>2. Running = {} /\ Drainable = {}
  BY <1>1 DEF Running, Drainable, Unresolved
<1>4. \A o \in OpIds : ~Begun(o)
  BY <1>1, SeenOf DEF Begun
<1>5. /\ job.pc = "idle"
      /\ \A d \in Drainers : picked[d] = 0
      /\ recoveryOp = 0
  BY DEF Init, StoreInit, Idle
<1>6. SnapRows /\ OldestFirst
  BY <1>1, <1>2, <1>5, StepsOutside DEF SnapRows, OldestFirst
<1>7. SagaOnRecord /\ CandIsReviewed /\ Rolled /\ Undone
  BY <1>5 DEF SagaOnRecord, CandIsReviewed, Rolled, Undone, Working, FirstSteps, WriteSteps,
              UndoneSteps, ApplySteps, RestoreSteps, RestoreFiles, RebaseSteps, CloseSteps
<1>8. files.routes = Applied
  BY DEF Init, StoreInit, NoFiles, Nothing, Applied
<1>9. AllServe(files.routes)
  BY DEF Init, AllServe, Serves, ViewOf, Instances
<1>10. Settled /\ WayBack
  BY <1>2, <1>4, <1>5, <1>8, <1>9 DEF Settled, WayBack
<1> QED
  BY <1>6, <1>7, <1>10 DEF ApplyInv

LEMMA StepApplyInv ==
  ASSUME Drainers = {"serve"}, Before, [Next]_vars
  PROVE  ApplyInv'
<1>0. /\ TypeInv /\ ApplyInv /\ job \in Jobs /\ files \in Files
  BY DEF Before, TypeInv, TypeOK
<1>0a. StoreTypeOK'
  BY StepTypeInv DEF Before, TypeInv, TypeOK
<1>1. CASE \E c \in Codes : SaveDraft(c)
  <2>1. PICK c \in Codes : SaveDraft(c)
    BY <1>1
  <2>2. \A x \in Codes : profile'[x].applied = profile[x].applied
    <3>1. profile \in [Codes -> ProfileRow]
      BY <1>0 DEF TypeInv, TypeOK, StoreTypeOK
    <3>2. profile' = [profile EXCEPT ![c] = [profile[c] EXCEPT !.rev = profile[c].rev + 1]]
      BY <2>1, <3>1 DEF SaveDraft, Save
    <3>3. [profile[c] EXCEPT !.rev = profile[c].rev + 1].applied = profile[c].applied
      BY <3>1 DEF ProfileRow
    <3> QED
      BY <3>1, <3>2, <3>3
  <2> QED
    BY <1>0, <2>1, <2>2, ApplyFrame DEF SaveDraft, Save, deployVars
<1>2. CASE Bootstrap \/ Reconcile
  BY <1>0, <1>2, ApplyFrame DEF Bootstrap, Reconcile
<1>3. CASE OutsideEdit
  <2>1. files'.routes = files.routes
    BY <1>0, <1>3 DEF OutsideEdit, Files
  <2> QED
    BY <1>0, <1>3, <2>1, ApplyFrame DEF OutsideEdit
<1>4. CASE OtherTakes \/ OtherReleases
  BY <1>0, <1>4, ApplyFrame DEF OtherTakes, OtherReleases
<1>5. CASE UNCHANGED vars
  BY <1>0, <1>5, ApplyFrame DEF vars
<1>6. CASE \E c \in Codes : RequestApply(c)
  <2>1. PICK c \in Codes : RequestApply(c)
    BY <1>6
  <2>2. \A o \in OpIds : o # lastOp + 1 => reviewed'[o] = reviewed[o]
    BY <1>0, <2>1 DEF RequestApply, TypeInv, TypeOK
  <2> QED
    BY <1>0a, <2>1, <2>2, ApplyEnqueue DEF RequestApply
<1>7. CASE \E c \in Codes : RequestRecover(c)
  BY <1>0a, <1>7, ApplyEnqueue DEF RequestRecover, deployVars
<1>8. CASE \E s \in Secrets : ImportBegin(s)
  <2>1. job'.pc \notin Working
    BY <1>8, IdleType, StepsOutside DEF ImportBegin, Jobs
  <2> QED
    BY <1>0, <1>8, <2>1, ApplyFrame DEF ImportBegin
<1>9. CASE ImportWrite
  <2>1. job'.pc \notin Working /\ files'.routes = files.routes
    BY <1>0, <1>9, Advanced, StepsOutside DEF ImportWrite, Files
  <2> QED
    BY <1>0, <1>9, <2>1, ApplyFrame DEF ImportWrite
<1>10. CASE ImportAdopt \/ FinishApply
  <2>1. job'.pc \notin Working
    BY <1>10, IdleType, StepsOutside DEF ImportAdopt, FinishApply
  <2> QED
    BY <1>0, <1>10, <2>1, ApplyFrame DEF ImportAdopt, FinishApply
<1>11. CASE \E d \in Drainers : DrainSelect(d)
  BY <1>11, ApplySelect
<1>12. CASE \E d \in Drainers : ApplyDeclined(d)
  <2>1. \A d \in Drainers : picked'[d] \in {0, picked[d]}
    BY <1>0, <1>12 DEF ApplyDeclined, TypeInv, TypeOK
  <2> QED
    BY <1>0, <1>12, <2>1, ApplyFrame DEF ApplyDeclined
<1>13. CASE \E d \in Drainers : Crash(d)
  <2>1. \A d \in Drainers : picked'[d] \in {0, picked[d]}
    BY <1>0, <1>13 DEF Crash, TypeInv, TypeOK
  <2>2. job' = job \/ job'.pc \notin Working
    BY <1>13, IdleType, StepsOutside DEF Crash
  <2> QED
    BY <1>0, <1>13, <2>1, <2>2, ApplyFrame DEF Crash
<1>14. CASE \E d \in Drainers : ApplyBegin(d) \/ RestartBegin(d)
  BY <1>14, ApplyTaken
<1>15. CASE \E d \in Drainers : RestartRefused(d)
  BY <1>0a, <1>15, ApplyRefused
<1>16. CASE \E o \in OpIds : RecoverBegin(o)
  BY <1>16, ApplyRecovers
<1>17. CASE CheckPreview
  BY <1>17, ApplyPreview
<1>18. CASE SnapshotOpen
  BY <1>0a, <1>18, ApplyOpens
<1>19. CASE SnapshotFill
  BY <1>0a, <1>19, ApplyFills
<1>20. CASE StageRunning
  BY <1>0a, <1>20, ApplyStarts
<1>21. CASE WriteRoutes
  BY <1>21, ApplyWritesRoutes
<1>22. CASE WriteOverride \/ ExportRegistry
  <2>1. files'.routes = files.routes
    BY <1>0, <1>22 DEF WriteOverride, ExportRegistry, WriteFile, Files
  <2>2. <<job.pc, job'.pc>> \in QuietSteps
    BY <1>0, <1>22, Advanced DEF WriteOverride, ExportRegistry, WriteFile, QuietSteps
  <2> QED
    BY <1>0, <1>22, <2>1, <2>2, Advanced, ApplyQuiet DEF WriteOverride, ExportRegistry, WriteFile
<1>23. CASE RegisterAgents
  <2>1. <<job.pc, job'.pc>> \in QuietSteps
    BY <1>0, <1>23, Advanced DEF RegisterAgents, QuietSteps
  <2> QED
    BY <1>0, <1>23, <2>1, Advanced, ApplyQuiet DEF RegisterAgents
<1>24. CASE RollInstance
  <2>1. job.pc \in {"roll1", "roll2", "reroll1", "reroll2"}
    BY <1>24 DEF RollInstance, NextRoll
  <2> QED
    BY <1>24, <2>1, ApplyRollsOut, ApplyRollsBack
<1>25. CASE CommitApply
  BY <1>0a, <1>25, ApplyCommits
<1>26. CASE ApplyFails
  BY <1>0a, <1>26, ApplyGivesUp
<1>27. CASE RestoreFile
  <2>1. CASE WriteFile("undoRoutes", "undoRegistry",
                       [files EXCEPT !.routes = Saved.routes, !.ext = Saved.ext])
    BY <2>1, ApplyPutsRoutesBack
  <2>2. CASE \/ WriteFile("undoRegistry", "undoOverride",
                          [files EXCEPT !.registry = Saved.registry])
             \/ WriteFile("undoOverride", "undoEnvironment",
                          [files EXCEPT !.override = Saved.override, !.refs = Saved.refs])
             \/ WriteFile("undoEnvironment", "hostcheck",
                          [files EXCEPT !.environment = Saved.environment])
    <3>1. files'.routes = files.routes
      BY <1>0, <2>2 DEF WriteFile, Files
    <3>2. <<job.pc, job'.pc>> \in QuietSteps
      BY <1>0, <2>2, Advanced DEF WriteFile, QuietSteps
    <3> QED
      BY <1>0, <2>2, <3>1, <3>2, Advanced, ApplyQuiet DEF WriteFile
  <2> QED
    BY <1>27, <2>1, <2>2 DEF RestoreFile
<1>28. CASE CheckHost
  <2>1. <<job.pc, job'.pc>> \in QuietSteps
    BY <1>0, <1>28, Advanced DEF CheckHost, QuietSteps
  <2> QED
    BY <1>0, <1>28, <2>1, Advanced, ApplyQuiet DEF CheckHost
<1>29. CASE Rebase
  BY <1>0a, <1>29, ApplyRebases
<1>30. CASE StageRestored
  BY <1>0a, <1>30, ApplyUndone
<1>31. CASE RestoreFails
  BY <1>0a, <1>31, ApplyRestoreFails
<1>32. CASE RecoverUnlock
  BY <1>32, ApplyUnlocks
<1>33. CASE RecoverCloseTarget \/ RecoverCloseSelf
  BY <1>0a, <1>33, ApplyCloses
<1> QED
  BY <1>1, <1>2, <1>3, <1>4, <1>5, <1>6, <1>7, <1>8, <1>9, <1>10, <1>11, <1>12, <1>13, <1>14,
     <1>15, <1>16, <1>17, <1>18, <1>19, <1>20, <1>21, <1>22, <1>23, <1>24, <1>25, <1>26, <1>27,
     <1>28, <1>29, <1>30, <1>31, <1>32, <1>33
     DEF Next, JobStep, Forward, Backward, Begin

LEMMA ApplyInvMeans == Before => AppliedIsTrue
<1> SUFFICES ASSUME Before PROVE AppliedIsTrue
  OBVIOUS
<1>1. RestoresWhatIsApplied
  <2> SUFFICES ASSUME job.pc \in RestoreSteps, ~overtaken, snap[job.target].state = "complete"
               PROVE  Saved.routes = Applied
    BY DEF RestoresWhatIsApplied, Applied
  <2>1. job.pc \in Working /\ job.pc \notin {"closeTarget", "closeSelf"}
    BY DEF Working, RestoreSteps, RestoreFiles
  <2>2. CASE job.mode = "recover"
    <3>1. recoveryOp = job.target /\ recoveryOp # 0
      BY <2>1, <2>2, StoreAssumption
         DEF Before, PointerInv, RecoveryIsOpen, TypeInv, JobOK, OpIds
    <3> QED
      BY <3>1 DEF Before, ApplyInv, WayBack, Saved
  <2>3. CASE job.mode # "recover"
    <3>1. Begun(job.op) /\ job.target = job.op /\ job.op \in OpIds
      BY <2>1, <2>3, SagaBegun, SagaRow
    <3> QED
      BY <3>1 DEF Before, ApplyInv, WayBack, Saved
  <2> QED
    BY <2>2, <2>3
<1>2. AppliedIsDeployed
  <2> SUFFICES ASSUME AtRest
               PROVE  /\ files.routes = Applied
                      /\ \A i \in Instances : gw[i].up /\ gw[i].view.routes = Applied
    BY DEF AppliedIsDeployed, Applied
  <2>1. files.routes = Applied /\ AllServe(Applied)
    BY DEF Before, ApplyInv, WayBack, AtRest
  <2> QED
    BY <2>1, TwoInstances DEF AllServe, Serves
<1> QED
  BY <1>1, <1>2 DEF AppliedIsTrue

LEMMA StepBefore ==
  ASSUME Drainers = {"serve"}
  PROVE  Before /\ [Next]_vars => Before'
<1>1. Before /\ [Next]_vars => ApplyInv'
  BY StepApplyInv
<1> QED
  BY <1>1, StepTypeInv, StepSnapInv, StepPointerInv DEF Before

(* With one worker draining, "applied" is true of the running gateway: at     *)
(* rest the routes file and both instances hold exactly the applied revisions,*)
(* and what a restore is about to put back is what is applied, wherever the   *)
(* worker crashed and however often.                                          *)
THEOREM AppliedIsWhatRuns ==
  ASSUME Drainers = {"serve"}
  PROVE  Spec => []AppliedIsTrue
<1>1. Init => Before
  BY InitTypeInv, InitSnapInv, InitPointerInv, InitApplyInv DEF Before
<1>2. Before /\ [Next]_vars => Before'
  BY StepBefore
<1> QED
  BY <1>1, <1>2, ApplyInvMeans, PTL DEF Spec

-----------------------------------------------------------------------------
(* Each action of ConnectionApply, from what a step does to the rows and to   *)
(* the instances.                                                             *)

SameSeen      == \A p \in OpIds : Seen(p)' = Seen(p)
SameWishes    == \A p \in OpIds : reviewed'[p].profiles = reviewed[p].profiles
SameWaysBack  == \A p \in OpIds : snap'[p].files.routes = snap[p].files.routes
SameServed    == \A i \in Instances : Served(i)' = Served(i)
Moves(o, from, to) ==
    /\ Seen(o) = from /\ Seen(o)' = to
    /\ \A p \in OpIds : p # o => Seen(p)' = Seen(p)
Restarts(i, mixes) ==
    /\ Served(i)' \in mixes \cup {<<>>}
    /\ \A k \in Instances : k # i => Served(k)' = Served(k)

LEMMA AtomicStutters ==
  ASSUME Applied' = Applied, SameSeen, SameWishes, SameWaysBack, SameServed
  PROVE  UNCHANGED Atomic!vars
<1>1. [o \in OpIds |-> Seen(o)]' = [o \in OpIds |-> Seen(o)]
  BY DEF SameSeen
<1>2. [i \in Instances |-> Served(i)]' = [i \in Instances |-> Served(i)]
  BY DEF SameServed
<1>3. [o \in OpIds |-> reviewed[o].profiles]' = [o \in OpIds |-> reviewed[o].profiles]
  BY DEF SameWishes
<1>4. [o \in OpIds |-> snap[o].files.routes]' = [o \in OpIds |-> snap[o].files.routes]
  BY DEF SameWaysBack
<1> QED
  BY <1>1, <1>2, <1>3, <1>4 DEF Atomic!vars, Applied

LEMMA AtomicMoves ==
  ASSUME NEW o \in OpIds, NEW from, NEW to, Moves(o, from, to)
  PROVE  /\ [p \in OpIds |-> Seen(p)][o] = from
         /\ Atomic!Becomes(o, to)
<1>1. [p \in OpIds |-> Seen(p)]' = [[p \in OpIds |-> Seen(p)] EXCEPT ![o] = to]
  BY DEF Moves
<1> QED
  BY <1>1 DEF Moves, Atomic!Becomes

LEMMA AtomicRestarts ==
  ASSUME NEW i \in Instances, NEW mixes, Restarts(i, mixes)
  PROVE  Atomic!Restarted(i, mixes)
<1>1. [k \in Instances |-> Served(k)]' = [[k \in Instances |-> Served(k)] EXCEPT ![i] = Served(i)']
  BY DEF Restarts
<1> QED
  BY <1>1 DEF Restarts, Atomic!Restarted

LEMMA AtomicAll ==
  ASSUME NEW mix
  PROVE  Atomic!All(mix) <=> \A i \in Instances : Served(i) = mix
BY DEF Atomic!All

LEMMA AtomicRequest ==
  ASSUME NEW o \in OpIds, Moves(o, "none", "waiting"),
         NEW mix \in OneChanged(Applied), reviewed'[o].profiles = mix,
         \A p \in OpIds : p # o => reviewed'[p].profiles = reviewed[p].profiles,
         Applied' = Applied, SameWaysBack, SameServed
  PROVE  Atomic!Request(o)
<1>1. [p \in OpIds |-> reviewed[p].profiles]'
        = [[p \in OpIds |-> reviewed[p].profiles] EXCEPT ![o] = mix]
  OBVIOUS
<1>2. UNCHANGED <<[c \in Codes |-> profile[c].applied],
                  [p \in OpIds |-> snap[p].files.routes],
                  [i \in Instances |-> Served(i)]>>
  BY DEF Applied, SameWaysBack, SameServed
<1> QED
  BY <1>1, <1>2, AtomicMoves DEF Atomic!Request, Applied

LEMMA AtomicRefuse ==
  ASSUME NEW o \in OpIds, Moves(o, "waiting", "failed"),
         Applied' = Applied, SameWishes, SameWaysBack, SameServed
  PROVE  Atomic!Refuse(o)
<1>1. UNCHANGED <<[c \in Codes |-> profile[c].applied],
                  [p \in OpIds |-> reviewed[p].profiles],
                  [p \in OpIds |-> snap[p].files.routes],
                  [i \in Instances |-> Served(i)]>>
  BY DEF Applied, SameWishes, SameWaysBack, SameServed
<1> QED
  BY <1>1, AtomicMoves DEF Atomic!Refuse

LEMMA AtomicStart ==
  ASSUME NEW o \in OpIds, Moves(o, "waiting", "rolling"),
         NEW mix \in RevMap, snap'[o].files.routes = mix,
         (\A i \in Instances : Served(i) = Applied) /\ (\A p \in OpIds : Seen(p) # "stuck")
           => mix = Applied,
         \A p \in OpIds : p # o => snap'[p].files.routes = snap[p].files.routes,
         Applied' = Applied, SameWishes, SameServed
  PROVE  Atomic!Start(o)
<1>1. [p \in OpIds |-> snap[p].files.routes]'
        = [[p \in OpIds |-> snap[p].files.routes] EXCEPT ![o] = mix]
  OBVIOUS
<1>2. UNCHANGED <<[c \in Codes |-> profile[c].applied],
                  [p \in OpIds |-> reviewed[p].profiles],
                  [i \in Instances |-> Served(i)]>>
  BY DEF Applied, SameWishes, SameServed
<1> QED
  BY <1>1, <1>2, AtomicMoves, AtomicAll DEF Atomic!Start, Applied

LEMMA AtomicRoll ==
  ASSUME NEW o \in OpIds, NEW i \in Instances, Seen(o) = "rolling", SameSeen,
         Restarts(i, {reviewed[o].profiles, snap[o].files.routes}),
         Applied' = Applied, SameWishes, SameWaysBack
  PROVE  Atomic!Roll(o, i)
<1>1. UNCHANGED <<[c \in Codes |-> profile[c].applied],
                  [p \in OpIds |-> reviewed[p].profiles],
                  [p \in OpIds |-> snap[p].files.routes],
                  [p \in OpIds |-> Seen(p)]>>
  BY DEF Applied, SameWishes, SameWaysBack, SameSeen
<1> QED
  BY <1>1, AtomicRestarts DEF Atomic!Roll

LEMMA AtomicRollBack ==
  ASSUME NEW o \in OpIds, NEW i \in Instances, Seen(o) = "stuck", SameSeen,
         Restarts(i, {snap[o].files.routes}),
         Applied' = Applied, SameWishes, SameWaysBack
  PROVE  Atomic!RollBack(o, i)
<1>1. UNCHANGED <<[c \in Codes |-> profile[c].applied],
                  [p \in OpIds |-> reviewed[p].profiles],
                  [p \in OpIds |-> snap[p].files.routes],
                  [p \in OpIds |-> Seen(p)]>>
  BY DEF Applied, SameWishes, SameWaysBack, SameSeen
<1> QED
  BY <1>1, AtomicRestarts DEF Atomic!RollBack

LEMMA AtomicCommit ==
  ASSUME NEW o \in OpIds, Moves(o, "rolling", "applied"),
         \A i \in Instances : Served(i) = reviewed[o].profiles,
         Applied' = reviewed[o].profiles, SameWishes, SameWaysBack, SameServed
  PROVE  Atomic!Commit(o)
<1>1. UNCHANGED <<[p \in OpIds |-> reviewed[p].profiles],
                  [p \in OpIds |-> snap[p].files.routes],
                  [i \in Instances |-> Served(i)]>>
  BY DEF SameWishes, SameWaysBack, SameServed
<1> QED
  BY <1>1, AtomicMoves, AtomicAll DEF Atomic!Commit, Applied

LEMMA AtomicFail ==
  ASSUME NEW o \in OpIds, NEW from \in {"rolling", "stuck"}, Moves(o, from, "failed"),
         \A i \in Instances : Served(i) = snap[o].files.routes,
         Applied' = Applied, SameWishes, SameWaysBack, SameServed
  PROVE  Atomic!Fail(o)
<1>1. UNCHANGED <<[c \in Codes |-> profile[c].applied],
                  [p \in OpIds |-> reviewed[p].profiles],
                  [p \in OpIds |-> snap[p].files.routes],
                  [i \in Instances |-> Served(i)]>>
  BY DEF Applied, SameWishes, SameWaysBack, SameServed
<1> QED
  BY <1>1, AtomicMoves, AtomicAll DEF Atomic!Fail

LEMMA AtomicStick ==
  ASSUME NEW o \in OpIds, Moves(o, "rolling", "stuck"),
         SameServed \/ \E i \in Instances : Restarts(i, {snap[o].files.routes}),
         Applied' = Applied, SameWishes, SameWaysBack
  PROVE  Atomic!Stick(o)
<1>1. UNCHANGED <<[c \in Codes |-> profile[c].applied],
                  [p \in OpIds |-> reviewed[p].profiles],
                  [p \in OpIds |-> snap[p].files.routes]>>
  BY DEF Applied, SameWishes, SameWaysBack
<1>2. \/ UNCHANGED [i \in Instances |-> Served(i)]
      \/ \E i \in Instances : Atomic!Restarted(i, {snap[o].files.routes})
  BY AtomicRestarts DEF SameServed
<1> QED
  BY <1>1, <1>2, AtomicMoves DEF Atomic!Stick

-----------------------------------------------------------------------------
(* Each step of ConnectionDeploy is an action of ConnectionApply, or none. *)

StepOf == Atomic!Next \/ UNCHANGED Atomic!vars

LEMMA StepOfNext ==
  /\ \A o \in OpIds : Atomic!Request(o) \/ Atomic!Refuse(o) \/ Atomic!Start(o)
                        \/ Atomic!Commit(o) \/ Atomic!Fail(o) \/ Atomic!Stick(o) => StepOf
  /\ \A o \in OpIds : \A i \in Instances : Atomic!Roll(o, i) \/ Atomic!RollBack(o, i) => StepOf
BY DEF StepOf, Atomic!Next

LEMMA SeenKept ==
  ASSUME NEW o \in OpIds, ops'[o] = ops[o], snap'[o] = snap[o]
  PROVE  Seen(o)' = Seen(o)
BY DEF Seen

(* Most steps leave the tables, the snapshots and the instances alone. *)
LEMMA StepUnseen ==
  ASSUME UNCHANGED <<ops, snap, reviewed, gw>>, Applied' = Applied
  PROVE  StepOf
<1>1. SameSeen
  BY SeenKept DEF SameSeen
<1>2. SameWishes /\ SameWaysBack /\ SameServed
  BY DEF SameWishes, SameWaysBack, SameServed, Served
<1> QED
  BY <1>1, <1>2, AtomicStutters DEF StepOf

LEMMA OneRowMoves ==
  ASSUME StoreTypeOK, NEW o \in OpIds, NEW status \in Statuses, Stage(o, status), UNCHANGED snap,
         ops[o].kind = "apply"
  PROVE  /\ \A p \in OpIds : p # o => Seen(p)' = Seen(p)
         /\ status = "failed" => Seen(o)' = "failed"
         /\ status = "applied" => Seen(o)' = "applied"
         /\ status = "running" => Seen(o)' = "rolling"
         /\ status = "recovery-required" => Seen(o)' = "stuck"
<1>1. /\ ops'[o].status = status /\ ops'[o].kind = "apply"
      /\ \A p \in OpIds : p # o => ops'[p] = ops[p]
  BY StageRow
<1>2. \A p \in OpIds : p # o => Seen(p)' = Seen(p)
  BY <1>1, SeenKept
<1> QED
  BY <1>1, <1>2, SeenOfNext

LEMMA OneIsChanged ==
  ASSUME NEW mix, NEW c \in Codes, NEW r \in Revs \ {0}
  PROVE  [mix EXCEPT ![c] = r] \in OneChanged(mix)
BY DEF OneChanged

LEMMA StepRequests ==
  ASSUME Before, NEW c \in Codes, RequestApply(c)
  PROVE  StepOf
<1>0. /\ StoreTypeOK /\ reviewed \in [OpIds -> Reviews] /\ "apply" \in Kinds
      /\ profile[c] \in ProfileRow /\ Enqueue(c, "apply")
  BY DEF Before, TypeInv, TypeOK, StoreTypeOK, Kinds, RequestApply
<1>1a. PICK n \in OpIds : n = lastOp + 1
  BY <1>0, EnqueueType
<1>1. /\ ops'[n].kind = "apply" /\ ops'[n].status = "queued"
      /\ \A p \in OpIds : p # n => ops'[p] = ops[p]
      /\ UNCHANGED <<profile, snap, gw>>
  BY <1>0, <1>1a, EnqueueType DEF RequestApply, Enqueue
<1>2. ops[n].status = "none"
  <2>1. lastOp \in Nat
    BY <1>0 DEF StoreTypeOK
  <2> QED
    BY <1>1a, <2>1 DEF Before, PointerInv, FreshRows
<1>3. snap[n].state # "complete"
  BY <1>1, <1>2 DEF Before, ApplyInv, SnapRows
<1>4. /\ reviewed'[n].profiles = Rendered(c)
      /\ \A p \in OpIds : p # n => reviewed'[p].profiles = reviewed[p].profiles
  <2>1. reviewed' = [reviewed EXCEPT ![n] = PreviewHash(c)]
    BY <1>1a DEF RequestApply
  <2>2. PreviewHash(c).profiles = Rendered(c)
    BY DEF PreviewHash
  <2> QED
    BY <1>0, <1>1, <2>1, <2>2
<1>5. Moves(n, "none", "waiting")
  <2>1. Seen(n) = "none"
    BY <1>1, <1>2, SeenOf
  <2>2. Seen(n)' = "waiting"
    BY <1>1, <1>3, SeenOfNext
  <2> QED
    BY <1>1, <2>1, <2>2, SeenKept DEF Moves
<1>6. Rendered(c) \in OneChanged(Applied)
  <2>1. profile[c].rev \in Revs \ {0}
    BY <1>0 DEF RequestApply, PreviewOK, ProfileRow
  <2>2. Rendered(c) = [Applied EXCEPT ![c] = profile[c].rev]
    BY DEF Rendered, Applied
  <2>3. [Applied EXCEPT ![c] = profile[c].rev] \in OneChanged(Applied)
    BY ONLY <2>1, OneIsChanged
  <2> QED
    BY <2>2, <2>3
<1>7. Applied' = Applied /\ SameWaysBack /\ SameServed
  BY <1>1 DEF Applied, SameWaysBack, SameServed, Served
<1> QED
  BY <1>1, <1>4, <1>5, <1>6, <1>7, AtomicRequest, StepOfNext

LEMMA StepRequestsRecovery ==
  ASSUME Before, NEW c \in Codes, RequestRecover(c)
  PROVE  StepOf
<1>0. StoreTypeOK /\ "recover" \in Kinds /\ Enqueue(c, "recover")
  BY DEF Before, TypeInv, TypeOK, Kinds, RequestRecover
<1>1a. PICK n \in OpIds : n = lastOp + 1
  BY <1>0, EnqueueType
<1>1. /\ ops'[n].kind = "recover"
      /\ \A p \in OpIds : p # n => ops'[p] = ops[p]
      /\ UNCHANGED <<profile, snap, gw, reviewed>>
  BY <1>0, <1>1a, EnqueueType DEF RequestRecover, Enqueue, deployVars
<1>2. ops[n].status = "none"
  <2>1. lastOp \in Nat
    BY <1>0 DEF StoreTypeOK
  <2> QED
    BY <1>1a, <2>1 DEF Before, PointerInv, FreshRows
<1>3. SameSeen
  <2>1. Seen(n) = "none" /\ Seen(n)' = "none"
    BY <1>1, <1>2, SeenOf, SeenOfNext
  <2> QED
    BY <1>1, <2>1, SeenKept DEF SameSeen
<1>4. Applied' = Applied /\ SameWishes /\ SameWaysBack /\ SameServed
  BY <1>1 DEF Applied, SameWishes, SameWaysBack, SameServed, Served
<1> QED
  BY <1>3, <1>4, AtomicStutters DEF StepOf

LEMMA StepOpens ==
  ASSUME Before, SnapshotOpen
  PROVE  StepOf
<1>0. job.pc = "snapshot" /\ job.pc \in ApplySteps
  BY DEF SnapshotOpen, ApplySteps
<1>1. job.op \in OpIds
  BY <1>0, SagaApplies, SagaRow
<1>2. /\ \A p \in OpIds : snap'[p].files = snap[p].files
      /\ \A p \in OpIds : snap'[p].state = "complete" <=> snap[p].state = "complete"
  <2>1. snap \in [OpIds -> Snapshots] /\ snap[job.op] \in Snapshots
    BY <1>1 DEF Before, TypeInv, TypeOK
  <2>2. CASE UNCHANGED snap
    BY <2>2
  <2>3. CASE /\ snap[job.op].state = "none"
             /\ snap' = [snap EXCEPT ![job.op].state = "partial"]
    <3>1. snap' = [snap EXCEPT ![job.op] = [snap[job.op] EXCEPT !.state = "partial"]]
      BY <2>3
    <3>2. /\ [snap[job.op] EXCEPT !.state = "partial"].files = snap[job.op].files
          /\ [snap[job.op] EXCEPT !.state = "partial"].state = "partial"
      BY <2>1 DEF Snapshots
    <3> QED
      BY <1>1, <2>1, <2>3, <3>1, <3>2
  <2> QED
    BY <2>2, <2>3 DEF SnapshotOpen
<1>3. UNCHANGED <<profile, ops, reviewed, gw>>
  BY DEF SnapshotOpen
<1>4. SameSeen
  BY <1>2, <1>3 DEF SameSeen, Seen
<1>5. Applied' = Applied /\ SameWishes /\ SameWaysBack /\ SameServed
  BY <1>2, <1>3 DEF Applied, SameWishes, SameWaysBack, SameServed, Served
<1> QED
  BY <1>4, <1>5, AtomicStutters DEF StepOf

(* Before anything has begun, and with no operation stuck, the instances      *)
(* serve what the files hold: an apply begins from what is applied whenever   *)
(* that is what is served.                                                    *)
LEMMA StepFills ==
  ASSUME Before, SnapshotFill
  PROVE  StepOf
<1>0. job.pc = "fill" /\ job.pc \in ApplySteps /\ TypeOK /\ StoreTypeOK
  BY DEF SnapshotFill, ApplySteps, Before, TypeInv, TypeOK
<1>1. /\ job.op \in OpIds /\ job.op \in Drainable
      /\ \A p \in Drainable : job.op <= p
      /\ ops[job.op].kind = "apply" /\ ops[job.op].status = "queued"
      /\ snap[job.op].state = "partial"
  BY <1>0, SagaApplies, SagaRow DEF Drainable, Before, ApplyInv, SagaOnRecord, FirstSteps
<1>1a. PICK o \in OpIds : o = job.op
  BY <1>1
<1>2. /\ snap'[o].state = "complete" /\ snap'[o].files = files
      /\ \A p \in OpIds : p # o => snap'[p] = snap[p]
      /\ UNCHANGED <<profile, ops, reviewed, gw>>
  BY <1>0, <1>1a DEF SnapshotFill, TypeOK
<1>3. \A p \in OpIds : ~Begun(p)
  <2> SUFFICES ASSUME NEW p \in OpIds, Begun(p) PROVE FALSE
    OBVIOUS
  <2>1. p \in Drainable /\ p <= job.op
    BY <1>1, BegunIsOldest DEF Before
  <2>2. job.op <= p /\ p \in Nat /\ job.op \in Nat
    BY <1>1, <2>1, StoreAssumption DEF OpIds
  <2>3. p = job.op
    BY <2>1, <2>2
  <2> QED
    BY <1>0, <1>1, <2>3, BegunMeans
<1>4. Moves(o, "waiting", "rolling")
  <2>1. Seen(o) = "waiting"
    BY <1>1, <1>1a, SeenOf
  <2>2. Seen(o)' = "rolling"
    BY <1>1, <1>1a, <1>2, SeenOfNext
  <2>3. \A p \in OpIds : p # o => Seen(p)' = Seen(p)
    BY <1>2, SeenKept
  <2> QED
    BY <2>1, <2>2, <2>3 DEF Moves
<1>5. ASSUME \A i \in Instances : Served(i) = Applied, \A p \in OpIds : Seen(p) # "stuck"
      PROVE  files.routes = Applied
  <2>1. recoveryOp = 0
    <3> SUFFICES ASSUME recoveryOp # 0 PROVE FALSE
      OBVIOUS
    <3>1. recoveryOp \in OpIds
      BY <1>0, StoreAssumption DEF StoreTypeOK, OpIds
    <3>2. Seen(recoveryOp) = "stuck"
      BY <3>1, SeenOf DEF Before, PointerInv, PointerIsApply
    <3> QED
      BY <1>5, <3>1, <3>2
  <2>2. Serves(1, files.routes)
    BY <1>3, <2>1 DEF Before, ApplyInv, Settled, AllServe
  <2> QED
    BY <1>5, <2>2, TwoInstances DEF Serves, Served
<1>6. files.routes \in RevMap
  BY <1>0 DEF TypeOK, Files
<1>7. Applied' = Applied /\ SameWishes /\ SameServed
  BY <1>2 DEF Applied, SameWishes, SameServed, Served
<1> QED
  BY <1>2, <1>4, <1>5, <1>6, <1>7, AtomicStart, StepOfNext

LEMMA StepStarts ==
  ASSUME Before, StageRunning
  PROVE  StepOf
<1>0. job.pc = "start" /\ job.pc \in ApplySteps /\ StoreTypeOK
  BY DEF StageRunning, ApplySteps, Before, TypeInv, TypeOK
<1>1. PICK o \in OpIds : o = job.op /\ ops[o].kind = "apply" /\ Begun(o)
  BY <1>0, SagaApplies, SagaRow, SagaBegun DEF Drainable
<1>2. /\ Seen(o)' = "rolling"
      /\ \A p \in OpIds : p # o => Seen(p)' = Seen(p)
  BY <1>0, <1>1, OneRowMoves, StatusNames DEF StageRunning
<1>3. SameSeen
  BY <1>1, <1>2 DEF SameSeen, Begun
<1>4. Applied' = Applied /\ SameWishes /\ SameWaysBack /\ SameServed
  BY DEF StageRunning, Applied, SameWishes, SameWaysBack, SameServed, Served
<1> QED
  BY <1>3, <1>4, AtomicStutters DEF StepOf

LEMMA StepRolls ==
  ASSUME Before, RollInstance
  PROVE  StepOf
<1>0. /\ job \in Jobs /\ TypeOK /\ StoreTypeOK
      /\ job.pc \in {"roll1", "roll2", "reroll1", "reroll2"}
  BY DEF RollInstance, NextRoll, Before, TypeInv, TypeOK
<1>1. PICK i \in Instances : i = (IF job.pc \in {"roll1", "reroll1"} THEN 1 ELSE 2)
  BY TwoInstances
<1>2. /\ Served(i)' = files.routes
      /\ \A k \in Instances : k # i => Served(k)' = Served(k)
  <2>1. Recreated(i, TRUE)
    BY <1>0, <1>1, RollNames DEF RollInstance
  <2>2. CASE i = 1
    BY <1>0, <2>1, <2>2, RecreatedServes, TwoInstances DEF Served
  <2>3. CASE i = 2
    BY <1>0, <2>1, <2>3, RecreatedServes, TwoInstances DEF Served
  <2> QED
    BY <2>2, <2>3, TwoInstances
<1>3. UNCHANGED <<profile, ops, snap, reviewed>>
  BY DEF RollInstance
<1>4. Applied' = Applied /\ SameSeen /\ SameWishes /\ SameWaysBack
  BY <1>3, SeenKept DEF Applied, SameSeen, SameWishes, SameWaysBack
<1>5. job.pc \in Working
  BY <1>0 DEF Working, ApplySteps, RestoreSteps
<1>6. CASE job.mode # "recover"
  <2>1. PICK o \in OpIds : o = job.op /\ o = job.target /\ Begun(o)
    BY <1>0, <1>5, <1>6, SagaRow, SagaBegun DEF WriteSteps, RestoreSteps
  <2>2. files.routes \in {reviewed[o].profiles, snap[o].files.routes}
    BY <1>0, <2>1 DEF Before, ApplyInv, Rolled, Undone, CandIsReviewed, WriteSteps, UndoneSteps,
                      ApplySteps, Saved
  <2>3. Restarts(i, {reviewed[o].profiles, snap[o].files.routes})
    BY <1>2, <2>2 DEF Restarts
  <2> QED
    BY <1>4, <2>1, <2>3, AtomicRoll, StepOfNext DEF Begun
<1>7. CASE job.mode = "recover"
  <2>1. job.pc \in {"reroll1", "reroll2"}
    BY <1>0, <1>7, SagaApplies DEF ApplySteps
  <2>2. PICK o \in OpIds : o = job.target /\ o = recoveryOp
    BY <1>5, <1>7, <2>1 DEF Before, PointerInv, RecoveryIsOpen, TypeInv, JobOK
  <2>3. Seen(o) = "stuck"
    BY <2>2, SeenOf, StoreAssumption DEF Before, PointerInv, PointerIsApply, OpIds
  <2>4. files.routes = snap[o].files.routes
    BY <2>1, <2>2 DEF Before, ApplyInv, Undone, UndoneSteps, Saved
  <2>5. Restarts(i, {snap[o].files.routes})
    BY <1>2, <2>4 DEF Restarts
  <2> QED
    BY <1>4, <2>3, <2>5, AtomicRollBack, StepOfNext
<1> QED
  BY <1>6, <1>7

LEMMA BothServe ==
  ASSUME NEW mix, AllServe(mix)
  PROVE  \A i \in Instances : Served(i) = mix
BY TwoInstances DEF AllServe, Serves, Served

LEMMA StepCommits ==
  ASSUME Before, CommitApply
  PROVE  StepOf
<1>0. /\ job.pc = "commit" /\ job.pc \in ApplySteps \ {"preview"} /\ StoreTypeOK
      /\ job.pc \in WriteSteps
  BY DEF CommitApply, Before, TypeInv, TypeOK, ApplySteps, WriteSteps
<1>1. PICK o \in OpIds : o = job.op /\ ops[o].kind = "apply" /\ Begun(o)
  BY <1>0, SagaApplies, SagaRow, SagaBegun DEF Drainable
<1>2. AllServe(job.cand) /\ job.cand = reviewed[o].profiles
  BY <1>0, <1>1 DEF Before, ApplyInv, Rolled, CandIsReviewed
<1>3. Applied' = job.cand
  <2>1. profile \in [Codes -> ProfileRow] /\ profile' = [profile EXCEPT ![Code].applied = Expected]
    BY <1>0 DEF StoreTypeOK, CommitApply
  <2>2. \A c \in Codes : profile'[c].applied = IF c = Code THEN Expected ELSE profile[c].applied
    BY <2>1 DEF ProfileRow
  <2> QED
    BY <1>0, <2>2 DEF Before, ApplyInv, CandIsReviewed, Applied
<1>4. Moves(o, "rolling", "applied")
  BY <1>0, <1>1, OneRowMoves, StatusNames DEF CommitApply, Moves, Begun
<1>5. SameWishes /\ SameWaysBack /\ SameServed
  BY DEF CommitApply, SameWishes, SameWaysBack, SameServed, Served
<1>6. \A i \in Instances : Served(i) = reviewed[o].profiles
  BY <1>2, BothServe
<1> QED
  BY <1>2, <1>3, <1>4, <1>5, <1>6, AtomicCommit, StepOfNext

(* A failed restart may leave the instance it was about as it was, down, or   *)
(* running on the new files.                                                  *)
LEMMA DebrisServes ==
  ASSUME TypeOK, RollDebris
  PROVE  \/ SameServed
         \/ /\ job.pc \in {"roll1", "roll2", "reroll1", "reroll2"}
            /\ \E i \in Instances : Restarts(i, {files.routes})
<1>1. CASE UNCHANGED gw
  BY <1>1 DEF SameServed, Served
<1>2. CASE job.pc \in DOMAIN RollIndex /\
           \E up \in BOOLEAN : Recreated(RollIndex[job.pc], up)
  <2>1. job.pc \in {"roll1", "roll2", "reroll1", "reroll2"}
    BY <1>2 DEF RollIndex
  <2>2. PICK up \in BOOLEAN : Recreated(RollIndex[job.pc], up)
    BY <1>2
  <2>3. PICK i \in Instances : i = RollIndex[job.pc]
    BY <2>1, RollNames, TwoInstances
  <2>4. /\ gw'[i] = [up |-> up, view |-> ViewOf(files)]
        /\ \A k \in Instances : k # i => gw'[k] = gw[k]
    BY <2>2, <2>3 DEF Recreated, TypeOK
  <2>5. ViewOf(files).routes = files.routes
    BY DEF ViewOf
  <2>6. Served(i)' \in {files.routes, <<>>}
    BY <2>4, <2>5 DEF Served
  <2>7. Restarts(i, {files.routes})
    BY <2>4, <2>6 DEF Restarts, Served
  <2> QED
    BY <2>1, <2>7
<1> QED
  BY <1>1, <1>2 DEF RollDebris

LEMMA StepGivesUp ==
  ASSUME Before, ApplyFails
  PROVE  StepOf
<1>0. /\ job.pc \in ApplySteps /\ job.mode # "recover" /\ job.pc \in Working
      /\ TypeOK /\ StoreTypeOK /\ RollDebris
      /\ UNCHANGED <<profile, snap, reviewed>>
  BY SagaApplies DEF ApplyFails, Before, TypeInv, TypeOK
<1>1. PICK o \in OpIds : o = job.op /\ ops[o].kind = "apply" /\ o = job.target
  BY <1>0, SagaRow DEF Drainable
<1>2. Applied' = Applied /\ SameWishes /\ SameWaysBack
  BY <1>0 DEF Applied, SameWishes, SameWaysBack
<1>3. CASE job.fresh /\ snap[job.op].state # "complete"
  <2>1. job.pc \in FirstSteps
    BY <1>0, <1>3, SagaBegun, StepSets
  <2>2. ops[o].status = "queued" /\ snap[o].state # "complete"
    BY <1>1, <1>3, <2>1 DEF Before, ApplyInv, SagaOnRecord
  <2>3. Seen(o) = "waiting"
    BY <1>1, <2>2, SeenOf
  <2>4. Moves(o, "waiting", "failed")
    BY <1>0, <1>1, <1>3, <2>3, OneRowMoves, StatusNames DEF ApplyFails, Moves
  <2>5. SameServed
    BY <1>0, <2>1, DebrisServes DEF FirstSteps
  <2> QED
    BY <1>2, <2>4, <2>5, AtomicRefuse, StepOfNext
<1>4. CASE ~(job.fresh /\ snap[job.op].state # "complete")
  <2>1. SameSeen
    BY <1>0, <1>4, SeenKept DEF ApplyFails, SameSeen
  <2>2. CASE SameServed
    BY <1>2, <2>1, <2>2, AtomicStutters DEF StepOf
  <2>3. CASE ~SameServed
    <3>1. PICK i \in Instances : Restarts(i, {files.routes})
      BY <1>0, <2>3, DebrisServes
    <3>2. job.pc \in {"roll1", "roll2"}
      BY <1>0, <2>3, DebrisServes DEF ApplySteps
    <3>3. Seen(o) = "rolling"
      BY <1>0, <1>1, <3>2, SagaBegun DEF WriteSteps, Begun
    <3>4. files.routes = reviewed[o].profiles
      BY <1>1, <3>2 DEF Before, ApplyInv, Rolled, CandIsReviewed, WriteSteps, ApplySteps
    <3>5. Restarts(i, {reviewed[o].profiles, snap[o].files.routes})
      BY <3>1, <3>4 DEF Restarts
    <3> QED
      BY <1>2, <2>1, <3>3, <3>5, AtomicRoll, StepOfNext
  <2> QED
    BY <2>2, <2>3
<1> QED
  BY <1>3, <1>4

(* An apply whose restore is complete fails with everything as it was before. *)
LEMMA StepFails ==
  ASSUME Before, job.mode # "recover", job.pc \in RebaseSteps, Stage(job.op, "failed"),
         UNCHANGED <<profile, snap, reviewed, gw>>
  PROVE  StepOf
<1>0. job.pc \in Working /\ job.pc \in UndoneSteps /\ StoreTypeOK
  BY StepSets DEF RebaseSteps, UndoneSteps, Before, TypeInv, TypeOK
<1>1. PICK o \in OpIds : o = job.op /\ o = job.target /\ ops[o].kind = "apply" /\ Begun(o)
  BY <1>0, SagaRow, SagaBegun DEF Drainable
<1>2. Moves(o, "rolling", "failed")
  BY <1>0, <1>1, OneRowMoves, StatusNames DEF Moves, Begun
<1>3. AllServe(snap[o].files.routes)
  BY <1>1 DEF Before, ApplyInv, Undone, Saved
<1>4. \A i \in Instances : Served(i) = snap[o].files.routes
  BY <1>3, BothServe
<1>5. Applied' = Applied /\ SameWishes /\ SameWaysBack /\ SameServed
  BY DEF Applied, SameWishes, SameWaysBack, SameServed, Served
<1> QED
  BY <1>2, <1>4, <1>5, AtomicFail, StepOfNext

LEMMA StepRebases ==
  ASSUME Before, Rebase
  PROVE  StepOf
<1>1. CASE UNCHANGED ops
  <2>1. UNCHANGED <<ops, snap, reviewed, gw>> /\ Applied' = Applied
    BY <1>1 DEF Rebase, Applied
  <2> QED
    BY <2>1, StepUnseen
<1>2. CASE job.mode = "restart" /\ Stage(job.op, "failed")
  BY <1>2, StepFails DEF Rebase, RebaseSteps
<1> QED
  BY <1>1, <1>2 DEF Rebase

LEMMA StepRestored ==
  ASSUME Before, StageRestored
  PROVE  StepOf
<1>1. job.mode # "recover" /\ job.pc \in RebaseSteps
  BY DEF StageRestored, RebaseSteps, Before, PointerInv, ModeOfStep
<1> QED
  BY <1>1, StepFails DEF StageRestored

LEMMA StepRefused ==
  ASSUME Before, NEW d \in Drainers, RestartRefused(d)
  PROVE  StepOf
<1>0. StoreTypeOK
  BY DEF Before, TypeInv, TypeOK
<1>1. PICK o \in OpIds : /\ o = picked[d] /\ ops[o].kind = "apply"
                         /\ ops[o].status = "running"
  BY PickedRows DEF RestartRefused, Before, PointerInv, PickIsOpen
<1>2. Seen(o) = "rolling"
  BY <1>1, SeenOf
<1>3. Moves(o, "rolling", "stuck")
  BY <1>0, <1>1, <1>2, OneRowMoves, StatusNames DEF RestartRefused, Moves
<1>4. Applied' = Applied /\ SameWishes /\ SameWaysBack /\ SameServed
  BY DEF RestartRefused, Applied, SameWishes, SameWaysBack, SameServed, Served
<1> QED
  BY <1>3, <1>4, AtomicStick, StepOfNext

(* A row that is not an apply is not seen. *)
LEMMA OtherRowMoves ==
  ASSUME StoreTypeOK, NEW o \in OpIds, NEW status \in Statuses, Stage(o, status), UNCHANGED snap,
         ops[o].kind # "apply"
  PROVE  SameSeen
<1>1. /\ ops'[o].kind # "apply"
      /\ \A p \in OpIds : p # o => ops'[p] = ops[p]
  BY StageRow
<1>2. Seen(o)' = Seen(o)
  BY <1>1, SeenOf, SeenOfNext
<1> QED
  BY <1>1, <1>2, SeenKept DEF SameSeen

LEMMA StepRestoreFails ==
  ASSUME Before, RestoreFails
  PROVE  StepOf
<1>0. /\ job.pc \in RestoreSteps \cup RebaseSteps \cup CloseSteps /\ job.pc \in Working
      /\ TypeOK /\ StoreTypeOK /\ RollDebris
      /\ UNCHANGED <<profile, snap, reviewed>>
  BY StepSets DEF RestoreFails, Before, TypeInv, TypeOK
<1>1. Applied' = Applied /\ SameWishes /\ SameWaysBack
  BY <1>0 DEF Applied, SameWishes, SameWaysBack
<1>2. PICK o \in OpIds : o = job.target
  BY <1>0 DEF Before, TypeInv, JobOK
<1>3. SameServed \/ \E i \in Instances : Restarts(i, {snap[o].files.routes})
  <2>1. CASE SameServed
    BY <2>1
  <2>2. CASE ~SameServed
    <3>1. PICK i \in Instances : Restarts(i, {files.routes})
      BY <1>0, <2>2, DebrisServes
    <3>2. job.pc \in {"roll1", "roll2", "reroll1", "reroll2"}
      BY <1>0, <2>2, DebrisServes
    <3>3. job.pc \in {"reroll1", "reroll2"}
      BY <1>0, <3>2 DEF RestoreSteps, RestoreFiles, RebaseSteps, CloseSteps
    <3>4. files.routes = snap[o].files.routes
      BY <1>2, <3>3 DEF Before, ApplyInv, Undone, UndoneSteps, Saved
    <3>5. Restarts(i, {snap[o].files.routes})
      BY <3>1, <3>4
    <3> QED
      BY <3>5
  <2> QED
    BY <2>1, <2>2
<1>4. CASE job.mode # "recover"
  <2>1. job.pc \in RestoreSteps \cup RebaseSteps
    BY <1>0, <1>4 DEF Before, PointerInv, ModeOfStep
  <2>2. o = job.op /\ ops[o].kind = "apply" /\ Begun(o)
    BY <1>0, <1>2, <1>4, <2>1, SagaRow, SagaBegun DEF Drainable
  <2>3. Moves(o, "rolling", "stuck")
    BY <1>0, <1>4, <2>2, OneRowMoves, StatusNames DEF RestoreFails, Moves, Begun
  <2> QED
    BY <1>1, <1>3, <2>3, AtomicStick, StepOfNext
<1>5. CASE job.mode = "recover"
  <2>1. job.op \in OpIds /\ ops[job.op].kind = "recover"
    BY <1>0, <1>5 DEF Before, PointerInv, RecoveryIsOpen, TypeInv, JobOK
  <2>2. SameSeen
    BY <1>0, <1>5, <2>1, OtherRowMoves, StatusNames DEF RestoreFails
  <2>3. CASE SameServed
    BY <1>1, <2>2, <2>3, AtomicStutters DEF StepOf
  <2>4. CASE ~SameServed
    <3>1. job.pc \in {"roll1", "roll2", "reroll1", "reroll2"}
      BY <1>0, <2>4, DebrisServes
    <3>2. recoveryOp = o
      BY <1>0, <1>2, <1>5, <3>1 DEF Before, PointerInv, RecoveryIsOpen
    <3>3. Seen(o) = "stuck"
      BY <3>2, SeenOf, StoreAssumption DEF Before, PointerInv, PointerIsApply, OpIds
    <3>4. PICK i \in Instances : Restarts(i, {snap[o].files.routes})
      BY <1>3, <2>4
    <3> QED
      BY <1>1, <2>2, <3>3, <3>4, AtomicRollBack, StepOfNext
  <2> QED
    BY <2>3, <2>4
<1> QED
  BY <1>4, <1>5

LEMMA StepCloses ==
  ASSUME Before, RecoverCloseTarget \/ RecoverCloseSelf
  PROVE  StepOf
<1>0. StoreTypeOK /\ UNCHANGED <<profile, snap, reviewed, gw>>
  BY DEF Before, TypeInv, TypeOK, RecoverCloseTarget, RecoverCloseSelf
<1>1. Applied' = Applied /\ SameWishes /\ SameWaysBack /\ SameServed
  BY <1>0 DEF Applied, SameWishes, SameWaysBack, SameServed, Served
<1>2. CASE RecoverCloseTarget
  <2>1. job.pc = "closeTarget" /\ job.pc \in CloseSteps /\ job.pc \in Working
    BY <1>2 DEF RecoverCloseTarget, CloseSteps, Working
  <2>2. PICK o \in OpIds : /\ o = job.target /\ ops[o].kind = "apply"
                           /\ ops[o].status = "recovery-required"
    BY <2>1 DEF Before, PointerInv, ModeOfStep, RecoveryIsOpen, TypeInv, JobOK
  <2>3. Seen(o) = "stuck"
    BY <2>2, SeenOf
  <2>4. Moves(o, "stuck", "failed")
    BY <1>0, <1>2, <2>2, <2>3, OneRowMoves, StatusNames DEF RecoverCloseTarget, Moves
  <2>5. AllServe(snap[o].files.routes)
    BY <2>1, <2>2 DEF Before, ApplyInv, Undone, Saved
  <2>6. \A i \in Instances : Served(i) = snap[o].files.routes
    BY <2>5, BothServe
  <2> QED
    BY <1>1, <2>4, <2>6, AtomicFail, StepOfNext
<1>3. CASE RecoverCloseSelf
  <2>1. job.pc = "closeSelf" /\ job.pc \in CloseSteps /\ job.pc \in Working
    BY <1>3 DEF RecoverCloseSelf, CloseSteps, Working
  <2>2. job.op \in OpIds /\ ops[job.op].kind = "recover"
    BY <2>1 DEF Before, PointerInv, ModeOfStep, RecoveryIsOpen, TypeInv, JobOK
  <2>3. SameSeen
    BY <1>0, <1>3, <2>2, OtherRowMoves, StatusNames DEF RecoverCloseSelf
  <2> QED
    BY <1>1, <2>3, AtomicStutters DEF StepOf
<1> QED
  BY <1>2, <1>3

LEMMA StepImplements == Before /\ [Next]_vars => [Atomic!Next]_(Atomic!vars)
<1> SUFFICES ASSUME Before, [Next]_vars PROVE StepOf
  BY DEF StepOf
<1>1. CASE \E c \in Codes : SaveDraft(c)
  <2>1. PICK c \in Codes : SaveDraft(c)
    BY <1>1
  <2>2. \A x \in Codes : profile'[x].applied = profile[x].applied
    <3>1. profile \in [Codes -> ProfileRow]
      BY DEF Before, TypeInv, TypeOK, StoreTypeOK
    <3>2. profile' = [profile EXCEPT ![c] = [profile[c] EXCEPT !.rev = profile[c].rev + 1]]
      BY <2>1, <3>1 DEF SaveDraft, Save
    <3>3. [profile[c] EXCEPT !.rev = profile[c].rev + 1].applied = profile[c].applied
      BY <3>1 DEF ProfileRow
    <3> QED
      BY <3>1, <3>2, <3>3
  <2>3. Applied' = Applied
    BY <2>2 DEF Applied
  <2> QED
    BY <2>1, <2>3, StepUnseen DEF SaveDraft, Save, deployVars
<1>2. CASE UNCHANGED <<profile, ops, snap, reviewed, gw>>
  <2>1. Applied' = Applied
    BY <1>2 DEF Applied
  <2> QED
    BY <1>2, <2>1, StepUnseen
<1>3. CASE \/ Bootstrap \/ Reconcile \/ OutsideEdit \/ OtherTakes \/ OtherReleases
           \/ ImportWrite \/ ImportAdopt \/ FinishApply \/ UNCHANGED vars
           \/ \E s \in Secrets : ImportBegin(s)
  BY <1>2, <1>3 DEF Bootstrap, Reconcile, OutsideEdit, OtherTakes, OtherReleases, ImportWrite,
                    ImportAdopt, FinishApply, ImportBegin, vars
<1>4. CASE \/ \E d \in Drainers : DrainSelect(d) \/ ApplyDeclined(d) \/ Crash(d)
                                  \/ ApplyBegin(d) \/ RestartBegin(d)
           \/ \E o \in OpIds : RecoverBegin(o)
  BY <1>2, <1>4 DEF DrainSelect, ApplyDeclined, Crash, ApplyBegin, RestartBegin, RecoverBegin
<1>5. CASE \/ CheckPreview \/ WriteRoutes \/ WriteOverride \/ RegisterAgents \/ ExportRegistry
           \/ RestoreFile \/ CheckHost \/ RecoverUnlock
  BY <1>2, <1>5 DEF CheckPreview, WriteRoutes, WriteOverride, RegisterAgents, ExportRegistry,
                    RestoreFile, WriteFile, CheckHost, RecoverUnlock
<1>6. CASE \E c \in Codes : RequestApply(c) \/ RequestRecover(c)
  BY <1>6, StepRequests, StepRequestsRecovery
<1>7. CASE \E d \in Drainers : RestartRefused(d)
  BY <1>7, StepRefused
<1>8. CASE SnapshotOpen
  BY <1>8, StepOpens
<1>9. CASE SnapshotFill
  BY <1>9, StepFills
<1>10. CASE StageRunning
  BY <1>10, StepStarts
<1>11. CASE RollInstance
  BY <1>11, StepRolls
<1>12. CASE CommitApply
  BY <1>12, StepCommits
<1>13. CASE ApplyFails
  BY <1>13, StepGivesUp
<1>14. CASE Rebase
  BY <1>14, StepRebases
<1>15. CASE StageRestored
  BY <1>15, StepRestored
<1>16. CASE RestoreFails
  BY <1>16, StepRestoreFails
<1>17. CASE RecoverCloseTarget \/ RecoverCloseSelf
  BY <1>17, StepCloses
<1> QED
  BY <1>1, <1>3, <1>4, <1>5, <1>6, <1>7, <1>8, <1>9, <1>10, <1>11, <1>12, <1>13, <1>14, <1>15,
     <1>16, <1>17
     DEF Next, JobStep, Forward, Backward, Begin

(* With one worker draining, the saga of some twenty steps implements the     *)
(* promise of ConnectionApply: to whoever looks at the ends, an apply is one  *)
(* change, which commits with both instances on the reviewed combination,     *)
(* fails with both back on the former one, or asks for recovery, wherever the *)
(* worker crashes.                                                            *)
THEOREM AppliesImplementPromise ==
  ASSUME Drainers = {"serve"}
  PROVE  Spec => AppliesAreAtomic
<1>1. Init => Before
  BY InitTypeInv, InitSnapInv, InitPointerInv, InitApplyInv DEF Before
<1>2. Before /\ [Next]_vars => Before'
  BY StepBefore
<1> QED
  BY <1>1, <1>2, InitAtomic, StepImplements, PTL DEF Spec, AppliesAreAtomic, Atomic!Spec

-----------------------------------------------------------------------------
(* What a step may do to each variable. *)

Touched ==
    /\ \/ files' = files \/ OutsideEdit \/ ImportWrite \/ RestoreFile
       \/ WriteRoutes \/ WriteOverride \/ ExportRegistry
    /\ registryDb' = registryDb \/ RegisterAgents \/ edits' = edits + 1
    /\ baseline' = baseline \/ Bootstrap \/ Reconcile \/ ImportAdopt \/ CommitApply \/ Rebase
    /\ snap' = snap \/ SnapshotOpen \/ SnapshotFill
    /\ gw' = gw \/ RollInstance \/ ApplyFails \/ RestoreFails
    /\ profile' = profile \/ CommitApply \/ \E c \in Codes : SaveDraft(c)
    /\ \/ ops' = ops \/ StageRunning \/ CommitApply \/ ApplyFails \/ Rebase \/ StageRestored
       \/ RestoreFails \/ RecoverCloseTarget \/ RecoverCloseSelf
       \/ \E c \in Codes : RequestApply(c) \/ RequestRecover(c)
       \/ \E d \in Drainers : RestartRefused(d)
    /\ \/ recoveryOp' = recoveryOp \/ RestoreFails \/ RecoverUnlock
       \/ \E d \in Drainers : RestartRefused(d)
    /\ edits' = edits \/ edits' = edits + 1
    /\ crashes' = crashes \/ crashes' = crashes + 1
    /\ overtaken => overtaken'

LEMMA StepTouches ==
  ASSUME TypeOK, [Next]_vars
  PROVE  Touched
<1> USE DEF Touched
<1>0. overtaken \in BOOLEAN
  BY DEF TypeOK
<1>1. CASE \E c \in Codes : SaveDraft(c)
  <2>1. UNCHANGED <<ops, recoveryOp, deployVars>>
    BY <1>1 DEF SaveDraft, Save
  <2> QED
    BY <1>1, <2>1 DEF deployVars
<1>2. CASE \E c \in Codes : RequestApply(c) \/ RequestRecover(c)
  <2>1. UNCHANGED <<profile, recoveryOp, files, gw, registryDb, baseline, snap, edits, crashes,
                    overtaken>>
    BY <1>2 DEF RequestApply, RequestRecover, Enqueue, deployVars
  <2> QED
    BY <1>2, <2>1
<1>3. CASE Bootstrap \/ Reconcile
  BY <1>3 DEF Bootstrap, Reconcile
<1>4. CASE ImportWrite \/ ImportAdopt \/ \E s \in Secrets : ImportBegin(s)
  <2>1. /\ UNCHANGED <<profile, ops, recoveryOp, registryDb, gw, snap, edits, crashes, overtaken>>
        /\ files' = files \/ ImportWrite
        /\ baseline' = baseline \/ ImportAdopt
    BY <1>4 DEF ImportWrite, ImportAdopt, ImportBegin
  <2> QED
    BY <2>1
<1>5. CASE \E d \in Drainers : DrainSelect(d) \/ ApplyDeclined(d) \/ Crash(d)
  BY <1>5 DEF DrainSelect, ApplyDeclined, Crash
<1>6. CASE \E d \in Drainers : ApplyBegin(d) \/ RestartBegin(d)
  BY <1>0, <1>6 DEF ApplyBegin, RestartBegin
<1>7. CASE \E d \in Drainers : RestartRefused(d)
  <2>1. UNCHANGED <<profile, files, gw, registryDb, baseline, snap, edits, crashes, overtaken>>
    BY <1>7 DEF RestartRefused
  <2> QED
    BY <1>7, <2>1
<1>8. CASE CheckPreview \/ SnapshotOpen \/ SnapshotFill
  BY <1>8 DEF CheckPreview, SnapshotOpen, SnapshotFill
<1>9. CASE StageRunning
  BY <1>9 DEF StageRunning, Stage
<1>10. CASE WriteRoutes \/ WriteOverride \/ ExportRegistry \/ RestoreFile
  BY <1>10 DEF WriteRoutes, WriteOverride, ExportRegistry, RestoreFile, WriteFile
<1>11. CASE RollInstance \/ RegisterAgents \/ FinishApply \/ CheckHost
  <2>1. /\ UNCHANGED <<profile, ops, recoveryOp, files, baseline, snap, edits, crashes, overtaken>>
        /\ registryDb' = registryDb \/ RegisterAgents
        /\ gw' = gw \/ RollInstance
    BY <1>11 DEF RollInstance, RegisterAgents, FinishApply, CheckHost
  <2> QED
    BY <2>1
<1>12. CASE CommitApply
  BY <1>12 DEF CommitApply, Stage
<1>13. CASE ApplyFails
  BY <1>13 DEF ApplyFails, Stage
<1>14. CASE Rebase
  BY <1>14 DEF Rebase, Stage
<1>15. CASE StageRestored
  BY <1>15 DEF StageRestored, Stage
<1>16. CASE RestoreFails
  <2>1. UNCHANGED <<profile, files, registryDb, baseline, snap, edits, crashes, overtaken>>
    BY <1>16 DEF RestoreFails
  <2> QED
    BY <1>16, <2>1
<1>17. CASE RecoverUnlock
  BY <1>17 DEF RecoverUnlock
<1>18. CASE RecoverCloseTarget \/ RecoverCloseSelf
  BY <1>18 DEF RecoverCloseTarget, RecoverCloseSelf, Stage
<1>19. CASE \E o \in OpIds : RecoverBegin(o)
  BY <1>19 DEF RecoverBegin
<1>20. CASE OutsideEdit \/ OtherTakes \/ OtherReleases \/ UNCHANGED vars
  BY <1>20 DEF OutsideEdit, OtherTakes, OtherReleases, vars
<1> QED
  BY <1>1, <1>2, <1>3, <1>4, <1>5, <1>6, <1>7, <1>8, <1>9, <1>10, <1>11, <1>12, <1>13, <1>14,
     <1>15, <1>16, <1>17, <1>18, <1>19, <1>20
     DEF Next, JobStep, Forward, Backward, Begin

(* A new operation takes a row that was unused. *)
LEMMA RequestRow ==
  ASSUME Before, NEW c \in Codes, RequestApply(c) \/ RequestRecover(c)
  PROVE  /\ lastOp + 1 \in OpIds /\ ops'[lastOp + 1].status = "queued"
         /\ ops[lastOp + 1].status = "none" /\ snap[lastOp + 1].state = "none"
         /\ \A o \in OpIds : o # lastOp + 1 => ops'[o] = ops[o]
<1>1. PICK kind \in {"apply", "recover"} : Enqueue(c, kind)
  BY DEF RequestApply, RequestRecover
<1>2. /\ lastOp + 1 \in OpIds /\ ops'[lastOp + 1].status = "queued"
      /\ \A o \in OpIds : o # lastOp + 1 => ops'[o] = ops[o]
  BY <1>1, EnqueueType DEF Before, TypeInv, TypeOK, Kinds
<1>3. lastOp \in Nat
  BY DEF Before, TypeInv, TypeOK, StoreTypeOK
<1>4. ops[lastOp + 1].status = "none"
  BY <1>2, <1>3 DEF Before, PointerInv, FreshRows
<1>5. snap[lastOp + 1].state = "none"
  BY <1>2, <1>4 DEF Before, ApplyInv, SnapRows
<1> QED
  BY <1>2, <1>4, <1>5

Ended == {"applied", "failed", "recovered", "recovery-required"}

(* The row an ending step writes. *)
LEMMA EndedRow ==
  ASSUME Before, NEW o \in OpIds, NEW status \in Ended, Stage(o, status)
  PROVE  /\ ops'[o].status \in Ended
         /\ \A p \in OpIds : p # o => ops'[p] = ops[p]
BY StageRow DEF Ended, Before, TypeInv, TypeOK, Statuses

(* A row changes when its operation is requested, when its rollout starts and *)
(* when it ends.                                                              *)
LEMMA RowStep ==
  ASSUME Before, [Next]_vars, NEW o \in OpIds, ops'[o] # ops[o]
  PROVE  \/ /\ ops[o].status = "none" /\ ops'[o].status = "queued"
            /\ snap[o].state = "none"
            /\ UNCHANGED snap
         \/ StageRunning /\ o = job.op
         \/ ops'[o].status \in Ended
<1>1. Touched
  BY StepTouches DEF Before, TypeInv
<1>2. ops' # ops
  OBVIOUS
<1>3. CASE \E c \in Codes : RequestApply(c) \/ RequestRecover(c)
  <2>1. PICK c \in Codes : RequestApply(c) \/ RequestRecover(c)
    BY <1>3
  <2>2. UNCHANGED snap
    BY <2>1 DEF RequestApply, RequestRecover, deployVars
  <2> QED
    BY <2>1, <2>2, RequestRow
<1>4. CASE StageRunning
  <2>1. job.op \in OpIds /\ Stage(job.op, "running")
    BY <1>4 DEF StageRunning, Before, TypeInv, JobOK, Working, ApplySteps
  <2>2. o = job.op
    BY <2>1, StageRow, StatusNames DEF Before, TypeInv, TypeOK
  <2> QED
    BY <1>4, <2>2
<1>5. CASE \E d \in Drainers : RestartRefused(d)
  <2>1. PICK d \in Drainers : RestartRefused(d)
    BY <1>5
  <2>2. picked[d] \in OpIds /\ Stage(picked[d], "recovery-required")
    BY <2>1, PickedRows DEF RestartRefused, Before
  <2> QED
    BY <2>2, EndedRow DEF Ended
<1>6. CASE \/ CommitApply \/ ApplyFails \/ Rebase \/ StageRestored \/ RestoreFails
           \/ RecoverCloseTarget \/ RecoverCloseSelf
  <2>1. job.pc \in Working
    BY <1>6 DEF CommitApply, ApplyFails, Rebase, StageRestored, RestoreFails, RecoverCloseTarget,
                RecoverCloseSelf, Working, ApplySteps, RebaseSteps, CloseSteps
  <2>2. job.op \in OpIds /\ job.target \in OpIds
    BY <2>1 DEF Before, TypeInv, JobOK
  <2>3. PICK p \in {job.op, job.target}, status \in Ended : Stage(p, status)
    BY <1>2, <1>6
       DEF CommitApply, ApplyFails, Rebase, StageRestored, RestoreFails, RecoverCloseTarget,
           RecoverCloseSelf, Ended
  <2>4. p \in OpIds
    BY <2>2, <2>3
  <2> QED
    BY <2>3, <2>4, EndedRow
<1> QED
  BY <1>1, <1>2, <1>3, <1>4, <1>5, <1>6 DEF Touched

(* An apply has begun once its snapshot is whole. *)
LEMMA BegunStep ==
  ASSUME Before, [Next]_vars, NEW o \in OpIds, Begun(o)'
  PROVE  Begun(o) \/ (SnapshotFill /\ o = job.op)
<1>0. StoreTypeOK /\ StoreTypeOK' /\ snap \in [OpIds -> Snapshots]
  BY StepTypeInv DEF Before, TypeInv, TypeOK
<1>1. /\ ops'[o].kind = "apply"
      /\ \/ ops'[o].status = "running"
         \/ ops'[o].status = "queued" /\ snap'[o].state = "complete"
  BY <1>0, BegunMeansNext
<1>2. CASE ops'[o] # ops[o]
  <2>1. StageRunning /\ o = job.op
    BY <1>1, <1>2, RowStep DEF Ended
  <2> QED
    BY <2>1, SagaApplies, SagaBegun DEF StageRunning, ApplySteps
<1>3. CASE ops'[o] = ops[o]
  <2>1. CASE snap'[o].state = snap[o].state
    BY <1>0, <1>1, <1>3, <2>1, BegunMeans
  <2>2. CASE SnapshotFill
    <3>1. o # job.op => snap'[o] = snap[o]
      BY <1>0, <2>2 DEF SnapshotFill
    <3> QED
      BY <2>1, <2>2, <3>1
  <2>3. CASE SnapshotOpen
    <3>1. snap'[o].state = snap[o].state \/ snap'[o].state = "partial"
      <4>1. CASE UNCHANGED snap
        BY <4>1
      <4>2. CASE snap' = [snap EXCEPT ![job.op].state = "partial"]
        <5>1. snap' = [snap EXCEPT ![job.op] = [snap[job.op] EXCEPT !.state = "partial"]]
          BY <4>2
        <5>2. CASE o = job.op
          <6>1. [snap[o] EXCEPT !.state = "partial"].state = "partial"
            BY <1>0 DEF Snapshots
          <6> QED
            BY <1>0, <5>1, <5>2, <6>1
        <5>3. CASE o # job.op
          BY <1>0, <5>1, <5>3
        <5> QED
          BY <5>2, <5>3
      <4> QED
        BY <2>3, <4>1, <4>2 DEF SnapshotOpen
    <3>2. ops'[o].status = "running" => Begun(o)
      BY <1>0, <1>1, <1>3, BegunMeans
    <3> QED
      BY <1>1, <2>1, <3>1, <3>2
  <2> QED
    BY <2>1, <2>2, <2>3, StepTouches DEF Touched, Before, TypeInv
<1> QED
  BY <1>2, <1>3

(* The saved files of an operation change only when its snapshot is filled. *)
LEMMA SavedStep ==
  ASSUME Before, [Next]_vars, NEW o \in OpIds
  PROVE  snap'[o].files = snap[o].files
           \/ (SnapshotFill /\ o = job.op /\ snap'[o].files = files)
<1>0. snap \in [OpIds -> Snapshots]
  BY DEF Before, TypeInv, TypeOK
<1>1. CASE UNCHANGED snap
  BY <1>1
<1>2. CASE SnapshotFill
  BY <1>0, <1>2 DEF SnapshotFill
<1>3. CASE SnapshotOpen /\ snap' = [snap EXCEPT ![job.op].state = "partial"]
  <2>1. snap' = [snap EXCEPT ![job.op] = [snap[job.op] EXCEPT !.state = "partial"]]
    BY <1>3
  <2>2. [snap[o] EXCEPT !.state = "partial"].files = snap[o].files
    BY <1>0 DEF Snapshots
  <2> QED
    BY <1>0, <2>1, <2>2
<1> QED
  BY <1>1, <1>2, <1>3, StepTouches DEF Touched, SnapshotOpen, Before, TypeInv

(* A restore goes back to what the pointer names or to what its own operation *)
(* saved, which is then the only one that has begun.                          *)
LEMMA RestoreGoesBack ==
  ASSUME Before, job.pc \in RestoreSteps \cup RebaseSteps
  PROVE  /\ job.target \in OpIds
         /\ \/ job.mode = "recover" /\ recoveryOp = job.target /\ recoveryOp # 0
            \/ /\ job.mode # "recover" /\ job.op = job.target /\ Begun(job.target)
               /\ \A p \in OpIds : Begun(p) => p = job.target
<1>1. job.pc \in Working /\ job.pc \notin CloseSteps
  BY DEF Working, RestoreSteps, RestoreFiles, RebaseSteps, CloseSteps
<1>2. job.target \in OpIds /\ job.target # 0
  BY <1>1, StoreAssumption DEF Before, TypeInv, JobOK, OpIds
<1>3. CASE job.mode = "recover"
  BY <1>1, <1>2, <1>3 DEF Before, PointerInv, RecoveryIsOpen, CloseSteps
<1>4. CASE job.mode # "recover"
  <2>1. Begun(job.op) /\ \A p \in OpIds : Begun(p) => p = job.op
    BY <1>4, SagaBegun
  <2>2. job.target = job.op
    BY <1>1, <1>4, SagaRow
  <2> QED
    BY <1>2, <1>4, <2>1, <2>2
<1> QED
  BY <1>3, <1>4

(* The pointer names an operation that had begun until then. *)
LEMMA PointerStep ==
  ASSUME Before, [Next]_vars
  PROVE  \/ recoveryOp' = recoveryOp
         \/ recoveryOp' = 0 /\ RecoverUnlock
         \/ \E o \in OpIds : recoveryOp' = o /\ Begun(o)
<1>1. CASE RecoverUnlock
  BY <1>1 DEF RecoverUnlock
<1>2. CASE \E d \in Drainers : RestartRefused(d)
  <2>1. PICK d \in Drainers : RestartRefused(d)
    BY <1>2
  <2>2. /\ picked[d] \in OpIds /\ ops[picked[d]].kind = "apply"
        /\ ops[picked[d]].status = "running" /\ Stage(picked[d], "recovery-required")
    BY <2>1, PickedRows DEF RestartRefused, Before, PointerInv, PickIsOpen
  <2>3. Begun(picked[d]) /\ recoveryOp' = picked[d]
    BY <2>2, BegunMeans, StageRow, StatusNames DEF Before, TypeInv, TypeOK
  <2> QED
    BY <2>2, <2>3
<1>3. CASE RestoreFails
  <2>1. CASE job.mode = "recover"
    BY <1>3, <2>1 DEF RestoreFails, Stage
  <2>2. CASE job.mode # "recover"
    <3>1. job.pc \in RestoreSteps \cup RebaseSteps /\ recoveryOp' = job.op
      BY <1>3, <2>2 DEF RestoreFails, Stage, Before, PointerInv, ModeOfStep
    <3> QED
      BY <2>2, <3>1, RestoreGoesBack
  <2> QED
    BY <2>1, <2>2
<1> QED
  BY <1>1, <1>2, <1>3, StepTouches DEF Touched, Before, TypeInv

(* An instance keeps its environment or gets the one in the file. *)
LEMMA RecreatedEnvironment ==
  ASSUME TypeOK, NEW k \in Instances, NEW up \in BOOLEAN, Recreated(k, up), NEW i \in Instances
  PROVE  gw'[i].view.environment =
           IF i = k THEN files.environment ELSE gw[i].view.environment
<1>1. gw \in [Instances -> [up : BOOLEAN, view : View]]
  BY DEF TypeOK
<1>2. gw'[i] = IF i = k THEN [up |-> up, view |-> ViewOf(files)] ELSE gw[i]
  BY <1>1 DEF Recreated
<1>3. ViewOf(files).environment = files.environment
  BY DEF ViewOf
<1> QED
  BY <1>2, <1>3

LEMMA GatewayStep ==
  ASSUME Before, [Next]_vars, NEW i \in Instances
  PROVE  gw'[i].view.environment \in {gw[i].view.environment, files.environment}
<1>0. TypeOK
  BY DEF Before, TypeInv
<1>1. CASE gw' = gw
  BY <1>1
<1>2. CASE RollInstance \/ ApplyFails \/ RestoreFails
  <2>1. CASE gw' = gw
    BY <2>1
  <2>2. CASE gw' # gw
    <3>1. PICK up \in BOOLEAN :
             Recreated(RollIndex[job.pc], up)
               /\ job.pc \in {"roll1", "roll2", "reroll1", "reroll2"}
      BY <1>2, <2>2 DEF RollInstance, ApplyFails, RestoreFails, RollDebris, NextRoll, RollIndex
    <3>2. RollIndex[job.pc] \in Instances
      BY <3>1, RollNames, TwoInstances
    <3> QED
      BY <1>0, <3>1, <3>2, RecreatedEnvironment
  <2> QED
    BY <2>1, <2>2
<1> QED
  BY <1>0, <1>1, <1>2, StepTouches DEF Touched

(* The six artefacts beside managed.env. *)
Alike(f, g) ==
    /\ f.ext = g.ext /\ f.routes = g.routes /\ f.registry = g.registry
    /\ f.override = g.override /\ f.refs = g.refs /\ f.host = g.host

LEMMA RestoreFileStep ==
  ASSUME Before, RestoreFile
  PROVE  /\ job.pc \in RestoreSteps
         /\ files'.environment \in {files.environment, Saved.environment}
         /\ Alike(Saved, files) => Alike(files', files)
<1>1. files \in Files
  BY DEF Before, TypeInv, TypeOK
<1>2. job.pc \in RestoreSteps
  BY DEF RestoreFile, RestoreSteps
<1>3. CASE files' = [files EXCEPT !.routes = Saved.routes, !.ext = Saved.ext]
  BY <1>1, <1>2, <1>3 DEF Files, Alike
<1>4. CASE files' = [files EXCEPT !.registry = Saved.registry]
  BY <1>1, <1>2, <1>4 DEF Files, Alike
<1>5. CASE files' = [files EXCEPT !.override = Saved.override, !.refs = Saved.refs]
  BY <1>1, <1>2, <1>5 DEF Files, Alike
<1>6. CASE files' = [files EXCEPT !.environment = Saved.environment]
  BY <1>1, <1>2, <1>6 DEF Files, Alike
<1> QED
  BY <1>3, <1>4, <1>5, <1>6 DEF RestoreFile, WriteFile

(* Files change when an edit is made from outside, a secret is imported, a    *)
(* rollout writes them or a restore puts them back.                           *)
LEMMA FilesStep ==
  ASSUME Before, [Next]_vars
  PROVE  \/ files' = files
         \/ edits' # 0 /\ files'.environment = files.environment
         \/ ImportWrite /\ Alike(files', files) /\ files.environment \subseteq files'.environment
         \/ job.pc \in WriteSteps /\ files'.environment = files.environment
         \/ RestoreFile
<1>1. files \in Files /\ edits \in Nat
  BY DeployAssumption DEF Before, TypeInv, TypeOK
<1>2. CASE OutsideEdit
  BY <1>1, <1>2 DEF OutsideEdit, Files
<1>3. CASE ImportWrite
  BY <1>1, <1>3 DEF ImportWrite, Files, Alike
<1>4. CASE WriteRoutes \/ WriteOverride \/ ExportRegistry
  BY <1>1, <1>4 DEF WriteRoutes, WriteOverride, ExportRegistry, WriteFile, Files, WriteSteps
<1> QED
  BY <1>2, <1>3, <1>4, StepTouches DEF Touched, Before, TypeInv

-----------------------------------------------------------------------------
(* What rest rests on. *)

Needed      == SecretOf[Code][Expected]
Covers(env) == \A c \in Codes : Applied[c] # 0 => SecretOf[c][Applied[c]] \in env

(* The secret of the draft being applied was there when the preview was       *)
(* checked, nothing takes it away, and the instances were recreated with it.  *)
SecretAtHand ==
    /\ job.pc \in ApplySteps \ {"preview"} => Needed \in files.environment
    /\ job.pc = "roll2" => Needed \in gw[1].view.environment
    /\ job.pc \in {"register", "export", "commit"} =>
         Needed \in gw[1].view.environment /\ Needed \in gw[2].view.environment

(* Every version of managed.env that is in use or may be put back has the     *)
(* secrets of what is applied.                                                *)
Covered ==
    ~overtaken =>
        /\ Covers(files.environment)
        /\ \A i \in Instances : Covers(gw[i].view.environment)
        /\ \A o \in OpIds : Begun(o) => Covers(snap[o].files.environment)
        /\ recoveryOp # 0 => Covers(snap[recoveryOp].files.environment)

(* Between the rebase and the status the baseline is what is there. *)
Rebased ==
    edits = 0 /\ job.pc \in {"fail", "unlock"} =>
        baseline.files = files /\ baseline.registry = registryDb

Steady     == recoveryOp = 0 /\ Running = {} /\ baseline.set
Waiting(o) == Begun(o) /\ ops[o].status = "queued"

(* An apply that has saved the files but not yet touched them can go back to  *)
(* no other, and outside a rollout the baseline is what is there.             *)
NoDriftYet ==
    edits = 0 /\ ~overtaken =>
        /\ \A o \in OpIds : Waiting(o) => Alike(snap[o].files, files)
        /\ Steady => baseline.registry = registryDb /\ Alike(baseline.files, files)

(* Without a crash the same is true of managed.env: only the apply at work    *)
(* has a snapshot, and no secret is imported under it.                        *)
NoCrashYet ==
    edits = 0 /\ ~overtaken /\ crashes = 0 =>
        /\ \A o \in OpIds :
             Begun(o) => job.pc \in Working /\ job.mode # "recover" /\ job.op = o
        /\ \A o \in OpIds : Waiting(o) => snap[o].files.environment = files.environment
        /\ Steady /\ job.pc # "adopt" => baseline.files.environment = files.environment

RestInv == SecretAtHand /\ Covered /\ Rebased /\ NoDriftYet /\ NoCrashYet

-----------------------------------------------------------------------------
(* The secrets. *)

LEMMA HandKept ==
  ASSUME Before, SecretAtHand, files'.environment = files.environment, UNCHANGED gw,
         job.op \in OpIds => ops'[job.op].code = ops[job.op].code
                               /\ ops'[job.op].rev = ops[job.op].rev,
         job'.op = job.op,
         \/ job'.pc = job.pc
         \/ /\ job.pc \in ApplySteps \ {"preview"} /\ job'.pc \in ApplySteps
            /\ job'.pc # "roll2"
            /\ job'.pc \in {"register", "export", "commit"}
                 => job.pc \in {"register", "export", "commit"}
  PROVE  SecretAtHand'
<1>1. CASE job'.pc \in ApplySteps \ {"preview"}
  <2>1. job.pc \in ApplySteps \ {"preview"} /\ job.pc \in Working
    BY <1>1 DEF Working
  <2>2. Needed' = Needed
    BY <2>1 DEF Before, TypeInv, JobOK, Needed, Code, Expected
  <2> QED
    BY <2>1, <2>2 DEF SecretAtHand, ApplySteps
<1>2. CASE job'.pc \notin ApplySteps \ {"preview"}
  BY <1>2 DEF SecretAtHand, ApplySteps
<1> QED
  BY <1>1, <1>2

LEMMA HandGone ==
  ASSUME job'.pc \notin ApplySteps \/ job'.pc = "preview"
  PROVE  SecretAtHand'
BY DEF SecretAtHand, ApplySteps

LEMMA HandPreview ==
  ASSUME Before, CheckPreview
  PROVE  SecretAtHand'
<1>1. job \in Jobs
  BY DEF Before, TypeInv, TypeOK
<1>2. job'.pc = "snapshot" /\ job'.op = job.op /\ UNCHANGED <<ops, files>>
  BY <1>1 DEF CheckPreview, Jobs
<1>3. Needed \in files.environment
  BY DEF CheckPreview, PreviewOK, Needed
<1>4. Needed' = Needed
  BY <1>2 DEF Needed, Code, Expected
<1> QED
  BY <1>2, <1>3, <1>4 DEF SecretAtHand

LEMMA HandRolls ==
  ASSUME Before, SecretAtHand, RollInstance
  PROVE  SecretAtHand'
<1>0. job \in Jobs /\ TypeOK
  BY DEF Before, TypeInv, TypeOK
<1>1. /\ job'.pc = NextRoll[job.pc] /\ job'.op = job.op /\ UNCHANGED <<ops, files>>
      /\ job.pc \in {"roll1", "roll2", "reroll1", "reroll2"}
      /\ Recreated(RollIndex[job.pc], TRUE)
  BY <1>0, Advanced DEF RollInstance, NextRoll
<1>2. Needed' = Needed
  BY <1>1 DEF Needed, Code, Expected
<1>3. CASE job.pc = "roll1"
  <2>0. Recreated(1, TRUE)
    BY <1>1, <1>3, RollNames
  <2>1. job'.pc = "roll2"
    BY <1>1, <1>3 DEF NextRoll
  <2>2. gw'[1].view.environment = files.environment
    BY <1>0, <2>0, TwoInstances, RecreatedEnvironment
  <2> QED
    BY <1>1, <1>2, <1>3, <2>1, <2>2 DEF SecretAtHand, ApplySteps
<1>4. CASE job.pc = "roll2"
  <2>0. Recreated(2, TRUE)
    BY <1>1, <1>4, RollNames
  <2>1. job'.pc = "register"
    BY <1>1, <1>4 DEF NextRoll
  <2>2. /\ gw'[2].view.environment = files.environment
        /\ gw'[1].view.environment = gw[1].view.environment
    <3>1. \A i \in Instances : gw'[i].view.environment =
            IF i = 2 THEN files.environment ELSE gw[i].view.environment
      BY <1>0, <2>0, TwoInstances, RecreatedEnvironment
    <3> QED
      BY <3>1 DEF Instances
  <2> QED
    BY <1>1, <1>2, <1>4, <2>1, <2>2 DEF SecretAtHand, ApplySteps
<1>5. CASE job.pc \in {"reroll1", "reroll2"}
  BY <1>1, <1>5, HandGone DEF NextRoll, ApplySteps
<1> QED
  BY <1>1, <1>3, <1>4, <1>5

(* A running job's row is not the one a request takes. *)
LEMMA HandRequest ==
  ASSUME Before, NEW c \in Codes, RequestApply(c) \/ RequestRecover(c), job.pc \in Working
  PROVE  ops'[job.op] = ops[job.op]
<1>1. job.op \in OpIds /\ ops[job.op].status # "none"
  BY DEF Before, TypeInv, JobOK, PointerInv, SagaIsOpen, RecoveryIsOpen, Unresolved
<1> QED
  BY <1>1, RequestRow

LEMMA StepSecretAtHand ==
  ASSUME Before, SecretAtHand, [Next]_vars
  PROVE  SecretAtHand'
<1>0. job \in Jobs /\ files \in Files /\ StoreTypeOK
  BY DEF Before, TypeInv, TypeOK
<1>1. CASE \E c \in Codes : RequestApply(c) \/ RequestRecover(c)
  <2>1. PICK c \in Codes : RequestApply(c) \/ RequestRecover(c)
    BY <1>1
  <2>2. UNCHANGED <<job, files, gw>>
    BY <2>1 DEF RequestApply, RequestRecover, deployVars
  <2>3. CASE job.pc \in Working
    BY <2>1, <2>2, <2>3, HandRequest, HandKept
  <2>4. CASE job.pc \notin Working
    BY <2>2, <2>4, HandGone DEF Working
  <2> QED
    BY <2>3, <2>4
<1>2. CASE UNCHANGED <<job, ops, gw>> /\ files'.environment = files.environment
  BY <1>2, HandKept
<1>3. CASE job'.pc \notin ApplySteps \/ job'.pc = "preview"
  BY <1>3, HandGone
<1>4. CASE \/ Bootstrap \/ Reconcile \/ OtherTakes \/ OtherReleases \/ UNCHANGED vars
           \/ \E c \in Codes : SaveDraft(c)
           \/ \E d \in Drainers : DrainSelect(d) \/ ApplyDeclined(d)
  BY <1>2, <1>4 DEF Bootstrap, Reconcile, OtherTakes, OtherReleases, vars, SaveDraft, Save,
                    deployVars, DrainSelect, ApplyDeclined
<1>5. CASE OutsideEdit
  <2>1. files'.environment = files.environment
    BY <1>0, <1>5 DEF OutsideEdit, Files
  <2> QED
    BY <1>2, <1>5, <2>1 DEF OutsideEdit
<1>6. CASE \E d \in Drainers : Crash(d)
  <2>1. job' = Idle \/ UNCHANGED job
    BY <1>6 DEF Crash
  <2>2. UNCHANGED <<ops, gw, files>>
    BY <1>6 DEF Crash
  <2> QED
    BY <1>2, <1>3, <2>1, <2>2, IdleType DEF ApplySteps
<1>7. CASE \/ \E s \in Secrets : ImportBegin(s)
           \/ ImportWrite \/ ImportAdopt \/ FinishApply
  <2>1. job'.pc \in {"write", "adopt", "idle"}
    BY <1>0, <1>7, IdleType, Advanced
       DEF ImportBegin, ImportWrite, ImportAdopt, FinishApply, Idle
  <2> QED
    BY <1>3, <2>1 DEF ApplySteps
<1>8. CASE \/ \E d \in Drainers : ApplyBegin(d) \/ RestartBegin(d) \/ RestartRefused(d)
           \/ \E o \in OpIds : RecoverBegin(o)
  <2>1. job'.pc \in {"preview", "undoRoutes", "idle"}
    BY <1>8, IdleType DEF ApplyBegin, RestartBegin, RestartRefused, RecoverBegin, Take, Unlocked,
                          Idle
  <2> QED
    BY <1>3, <2>1 DEF ApplySteps
<1>9. CASE CheckPreview
  BY <1>9, HandPreview
<1>10. CASE RollInstance
  BY <1>10, HandRolls
<1>11. CASE SnapshotOpen \/ SnapshotFill \/ RegisterAgents
  <2>1. /\ UNCHANGED <<ops, files, gw>> /\ job'.op = job.op
        /\ \/ job.pc = "snapshot" /\ job'.pc \in {"fill", "start"}
           \/ job.pc = "fill" /\ job'.pc = "start"
           \/ job.pc = "register" /\ job'.pc = "export"
    BY <1>0, <1>11, Advanced DEF SnapshotOpen, SnapshotFill, RegisterAgents
  <2> QED
    BY <2>1, HandKept DEF ApplySteps
<1>12. CASE StageRunning
  <2>1. /\ UNCHANGED <<files, gw>> /\ job'.op = job.op
        /\ job.pc = "start" /\ job'.pc = "routes" /\ job.op \in OpIds
    BY <1>0, <1>12, Advanced
       DEF StageRunning, Before, TypeInv, JobOK, Working, ApplySteps
  <2>2. ops'[job.op].code = ops[job.op].code /\ ops'[job.op].rev = ops[job.op].rev
    BY <1>0, <1>12, <2>1, StageRow, StatusNames DEF StageRunning
  <2> QED
    BY <2>1, <2>2, HandKept DEF ApplySteps
<1>13. CASE WriteRoutes \/ WriteOverride \/ ExportRegistry
  <2>1. /\ UNCHANGED <<ops, gw>> /\ job'.op = job.op
        /\ files'.environment = files.environment
        /\ \/ job.pc = "routes" /\ job'.pc = "override"
           \/ job.pc = "override" /\ job'.pc = "roll1"
           \/ job.pc = "export" /\ job'.pc = "commit"
    BY <1>0, <1>13, Advanced DEF WriteRoutes, WriteOverride, ExportRegistry, WriteFile, Files
  <2> QED
    BY <2>1, HandKept DEF ApplySteps
<1>14. CASE \/ CommitApply \/ ApplyFails \/ RestoreFile \/ CheckHost \/ Rebase \/ StageRestored
            \/ RestoreFails \/ RecoverUnlock \/ RecoverCloseTarget \/ RecoverCloseSelf
  <2>1. job'.pc \in {"refresh", "idle", "undoRoutes", "undoRegistry", "undoOverride",
                     "undoEnvironment", "hostcheck", "reroll1", "fail", "unlock", "closeTarget",
                     "closeSelf"}
    <3>1. CASE CommitApply
      BY <1>0, <3>1, Advanced DEF CommitApply
    <3>2. CASE ApplyFails
      BY <1>0, <3>2, IdleType DEF ApplyFails, Leave, Jobs
    <3>3. CASE RestoreFile \/ CheckHost
      BY <1>0, <3>3, Advanced DEF RestoreFile, WriteFile, CheckHost
    <3>4. CASE Rebase \/ StageRestored \/ RestoreFails
      BY <1>0, <3>4, Advanced, IdleType DEF Rebase, StageRestored, RestoreFails, Leave
    <3>5. CASE RecoverUnlock \/ RecoverCloseTarget \/ RecoverCloseSelf
      BY <1>0, <3>5, Advanced, IdleType
         DEF RecoverUnlock, RecoverCloseTarget, RecoverCloseSelf, Leave
    <3> QED
      BY <1>14, <3>1, <3>2, <3>3, <3>4, <3>5
  <2> QED
    BY <1>3, <2>1 DEF ApplySteps
<1> QED
  BY <1>1, <1>4, <1>5, <1>6, <1>7, <1>8, <1>9, <1>10, <1>11, <1>12, <1>13, <1>14
     DEF Next, JobStep, Forward, Backward, Begin

LEMMA AppliedStep ==
  ASSUME Before, [Next]_vars
  PROVE  \/ Applied' = Applied
         \/ /\ CommitApply
            /\ Applied' = [c \in Codes |-> IF c = Code THEN Expected ELSE Applied[c]]
<1>0. profile \in [Codes -> ProfileRow]
  BY DEF Before, TypeInv, TypeOK, StoreTypeOK
<1>1. CASE profile' = profile
  BY <1>1 DEF Applied
<1>2. CASE \E c \in Codes : SaveDraft(c)
  <2>1. PICK c \in Codes : SaveDraft(c)
    BY <1>2
  <2>2. profile' = [profile EXCEPT ![c] = [profile[c] EXCEPT !.rev = profile[c].rev + 1]]
    BY <1>0, <2>1 DEF SaveDraft, Save
  <2>3. [profile[c] EXCEPT !.rev = profile[c].rev + 1].applied = profile[c].applied
    BY <1>0 DEF ProfileRow
  <2>4. \A x \in Codes : profile'[x].applied = profile[x].applied
    BY <1>0, <2>2, <2>3
  <2> QED
    BY <2>4 DEF Applied
<1>3. CASE CommitApply
  <2>1. profile' = [profile EXCEPT ![Code].applied = Expected]
    BY <1>3 DEF CommitApply
  <2>2. \A c \in Codes : profile'[c].applied = IF c = Code THEN Expected ELSE profile[c].applied
    BY <1>0, <2>1 DEF ProfileRow
  <2> QED
    BY <1>3, <2>2 DEF Applied
<1> QED
  BY <1>1, <1>2, <1>3, StepTouches DEF Touched, Before, TypeInv

LEMMA CoversMore ==
  ASSUME NEW env, NEW more, Covers(env), env \subseteq more
  PROVE  Covers(more)
BY DEF Covers

(* Unless the apply commits, every version of managed.env is a former one. *)
LEMMA CoveredKept ==
  ASSUME Before, Covered, [Next]_vars, Applied' = Applied, ~overtaken'
  PROVE  Covered'
<1>0. ~overtaken
  BY StepTouches DEF Touched, Before, TypeInv
<1>1. Covers(files.environment)
  BY <1>0 DEF Covered
<1>2. Covers(files'.environment)
  <2>1. CASE RestoreFile
    <3>1. job.pc \in RestoreSteps /\ files'.environment \in {files.environment, Saved.environment}
      BY <2>1, RestoreFileStep
    <3>2. Covers(Saved.environment)
      BY <1>0, <3>1, RestoreGoesBack DEF Covered, Saved
    <3> QED
      BY <1>1, <3>1, <3>2
  <2>2. files.environment \subseteq files'.environment \/ RestoreFile
    BY FilesStep
  <2> QED
    BY <1>1, <2>1, <2>2, CoversMore
<1>3. \A i \in Instances : Covers(gw'[i].view.environment)
  BY <1>0, <1>1, GatewayStep DEF Covered
<1>4. \A o \in OpIds : Begun(o)' => Covers(snap'[o].files.environment)
  <2> SUFFICES ASSUME NEW o \in OpIds, Begun(o)' PROVE Covers(snap'[o].files.environment)
    OBVIOUS
  <2>1. CASE SnapshotFill /\ o = job.op /\ snap'[o].files = files
    BY <1>1, <2>1
  <2>2. CASE ~(SnapshotFill /\ o = job.op /\ snap'[o].files = files)
    <3>1. snap'[o].files = snap[o].files
      BY <2>2, SavedStep
    <3>2. Begun(o) \/ (SnapshotFill /\ o = job.op)
      BY BegunStep
    <3>3. CASE Begun(o)
      BY <1>0, <3>1, <3>3 DEF Covered
    <3>4. CASE SnapshotFill /\ o = job.op
      <4>1. snap'[o].files = files
        BY <3>4 DEF SnapshotFill, Before, TypeInv, TypeOK
      <4> QED
        BY <2>2, <3>4, <4>1
    <3> QED
      BY <3>2, <3>3, <3>4
  <2> QED
    BY <2>1, <2>2
<1>5. recoveryOp' # 0 => Covers(snap'[recoveryOp'].files.environment)
  <2> SUFFICES ASSUME recoveryOp' # 0 PROVE Covers(snap'[recoveryOp'].files.environment)
    OBVIOUS
  <2>1. PICK o \in OpIds : recoveryOp' = o /\ (o = recoveryOp \/ Begun(o))
    BY PointerStep DEF Before, TypeInv, TypeOK, StoreTypeOK, OpIds
  <2>2. Covers(snap[o].files.environment)
    BY <1>0, <2>1, StoreAssumption DEF Covered, OpIds
  <2> QED
    BY <1>1, <2>1, <2>2, SavedStep
<1> QED
  BY <1>2, <1>3, <1>4, <1>5 DEF Covered, Covers

LEMMA CoveredCommits ==
  ASSUME Before, SecretAtHand, Covered, [Next]_vars, CommitApply, ~overtaken',
         Applied' = [c \in Codes |-> IF c = Code THEN Expected ELSE Applied[c]]
  PROVE  Covered'
<1>0. /\ job.pc = "commit" /\ job.pc \in ApplySteps \ {"preview"} /\ job.pc \in WriteSteps
      /\ UNCHANGED <<files, gw, snap, overtaken>>
  BY DEF CommitApply, ApplySteps, WriteSteps
<1>1. /\ Needed \in files.environment /\ Covers(files.environment)
      /\ \A i \in Instances :
           Needed \in gw[i].view.environment /\ Covers(gw[i].view.environment)
  BY <1>0, TwoInstances DEF SecretAtHand, Covered
<1>2. ASSUME NEW env, Needed \in env, Covers(env)
      PROVE  \A c \in Codes : Applied'[c] # 0 => SecretOf[c][Applied'[c]] \in env
  BY <1>2 DEF Needed, Covers
<1>3. job.op \in OpIds /\ recoveryOp = 0 /\ \A p \in OpIds : Begun(p) => p = job.op
  BY <1>0, SagaApplies, SagaRow, SagaBegun
<1>4. \A p \in OpIds : ~Begun(p)'
  <2> SUFFICES ASSUME NEW p \in OpIds, Begun(p)' PROVE FALSE
    OBVIOUS
  <2>1. Begun(p)
    BY <1>0, BegunStep DEF SnapshotFill
  <2>2. ops'[job.op].status = "applied"
    BY <1>3, StageRow DEF CommitApply, Before, TypeInv, TypeOK, Statuses
  <2>3. StoreTypeOK'
    BY StepTypeInv DEF Before, TypeInv, TypeOK
  <2> QED
    BY <1>3, <2>1, <2>2, <2>3, BegunMeansNext
<1>5. recoveryOp' = 0
  BY <1>3 DEF CommitApply, Stage
<1> QED
  BY <1>0, <1>1, <1>2, <1>4, <1>5 DEF Covered, Covers

LEMMA StepCovered ==
  ASSUME Before, SecretAtHand, Covered, [Next]_vars
  PROVE  Covered'
<1>1. CASE overtaken'
  BY <1>1 DEF Covered
<1>2. CASE ~overtaken'
  BY <1>2, AppliedStep, CoveredKept, CoveredCommits
<1> QED
  BY <1>1, <1>2

-----------------------------------------------------------------------------
(* The baseline. *)

LEMMA StepRebased ==
  ASSUME Before, Rebased, [Next]_vars
  PROVE  Rebased'
<1> SUFFICES ASSUME edits' = 0, job'.pc \in {"fail", "unlock"}
             PROVE  baseline'.files = files' /\ baseline'.registry = registryDb'
  BY DEF Rebased
<1>0. /\ Touched /\ job \in Jobs /\ edits \in Nat /\ baseline \in Baselines
      /\ snap \in [OpIds -> Snapshots]
  BY StepTouches, DeployAssumption DEF Before, TypeInv, TypeOK
<1>1. CASE Rebase
  <2>1. /\ baseline' = [snap[job.target].base EXCEPT !.files = files, !.registry = registryDb]
        /\ job.pc = "rebase" /\ UNCHANGED <<files, registryDb>>
    BY <1>1 DEF Rebase
  <2>2. snap[job.target].base \in Baselines
    BY <1>0, <2>1 DEF Before, TypeInv, JobOK, Working, RebaseSteps, Snapshots
  <2> QED
    BY <2>1, <2>2 DEF Baselines
<1>2. CASE job.pc \in {"fail", "unlock"}
  <2>1. baseline' = baseline \/ Rebase
    BY <1>0, <1>2 DEF Touched, Bootstrap, Reconcile, Unlocked, Idle, ImportAdopt, CommitApply
  <2>2. files' = files
    BY <1>2, FilesStep DEF WriteSteps, ImportWrite, RestoreFile, RestoreFiles
  <2>3. edits = 0 /\ registryDb' = registryDb
    BY <1>0, <1>2 DEF Touched, RegisterAgents
  <2> QED
    BY <1>1, <1>2, <2>1, <2>2, <2>3 DEF Rebased
<1>3. Rebase \/ job.pc \in {"fail", "unlock"}
  <2>1. CASE UNCHANGED job
    BY <2>1
  <2>2. CASE job' = Idle
    BY <2>2, IdleType
  <2>3. CASE \/ Bootstrap \/ Reconcile \/ OutsideEdit \/ OtherTakes \/ OtherReleases
             \/ UNCHANGED vars
             \/ \E c \in Codes : SaveDraft(c) \/ RequestApply(c) \/ RequestRecover(c)
             \/ \E d \in Drainers : DrainSelect(d) \/ ApplyDeclined(d) \/ RestartRefused(d)
    BY <2>1, <2>3 DEF Bootstrap, Reconcile, OutsideEdit, OtherTakes, OtherReleases, vars, SaveDraft,
                      RequestApply, RequestRecover, deployVars, DrainSelect, ApplyDeclined,
                      RestartRefused
  <2>4. CASE ImportAdopt \/ FinishApply \/ StageRestored \/ RestoreFails \/ RecoverCloseSelf
    BY <2>2, <2>4 DEF ImportAdopt, FinishApply, StageRestored, RestoreFails, RecoverCloseSelf, Leave
  <2>5. CASE \E d \in Drainers : Crash(d)
    BY <2>1, <2>2, <2>5 DEF Crash
  <2>6. CASE \/ \E d \in Drainers : ApplyBegin(d) \/ RestartBegin(d)
             \/ \E o \in OpIds : RecoverBegin(o)
             \/ \E s \in Secrets : ImportBegin(s)
    <3>1. job'.pc \in {"preview", "undoRoutes", "write"}
      BY <2>6 DEF ApplyBegin, RestartBegin, RecoverBegin, ImportBegin, Take, Idle
    <3> QED
      BY <3>1
  <2>7. CASE \/ ImportWrite \/ WriteRoutes \/ WriteOverride \/ ExportRegistry \/ RestoreFile
    <3>1. job'.pc \in {"adopt", "override", "roll1", "commit", "undoRegistry", "undoOverride",
                       "undoEnvironment", "hostcheck"}
      BY <1>0, <2>7, Advanced
         DEF ImportWrite, WriteRoutes, WriteOverride, ExportRegistry, RestoreFile, WriteFile
    <3> QED
      BY <3>1
  <2>8. CASE \/ SnapshotOpen \/ SnapshotFill \/ StageRunning \/ RegisterAgents \/ CommitApply
             \/ CheckHost \/ RecoverUnlock \/ RecoverCloseTarget
    <3>1. job'.pc \in {"fill", "start", "routes", "export", "refresh", "reroll1", "closeTarget",
                       "closeSelf"}
      BY <1>0, <2>8, Advanced
         DEF SnapshotOpen, SnapshotFill, StageRunning, RegisterAgents, CommitApply, CheckHost,
             RecoverUnlock, RecoverCloseTarget
    <3> QED
      BY <3>1
  <2>9. CASE CheckPreview \/ RollInstance
    <3>1. CASE CheckPreview
      <4>1. job'.pc = "snapshot"
        BY <1>0, <3>1 DEF CheckPreview, Jobs
      <4> QED
        BY <4>1
    <3>2. CASE RollInstance
      <4>1. job'.pc = NextRoll[job.pc] /\ job.pc \in DOMAIN NextRoll
        BY <1>0, <3>2, Advanced DEF RollInstance
      <4>2. job'.pc \in {"roll2", "register", "reroll2", "rebase"}
        BY <4>1 DEF NextRoll
      <4> QED
        BY <4>2
    <3> QED
      BY <2>9, <3>1, <3>2
  <2>10. CASE ApplyFails
    <3>1. job'.pc \in {"idle", "undoRoutes"}
      BY <1>0, <2>10, IdleType DEF ApplyFails, Leave, Jobs
    <3> QED
      BY <3>1
  <2> QED
    BY <2>3, <2>4, <2>5, <2>6, <2>7, <2>8, <2>9, <2>10
       DEF Next, JobStep, Forward, Backward, Begin
<1> QED
  BY <1>1, <1>2, <1>3

(* The saga ends with a commit or with a rebase, or leaves the pointer. *)
LEMMA SteadyStep ==
  ASSUME Before, [Next]_vars, recoveryOp' = 0, Running' = {},
         recoveryOp # 0 \/ Running # {}
  PROVE  RecoverUnlock \/ StageRestored \/ CommitApply \/ Rebase
<1>0. TypeOK /\ StoreTypeOK /\ Touched
  BY StepTouches DEF Before, TypeInv, TypeOK
<1>1. CASE recoveryOp # 0
  BY <1>1, PointerStep, StoreAssumption DEF OpIds
<1>2. CASE Running # {}
  <2>1. PICK o \in OpIds : ops[o].kind = "apply" /\ ops[o].status = "running"
    BY <1>2 DEF Running
  <2>2. ops'[o] # ops[o] /\ ops' # ops
    BY <2>1 DEF Running
  <2>3. o # 0
    BY StoreAssumption DEF OpIds
  <2>4. ~(\E c \in Codes : RequestApply(c) \/ RequestRecover(c))
    BY <2>1, <2>2, RequestRow
  <2>5. ~StageRunning
    <3> SUFFICES ASSUME StageRunning PROVE FALSE
      OBVIOUS
    <3>1. job.op \in OpIds /\ job.pc \in FirstSteps
      BY DEF StageRunning, Before, TypeInv, JobOK, Working, ApplySteps, FirstSteps
    <3>2. ops[job.op].status = "queued"
      BY <3>1 DEF Before, ApplyInv, SagaOnRecord
    <3> QED
      BY <1>0, <2>1, <2>2, <3>1, <3>2, StageRow, StatusNames DEF StageRunning
  <2>6. ~ApplyFails
    <3> SUFFICES ASSUME ApplyFails PROVE FALSE
      OBVIOUS
    <3>1. /\ job.op \in OpIds /\ snap[job.op].state # "complete"
          /\ Stage(job.op, "failed")
      BY <2>2 DEF ApplyFails, Before, TypeInv, JobOK, Working
    <3>2. o = job.op
      BY <1>0, <2>2, <3>1, StageRow, StatusNames
    <3> QED
      BY <2>1, <3>1, <3>2 DEF Before, SnapInv, SnapshotCovers, Running
  <2>7. ~RestoreFails
    <3> SUFFICES ASSUME RestoreFails PROVE FALSE
      OBVIOUS
    <3>1. job.pc \in Working /\ job.op \in OpIds
      BY DEF RestoreFails, Working, Before, TypeInv, JobOK
    <3>2. job.mode = "recover" /\ Stage(job.op, "failed")
      BY <3>1, StoreAssumption DEF RestoreFails, Stage, OpIds
    <3>3. ops[job.op].kind = "recover"
      BY <3>1, <3>2 DEF Before, PointerInv, RecoveryIsOpen
    <3> QED
      BY <1>0, <2>1, <2>2, <3>1, <3>2, <3>3, StageRow, StatusNames
  <2>8. ~(\E d \in Drainers : RestartRefused(d))
    BY DEF RestartRefused, Stage
  <2>9. ~RecoverCloseTarget
    <3> SUFFICES ASSUME RecoverCloseTarget PROVE FALSE
      OBVIOUS
    <3>1. job.pc = "closeTarget" /\ job.pc \in CloseSteps /\ job.pc \in Working
      BY DEF RecoverCloseTarget, CloseSteps, Working
    <3>2. job.target \in OpIds /\ ops[job.target].status = "recovery-required"
      BY <3>1 DEF Before, PointerInv, ModeOfStep, RecoveryIsOpen, TypeInv, JobOK
    <3> QED
      BY <1>0, <2>1, <2>2, <3>2, StageRow, StatusNames DEF RecoverCloseTarget
  <2>10. ~RecoverCloseSelf
    <3> SUFFICES ASSUME RecoverCloseSelf PROVE FALSE
      OBVIOUS
    <3>1. job.pc = "closeSelf" /\ job.pc \in CloseSteps /\ job.pc \in Working
      BY DEF RecoverCloseSelf, CloseSteps, Working
    <3>2. job.op \in OpIds /\ ops[job.op].kind = "recover"
      BY <3>1 DEF Before, PointerInv, ModeOfStep, RecoveryIsOpen, TypeInv, JobOK
    <3> QED
      BY <1>0, <2>1, <2>2, <3>2, StageRow, StatusNames DEF RecoverCloseSelf
  <2> QED
    BY <1>0, <2>2, <2>4, <2>5, <2>6, <2>7, <2>8, <2>9, <2>10 DEF Touched
<1> QED
  BY <1>1, <1>2

LEMMA WaitingStep ==
  ASSUME Before, [Next]_vars, NEW o \in OpIds, Waiting(o)'
  PROVE  Waiting(o) \/ (SnapshotFill /\ o = job.op)
<1>1. Begun(o)' /\ ops'[o].status = "queued"
  BY DEF Waiting
<1>2. CASE Begun(o)
  <2>1. ops[o].status \in {"running", "queued"}
    BY <1>2, BegunMeans DEF Before, TypeInv, TypeOK
  <2>2. ~(StageRunning /\ o = job.op)
    BY <1>1, StageRow, StatusNames DEF StageRunning, Before, TypeInv, TypeOK
  <2>3. ops'[o] = ops[o]
    BY <1>1, <2>1, <2>2, RowStep DEF Ended
  <2> QED
    BY <1>1, <1>2, <2>3 DEF Waiting
<1> QED
  BY <1>1, <1>2, BegunStep

(* While an apply has begun, what is restored is what that apply saved. *)
LEMMA BegunIsTarget ==
  ASSUME Before, ~overtaken, job.pc \in RestoreSteps, NEW o \in OpIds, Begun(o)
  PROVE  o = job.target
BY RestoreGoesBack DEF Before, ApplyInv, WayBack

(* Outside a rollout a restore works on an operation that waits. *)
LEMMA SteadyRestore ==
  ASSUME Before, Steady, job.pc \in RestoreSteps
  PROVE  job.target \in OpIds /\ Waiting(job.target)
<1>1. job.target \in OpIds /\ Begun(job.target)
  BY RestoreGoesBack DEF Steady
<1>2. ops[job.target].status = "queued"
  BY <1>1, BegunMeans DEF Steady, Running, Before, TypeInv, TypeOK
<1> QED
  BY <1>1, <1>2 DEF Waiting

(* The rollout at work belongs to the only operation that has begun. *)
LEMMA RollIsRunning ==
  ASSUME Before, job.pc \in WriteSteps
  PROVE  /\ Running # {}
         /\ \A o \in OpIds : ~Waiting(o)
<1>1. job.pc \in ApplySteps
  BY StepSets
<1>2. /\ job.op \in OpIds /\ ops[job.op].kind = "apply" /\ ops[job.op].status = "running"
      /\ \A p \in OpIds : Begun(p) => p = job.op
  BY <1>1, SagaApplies, SagaRow, SagaBegun DEF Drainable, Before, ApplyInv, SagaOnRecord
<1> QED
  BY <1>2 DEF Running, Waiting

LEMMA NoEditStep ==
  ASSUME Before, [Next]_vars, edits' = 0, ~overtaken'
  PROVE  edits = 0 /\ ~overtaken
<1>1. edits \in Nat /\ Touched
  BY StepTouches, DeployAssumption DEF Before, TypeInv, TypeOK
<1> QED
  BY <1>1 DEF Touched

LEMMA FilledFiles ==
  ASSUME Before, SnapshotFill
  PROVE  snap'[job.op].files = files /\ files' = files
<1>1. job.op \in OpIds
  BY DEF SnapshotFill, Before, TypeInv, JobOK, Working, ApplySteps
<1> QED
  BY <1>1 DEF SnapshotFill, Before, TypeInv, TypeOK

LEMMA WaitingAlike ==
  ASSUME Before, NoDriftYet, [Next]_vars, edits' = 0, ~overtaken', NEW o \in OpIds, Waiting(o)'
  PROVE  Alike(snap'[o].files, files')
<1>0. edits = 0 /\ ~overtaken
  BY NoEditStep
<1>1. CASE SnapshotFill /\ o = job.op
  BY <1>1, FilledFiles DEF Alike
<1>2. CASE ~(SnapshotFill /\ o = job.op)
  <2>1. Waiting(o) /\ snap'[o].files = snap[o].files
    BY <1>2, WaitingStep, SavedStep
  <2>2. Alike(snap[o].files, files)
    BY <1>0, <2>1 DEF NoDriftYet
  <2>3. CASE RestoreFile
    <3>1. o = job.target
      BY <1>0, <2>1, <2>3, RestoreFileStep, BegunIsTarget DEF Waiting
    <3>2. Alike(files', files)
      BY <2>2, <2>3, <3>1, RestoreFileStep DEF Saved
    <3> QED
      BY <2>1, <2>2, <3>2 DEF Alike
  <2>4. CASE files' = files \/ Alike(files', files)
    BY <2>1, <2>2, <2>4 DEF Alike
  <2> QED
    BY <2>1, <2>3, <2>4, FilesStep, RollIsRunning
<1> QED
  BY <1>1, <1>2

(* Steps that set the baseline to what is there. *)
LEMMA BaselineIsSet ==
  ASSUME Before, Bootstrap \/ Reconcile \/ CommitApply \/ Rebase
  PROVE  baseline'.files = files' /\ baseline'.registry = registryDb'
<1>1. CASE Bootstrap \/ Reconcile \/ CommitApply
  BY <1>1 DEF Bootstrap, Reconcile, CommitApply
<1>2. CASE Rebase
  <2>1. snap[job.target].base \in Baselines
    BY <1>2 DEF Rebase, Before, TypeInv, TypeOK, JobOK, Working, RebaseSteps, Snapshots
  <2>2. baseline' = [snap[job.target].base EXCEPT !.files = files, !.registry = registryDb]
    BY <1>2 DEF Rebase
  <2> QED
    BY <1>2, <2>1, <2>2 DEF Rebase, Baselines
<1> QED
  BY <1>1, <1>2

LEMMA AdoptedBaseline ==
  ASSUME Before, ImportAdopt
  PROVE  /\ baseline'.set = baseline.set /\ baseline'.registry = baseline.registry
         /\ Alike(baseline'.files, baseline.files)
         /\ baseline'.files.environment = files.environment
         /\ UNCHANGED <<ops, recoveryOp, files, registryDb>>
<1>1. baseline \in Baselines /\ baseline.files \in Files
  BY DEF Before, TypeInv, TypeOK, Baselines
<1>2. PICK adopted : adopted = [baseline.files EXCEPT !.environment = files.environment]
  OBVIOUS
<1>3. adopted.environment = files.environment /\ Alike(adopted, baseline.files)
  BY <1>1, <1>2 DEF Files, Alike
<1>4. baseline' = [baseline EXCEPT !.files = adopted]
  BY <1>2 DEF ImportAdopt
<1>5. /\ baseline'.files = adopted /\ baseline'.set = baseline.set
      /\ baseline'.registry = baseline.registry
  BY <1>1, <1>4 DEF Baselines
<1> QED
  BY <1>3, <1>5 DEF ImportAdopt

LEMMA StepNoDriftYet ==
  ASSUME Before, Rebased, NoDriftYet, [Next]_vars
  PROVE  NoDriftYet'
<1> SUFFICES ASSUME edits' = 0, ~overtaken'
             PROVE  /\ \A o \in OpIds : Waiting(o)' => Alike(snap'[o].files, files')
                    /\ Steady' => /\ baseline'.registry = registryDb'
                                  /\ Alike(baseline'.files, files')
  BY DEF NoDriftYet, Alike
<1>0. edits = 0 /\ ~overtaken /\ Touched
  BY NoEditStep, StepTouches DEF Before, TypeInv
<1>1. \A o \in OpIds : Waiting(o)' => Alike(snap'[o].files, files')
  BY WaitingAlike
<1>2. ASSUME Steady'
      PROVE  baseline'.registry = registryDb' /\ Alike(baseline'.files, files')
  <2>1. CASE Bootstrap \/ Reconcile \/ CommitApply \/ Rebase
    BY <2>1, BaselineIsSet DEF Alike
  <2>2. CASE ImportAdopt
    <3>1. Steady
      BY <1>2, <2>2, AdoptedBaseline DEF Steady, Running
    <3> QED
      BY <1>0, <2>2, <3>1, AdoptedBaseline DEF NoDriftYet, Alike
  <2>3. CASE baseline' = baseline /\ Steady
    <3>1. baseline.registry = registryDb /\ Alike(baseline.files, files)
      BY <1>0, <2>3 DEF NoDriftYet
    <3>2. job.pc \notin WriteSteps
      BY <2>3, RollIsRunning DEF Steady
    <3>3. registryDb' = registryDb
      BY <1>0, <3>2 DEF Touched, RegisterAgents, WriteSteps
    <3>4. files' = files \/ Alike(files', files)
      <4>1. CASE RestoreFile
        <5>1. Waiting(job.target) /\ job.target \in OpIds
          BY <2>3, <4>1, RestoreFileStep, SteadyRestore
        <5>2. Alike(Saved, files)
          BY <1>0, <5>1 DEF NoDriftYet, Saved
        <5> QED
          BY <4>1, <5>2, RestoreFileStep
      <4> QED
        BY <3>2, <4>1, FilesStep
    <3> QED
      BY <2>3, <3>1, <3>3, <3>4 DEF Alike
  <2>4. CASE baseline' = baseline /\ ~Steady
    <3>1. RecoverUnlock \/ StageRestored \/ CommitApply \/ Rebase
      BY <1>2, <2>4, SteadyStep DEF Steady
    <3>2. CASE RecoverUnlock \/ StageRestored
      <4>1. job.pc \in {"fail", "unlock"} /\ UNCHANGED <<files, registryDb>>
        BY <3>2 DEF RecoverUnlock, StageRestored
      <4> QED
        BY <1>0, <2>4, <4>1 DEF Rebased, Alike
    <3> QED
      BY <2>1, <3>1, <3>2
  <2> QED
    BY <1>0, <2>1, <2>2, <2>3, <2>4 DEF Touched
<1> QED
  BY <1>1, <1>2

LEMMA EndedIsNotBegun ==
  ASSUME Before, [Next]_vars, NEW o \in OpIds, NEW status \in Ended, Stage(o, status)
  PROVE  ~Begun(o)'
<1>1. ops'[o].status = status
  BY StageRow DEF Before, TypeInv, TypeOK, Ended, Statuses
<1>2. StoreTypeOK'
  BY StepTypeInv DEF Before, TypeInv, TypeOK
<1> QED
  BY <1>1, <1>2, BegunMeansNext DEF Ended

(* Unless a crash interrupts it, the job works on until its operation ends. *)
LEMMA JobGoesOn ==
  ASSUME Before, [Next]_vars, crashes' = crashes, job.pc \in Working, job.mode # "recover",
         NEW o \in OpIds, job.op = o, Begun(o)'
  PROVE  job'.pc \in Working /\ job'.mode # "recover" /\ job'.op = o
<1>0. job \in Jobs /\ job # Idle /\ crashes \in Nat
  BY IdleType, StepsOutside, DeployAssumption DEF Before, TypeInv, TypeOK, JobOK
<1>1. CASE UNCHANGED job
  BY <1>1
<1>2. CASE \/ Bootstrap \/ Reconcile \/ OutsideEdit \/ OtherTakes \/ OtherReleases
           \/ UNCHANGED vars
           \/ \E c \in Codes : SaveDraft(c) \/ RequestApply(c) \/ RequestRecover(c)
           \/ \E d \in Drainers : DrainSelect(d) \/ ApplyDeclined(d) \/ RestartRefused(d)
  BY <1>1, <1>2 DEF Bootstrap, Reconcile, OutsideEdit, OtherTakes, OtherReleases, vars, SaveDraft,
                    RequestApply, RequestRecover, deployVars, DrainSelect, ApplyDeclined,
                    RestartRefused
<1>3. CASE \/ \E d \in Drainers : ApplyBegin(d) \/ RestartBegin(d)
           \/ \E p \in OpIds : RecoverBegin(p)
           \/ \E s \in Secrets : ImportBegin(s)
  BY <1>0, <1>3 DEF ApplyBegin, RestartBegin, RecoverBegin, ImportBegin, Unlocked
<1>4. CASE ImportWrite \/ ImportAdopt \/ FinishApply
  BY <1>4, StepsOutside DEF ImportWrite, ImportAdopt, FinishApply
<1>5. CASE \E d \in Drainers : Crash(d)
  BY <1>0, <1>5 DEF Crash
<1>6. CASE \/ WriteRoutes \/ WriteOverride \/ ExportRegistry \/ SnapshotOpen \/ SnapshotFill
           \/ StageRunning \/ RegisterAgents
  <2>1. PICK pc \in ApplySteps : GoTo(pc)
    BY <1>6 DEF WriteRoutes, WriteOverride, ExportRegistry, WriteFile, SnapshotOpen, SnapshotFill,
                StageRunning, RegisterAgents, ApplySteps
  <2> QED
    BY <1>0, <2>1, Advanced DEF Working
<1>7. CASE RestoreFile \/ CheckHost
  <2>1. PICK pc \in RestoreSteps : GoTo(pc)
    BY <1>7 DEF RestoreFile, WriteFile, CheckHost, RestoreSteps, RestoreFiles
  <2> QED
    BY <1>0, <2>1, Advanced DEF Working
<1>8. CASE CheckPreview
  <2>1. job'.pc = "snapshot" /\ job'.mode = job.mode /\ job'.op = job.op
    BY <1>0, <1>8 DEF CheckPreview, Jobs
  <2> QED
    BY <2>1 DEF Working, ApplySteps
<1>9. CASE RollInstance
  <2>1. job.pc \in DOMAIN NextRoll /\ GoTo(NextRoll[job.pc])
    BY <1>9 DEF RollInstance
  <2>2. NextRoll[job.pc] \in Working
    BY <2>1 DEF NextRoll, Working, ApplySteps, RestoreSteps, RebaseSteps
  <2> QED
    BY <1>0, <2>1, <2>2, Advanced
<1>10. CASE CommitApply \/ StageRestored
  BY <1>0, <1>10, EndedIsNotBegun DEF CommitApply, StageRestored, Ended
<1>11. CASE RestoreFails
  BY <1>0, <1>11, EndedIsNotBegun DEF RestoreFails, Ended
<1>12. CASE Rebase
  <2>1. CASE job.mode = "restart" /\ Stage(job.op, "failed")
    BY <1>0, <2>1, EndedIsNotBegun DEF Ended
  <2>2. CASE GoTo("fail")
    BY <1>0, <2>2, Advanced DEF Working, RebaseSteps
  <2> QED
    BY <1>12, <2>1, <2>2 DEF Rebase
<1>13. CASE ApplyFails
  <2>1. CASE Stage(job.op, "failed")
    BY <1>0, <2>1, EndedIsNotBegun DEF Ended
  <2>2. CASE job' = [job EXCEPT !.mode = "undo", !.pc = "undoRoutes"]
    <3>1. job'.pc = "undoRoutes" /\ job'.mode = "undo" /\ job'.op = job.op
      BY <1>0, <2>2 DEF Jobs
    <3> QED
      BY <3>1 DEF Working, RestoreSteps, RestoreFiles
  <2> QED
    BY <1>13, <2>1, <2>2 DEF ApplyFails
<1>14. CASE RecoverUnlock \/ RecoverCloseTarget \/ RecoverCloseSelf
  BY <1>14 DEF RecoverUnlock, RecoverCloseTarget, RecoverCloseSelf, CloseSteps, Before, PointerInv,
               ModeOfStep
<1> QED
  BY <1>2, <1>3, <1>4, <1>5, <1>6, <1>7, <1>8, <1>9, <1>10, <1>11, <1>12, <1>13, <1>14
     DEF Next, JobStep, Forward, Backward, Begin

LEMMA NoCrashStep ==
  ASSUME Before, [Next]_vars, crashes' = 0
  PROVE  crashes = 0
<1>1. crashes \in Nat /\ Touched
  BY StepTouches, DeployAssumption DEF Before, TypeInv, TypeOK
<1> QED
  BY <1>1 DEF Touched

(* A secret that was written is adopted, unless the worker crashes. *)
LEMMA AdoptStays ==
  ASSUME Before, [Next]_vars, crashes' = crashes, job.pc = "adopt", ~ImportAdopt
  PROVE  job'.pc = "adopt"
<1>0. job # Idle /\ job.pc \notin Working /\ crashes \in Nat
  BY IdleType, StepsOutside, DeployAssumption DEF Before, TypeInv, TypeOK
<1>1. CASE UNCHANGED job
  BY <1>1
<1>2. CASE \/ Bootstrap \/ Reconcile \/ OutsideEdit \/ OtherTakes \/ OtherReleases
           \/ UNCHANGED vars
           \/ \E c \in Codes : SaveDraft(c) \/ RequestApply(c) \/ RequestRecover(c)
           \/ \E d \in Drainers : DrainSelect(d) \/ ApplyDeclined(d) \/ RestartRefused(d)
  BY <1>1, <1>2 DEF Bootstrap, Reconcile, OutsideEdit, OtherTakes, OtherReleases, vars, SaveDraft,
                    RequestApply, RequestRecover, deployVars, DrainSelect, ApplyDeclined,
                    RestartRefused
<1>3. CASE \/ \E d \in Drainers : ApplyBegin(d) \/ RestartBegin(d)
           \/ \E p \in OpIds : RecoverBegin(p)
           \/ \E s \in Secrets : ImportBegin(s)
  BY <1>0, <1>3 DEF ApplyBegin, RestartBegin, RecoverBegin, ImportBegin, Unlocked
<1>4. CASE \E d \in Drainers : Crash(d)
  BY <1>0, <1>4 DEF Crash
<1>5. CASE ImportWrite \/ FinishApply \/ RollInstance
  BY <1>5 DEF ImportWrite, FinishApply, RollInstance, NextRoll
<1>6. CASE \/ CheckPreview \/ SnapshotOpen \/ SnapshotFill \/ StageRunning \/ WriteRoutes
           \/ WriteOverride \/ RegisterAgents \/ ExportRegistry \/ CommitApply
  BY <1>6 DEF CheckPreview, SnapshotOpen, SnapshotFill, StageRunning, WriteRoutes, WriteOverride,
              RegisterAgents, ExportRegistry, CommitApply, WriteFile
<1>7. CASE \/ ApplyFails \/ RestoreFile \/ CheckHost \/ Rebase \/ StageRestored
           \/ RestoreFails \/ RecoverUnlock \/ RecoverCloseTarget \/ RecoverCloseSelf
  BY <1>7 DEF ApplyFails, RestoreFile, CheckHost, Rebase, StageRestored, RestoreFails,
              RecoverUnlock, RecoverCloseTarget, RecoverCloseSelf, WriteFile, ApplySteps,
              RestoreFiles, RestoreSteps, RebaseSteps, CloseSteps
<1> QED
  BY <1>2, <1>3, <1>4, <1>5, <1>6, <1>7 DEF Next, JobStep, Forward, Backward, Begin

LEMMA StepNoCrashYet ==
  ASSUME Before, Rebased, NoCrashYet, [Next]_vars
  PROVE  NoCrashYet'
<1> SUFFICES ASSUME edits' = 0, ~overtaken', crashes' = 0
             PROVE  /\ \A o \in OpIds : Begun(o)' =>
                         job'.pc \in Working /\ job'.mode # "recover" /\ job'.op = o
                    /\ \A o \in OpIds : Waiting(o)' =>
                         snap'[o].files.environment = files'.environment
                    /\ Steady' /\ job'.pc # "adopt" =>
                         baseline'.files.environment = files'.environment
  BY DEF NoCrashYet
<1>0. edits = 0 /\ ~overtaken /\ crashes = 0 /\ Touched
  BY NoEditStep, NoCrashStep, StepTouches DEF Before, TypeInv
<1>1. \A o \in OpIds : Begun(o)' =>
        job'.pc \in Working /\ job'.mode # "recover" /\ job'.op = o
  <2> SUFFICES ASSUME NEW o \in OpIds, Begun(o)'
               PROVE  job'.pc \in Working /\ job'.mode # "recover" /\ job'.op = o
    OBVIOUS
  <2>1. job.pc \in Working /\ job.mode # "recover" /\ job.op = o
    <3>1. CASE Begun(o)
      BY <1>0, <3>1 DEF NoCrashYet
    <3>2. CASE SnapshotFill /\ o = job.op
      BY <3>2, SagaApplies DEF SnapshotFill, ApplySteps
    <3> QED
      BY <3>1, <3>2, BegunStep
  <2> QED
    BY <1>0, <2>1, JobGoesOn
<1>2. \A o \in OpIds : Waiting(o)' => snap'[o].files.environment = files'.environment
  <2> SUFFICES ASSUME NEW o \in OpIds, Waiting(o)'
               PROVE  snap'[o].files.environment = files'.environment
    OBVIOUS
  <2>1. CASE SnapshotFill /\ o = job.op
    BY <2>1, FilledFiles
  <2>2. CASE ~(SnapshotFill /\ o = job.op)
    <3>1. Waiting(o) /\ snap'[o].files = snap[o].files
      BY <2>2, WaitingStep, SavedStep
    <3>2. snap[o].files.environment = files.environment /\ job.pc \in Working
      BY <1>0, <3>1 DEF NoCrashYet, Waiting
    <3>3. CASE RestoreFile
      <4>1. o = job.target
        BY <1>0, <3>1, <3>3, RestoreFileStep, BegunIsTarget DEF Waiting
      <4> QED
        BY <3>1, <3>2, <3>3, <4>1, RestoreFileStep DEF Saved
    <3>4. ~ImportWrite
      BY <3>2, StepsOutside DEF ImportWrite
    <3> QED
      BY <3>1, <3>2, <3>3, <3>4, FilesStep
  <2> QED
    BY <2>1, <2>2
<1>3. ASSUME Steady', job'.pc # "adopt"
      PROVE  baseline'.files.environment = files'.environment
  <2>1. CASE Bootstrap \/ Reconcile \/ CommitApply \/ Rebase
    BY <2>1, BaselineIsSet
  <2>2. CASE ImportAdopt
    BY <2>2, AdoptedBaseline
  <2>3. CASE baseline' = baseline /\ Steady /\ ~ImportAdopt
    <3>1. job.pc # "adopt"
      BY <1>0, <1>3, <2>3, AdoptStays
    <3>2. baseline.files.environment = files.environment
      BY <1>0, <2>3, <3>1 DEF NoCrashYet
    <3>3. CASE RestoreFile
      <4>1. Waiting(job.target) /\ job.target \in OpIds
        BY <2>3, <3>3, RestoreFileStep, SteadyRestore
      <4>2. Saved.environment = files.environment
        BY <1>0, <4>1 DEF NoCrashYet, Saved
      <4> QED
        BY <2>3, <3>2, <3>3, <4>2, RestoreFileStep
    <3>4. ~ImportWrite
      <4>1. job \in Jobs
        BY DEF Before, TypeInv, TypeOK
      <4> QED
        BY <1>3, <4>1, Advanced DEF ImportWrite
    <3> QED
      BY <1>0, <2>3, <3>2, <3>3, <3>4, FilesStep
  <2>4. CASE baseline' = baseline /\ ~Steady
    <3>1. RecoverUnlock \/ StageRestored \/ CommitApply \/ Rebase
      BY <1>3, <2>4, SteadyStep DEF Steady
    <3>2. CASE RecoverUnlock \/ StageRestored
      <4>1. job.pc \in {"fail", "unlock"} /\ UNCHANGED <<files, registryDb>>
        BY <3>2 DEF RecoverUnlock, StageRestored
      <4> QED
        BY <1>0, <2>4, <4>1 DEF Rebased
    <3> QED
      BY <2>1, <3>1, <3>2
  <2> QED
    BY <1>0, <2>1, <2>2, <2>3, <2>4 DEF Touched
<1> QED
  BY <1>1, <1>2, <1>3

LEMMA InitRestInv == Init => RestInv
<1> SUFFICES ASSUME Init PROVE RestInv
  OBVIOUS
<1>1. job.pc = "idle" /\ Applied = [c \in Codes |-> 0] /\ ~baseline.set /\ recoveryOp = 0
  BY DEF Init, StoreInit, Idle, Applied, NoBaseline
<1>2. \A o \in OpIds : ~Begun(o)
  BY SeenOf DEF Init, StoreInit, NoOp, NoSnapshot, Begun
<1>3. SecretAtHand /\ Rebased
  BY <1>1 DEF SecretAtHand, Rebased, ApplySteps
<1>4. Covered
  BY <1>1, <1>2 DEF Covered, Covers
<1>5. NoDriftYet /\ NoCrashYet
  BY <1>1, <1>2 DEF NoDriftYet, NoCrashYet, Steady, Waiting
<1> QED
  BY <1>3, <1>4, <1>5 DEF RestInv

LEMMA StepRestInv == Before /\ RestInv /\ [Next]_vars => RestInv'
BY StepSecretAtHand, StepCovered, StepRebased, StepNoDriftYet, StepNoCrashYet DEF RestInv

LEMMA RestInvMeans == Before /\ RestInv => RestIsInOrder
<1> SUFFICES ASSUME Before, RestInv PROVE RestIsInOrder
  OBVIOUS
<1>1. SecretsInUse
  BY DEF SecretsInUse, AtRest, RestInv, Covered, Covers, Applied
<1>2. NoDriftOfItsOwn
  <2> SUFFICES ASSUME AtRest, baseline.set, edits = 0
               PROVE  /\ baseline.registry = registryDb
                      /\ baseline.files =
                           [files EXCEPT !.environment = baseline.files.environment]
                      /\ crashes = 0 => baseline.files.environment = files.environment
    BY DEF NoDriftOfItsOwn
  <2>1. ~overtaken /\ Steady /\ job.pc # "adopt"
    BY IdleType DEF AtRest, Unlocked, Steady
  <2>2. baseline.registry = registryDb /\ Alike(baseline.files, files)
    BY <2>1 DEF RestInv, NoDriftYet
  <2>3. baseline.files = [files EXCEPT !.environment = baseline.files.environment]
    <3>1. files \in Files /\ baseline.files \in Files
      BY DEF Before, TypeInv, TypeOK, Baselines
    <3> QED
      BY <2>2, <3>1 DEF Files, Alike
  <2>4. crashes = 0 => baseline.files.environment = files.environment
    BY <2>1 DEF RestInv, NoCrashYet
  <2> QED
    BY <2>2, <2>3, <2>4
<1> QED
  BY <1>1, <1>2 DEF RestIsInOrder

(* With one worker draining, what the worker leaves at rest can be used and   *)
(* built upon: the provider secret of every applied profile is in managed.env *)
(* and in both instances, and with nobody editing from outside its successes, *)
(* failures, restores and crashes leave no drift behind that would refuse the *)
(* next preview.                                                              *)
THEOREM RestStaysInOrder ==
  ASSUME Drainers = {"serve"}
  PROVE  Spec => []RestIsInOrder
<1>1. Init => Before /\ RestInv
  BY InitTypeInv, InitSnapInv, InitPointerInv, InitApplyInv, InitRestInv DEF Before
<1>2. Before /\ RestInv /\ [Next]_vars => (Before /\ RestInv)'
  BY StepBefore, StepRestInv
<1> QED
  BY <1>1, <1>2, RestInvMeans, PTL DEF Spec

==============================================================================
