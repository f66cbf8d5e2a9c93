------------------------ MODULE GatewayRefresh_proofs ------------------------
(***************************************************************************)
(* Theorems about GatewayRefresh, for every number of calls, every set of  *)
(* agents and tags, every delay, and every bound on time and failures.     *)
(***************************************************************************)
EXTENDS GatewayRefresh, TLAPS, WellFoundedInduction, FiniteSetTheorems

LStarted == {c \in Calls : spend[c].state # "unused"}

(* A call starts before now and is logged within the delay; what a ledger   *)
(* table or a running job holds was logged.                                 *)
SpendOK ==
    /\ \A c \in LStarted : spend[c].start <= now
    /\ \A c \in Calls : spend[c].state = "running" => now <= spend[c].start + MaxDelay

LedgerOK ==
    /\ fact \subseteq Logged
    /\ job.rows \subseteq Logged
    /\ job.counted \subseteq Logged

(* What is known at each step of a cycle of the rollups built before it.    *)
StageOK ==
    /\ daily \subseteq Succeeded /\ hourly \subseteq daily /\ latency \subseteq hourly
    /\ job.pc \in {"hourly", "latency", "beat", "clear"} => daily = Succeeded
    /\ job.pc \in {"latency", "beat", "clear"} => hourly = Succeeded
    /\ job.pc \in {"beat", "clear"} => latency = Succeeded
    /\ job.pc \in {"daily", "hourly", "latency", "beat"}
         => \A c \in job.counted : Usable(c) => c \in fact

TablesInv == TypeOK /\ SpendOK /\ LedgerOK /\ StageOK /\ HeartbeatIsHonest

LEMMA InitTables == Init => TablesInv
<1> SUFFICES ASSUME Init PROVE TablesInv
  OBVIOUS
<1> USE RefreshAssumption
<1>1. TypeOK
  <2>1. [state |-> "unused", start |-> 0, tags |-> {}, outcome |-> "ok"] \in SpendRow
    BY DEF SpendRow, Times
  <2>2. Idle \in Jobs
    BY DEF Idle, Jobs, Steps
  <2> QED
    BY <2>1, <2>2 DEF Init, TypeOK, Times
<1>2. SpendOK
  BY DEF Init, SpendOK, LStarted
<1>3. LedgerOK /\ StageOK /\ HeartbeatIsHonest
  BY DEF Init, LedgerOK, StageOK, HeartbeatIsHonest, Idle
<1> QED
  BY <1>1, <1>2, <1>3 DEF TablesInv

(* Whether a row counts depends on the row and on the known agents only.    *)
LEMMA UsableSame ==
  ASSUME NEW c \in Calls, known' = known, spend'[c] = spend[c]
  PROVE  /\ Usable(c)' <=> Usable(c)
         /\ Hits(c)' = Hits(c)
<1>1. Hits(c)' = Hits(c)
  BY DEF Hits
<1>2. Resolved(c)' <=> Resolved(c)
  BY <1>1 DEF Resolved
<1>3. InScope(c)' <=> InScope(c)
  BY <1>1 DEF InScope
<1> QED
  BY <1>1, <1>2, <1>3 DEF Usable

(* The rows of calls do not change once they are logged.                    *)
LEMMA CallsMove ==
  ASSUME TypeOK, NEW c \in Calls, CallStarts(c) \/ CallLogged(c)
  PROVE  /\ spend' \in [Calls -> SpendRow]
         /\ c \notin Logged
         /\ \A d \in Calls : d # c => spend'[d] = spend[d]
         /\ spend'[c].state = "running" => spend'[c].start = now /\ spend[c].state = "unused"
         /\ spend'[c].state = "logged"
              => spend'[c].start = spend[c].start /\ spend[c].state = "running"
         /\ spend'[c].state \in {"running", "logged"}
         /\ now' = now /\ known' = known /\ pending' = pending /\ job' = job
         /\ fact' = fact /\ daily' = daily /\ hourly' = hourly /\ latency' = latency
         /\ claimed' = claimed /\ failures' = failures
<1> USE RefreshAssumption
<1>1. CASE CallStarts(c)
  <2>1. PICK tags \in TagSets, outcome \in Outcomes :
          spend' = [spend EXCEPT ![c] = [state |-> "running", start |-> now,
                                         tags |-> tags, outcome |-> outcome]]
    BY <1>1 DEF CallStarts
  <2>2. [state |-> "running", start |-> now, tags |-> tags, outcome |-> outcome] \in SpendRow
    BY DEF SpendRow, TypeOK
  <2>3. spend[c].state = "unused"
    BY <1>1 DEF CallStarts
  <2> QED
    BY <1>1, <2>1, <2>2, <2>3 DEF CallStarts, TypeOK, Logged, tables
<1>2. CASE CallLogged(c)
  <2>1. spend[c] \in SpendRow /\ spend[c].state = "running"
    BY <1>2 DEF CallLogged, TypeOK
  <2>2. spend' = [spend EXCEPT ![c] = [spend[c] EXCEPT !.state = "logged"]]
    BY <1>2 DEF CallLogged
  <2>3. [spend[c] EXCEPT !.state = "logged"] \in SpendRow
    BY <2>1 DEF SpendRow
  <2>4. /\ [spend[c] EXCEPT !.state = "logged"].state = "logged"
        /\ [spend[c] EXCEPT !.state = "logged"].start = spend[c].start
    BY <2>1 DEF SpendRow
  <2> QED
    BY <1>2, <2>1, <2>2, <2>3, <2>4 DEF CallLogged, TypeOK, Logged, tables
<1> QED
  BY <1>1, <1>2

(* A step that leaves the source and the tables alone and whose job is at a *)
(* step before the rollups, or at none.                                     *)
LEMMA JobMoves ==
  ASSUME TablesInv, job' \in Jobs,
         job'.pc \in {"idle", "read", "insert", "count", "compare"},
         job'.rows \subseteq Logged, job'.counted \subseteq Logged,
         UNCHANGED <<now, spend, known, tables, claimed>>,
         pending' \subseteq known, failures' \in 0..MaxFailures
  PROVE  TablesInv'
<1>1. Logged' = Logged /\ Succeeded' = Succeeded /\ LStarted' = LStarted
  BY DEF Logged, Succeeded, LStarted, tables
<1>2. TypeOK'
  BY DEF TablesInv, TypeOK, tables
<1>3. SpendOK'
  BY <1>1 DEF TablesInv, SpendOK
<1>4. LedgerOK'
  BY <1>1 DEF TablesInv, LedgerOK, tables
<1>5. StageOK'
  BY <1>1 DEF TablesInv, StageOK, tables
<1>6. HeartbeatIsHonest'
  BY DEF TablesInv, HeartbeatIsHonest, tables
<1> QED
  BY <1>2, <1>3, <1>4, <1>5, <1>6 DEF TablesInv

LEMMA IdleOK ==
  /\ Idle \in Jobs /\ Idle.pc = "idle" /\ Idle.rows = {} /\ Idle.counted = {}
BY DEF Idle, Jobs, Steps

LEMMA GoToOK ==
  ASSUME job \in Jobs, NEW pc \in Steps, GoTo(pc)
  PROVE  /\ job' \in Jobs
         /\ job'.pc = pc /\ job'.rows = job.rows /\ job'.counted = job.counted
         /\ job'.kind = job.kind
BY DEF GoTo, Jobs

LEMMA StepTables == TablesInv /\ [Next]_vars => TablesInv'
<1> SUFFICES ASSUME TablesInv, [Next]_vars PROVE TablesInv'
  OBVIOUS
<1> USE RefreshAssumption
<1>0. TypeOK /\ SpendOK /\ LedgerOK /\ StageOK /\ HeartbeatIsHonest /\ job \in Jobs
  BY DEF TablesInv, TypeOK
<1>1. ASSUME Tick PROVE TablesInv'
  <2>1. now' \in Times /\ now' = now + 1 /\ now \in Nat
    BY <1>0, <1>1 DEF Tick, TypeOK, Times
  <2>2. /\ Logged' = Logged /\ Succeeded' = Succeeded /\ LStarted' = LStarted
        /\ UNCHANGED <<spend, known, pending, fact, daily, hourly, latency, job, claimed, failures>>
    BY <1>1 DEF Tick, tables, Logged, Succeeded, LStarted
  <2>3. TypeOK'
    BY <1>0, <2>1, <2>2 DEF TypeOK
  <2>4. \A c \in Calls : spend[c].start \in Nat
    BY <1>0 DEF TypeOK, SpendRow, Times
  <2>5. SpendOK'
    <3>1. \A c \in LStarted : spend[c].start <= now + 1
      BY <1>0, <2>1, <2>4 DEF SpendOK, LStarted
    <3>2. \A c \in Calls : spend[c].state = "running" => now < spend[c].start + MaxDelay
      BY <1>1 DEF Tick
    <3>3. \A c \in Calls : spend[c].state = "running" => now + 1 <= spend[c].start + MaxDelay
      BY <2>1, <2>4, <3>2
    <3> QED
      BY <2>1, <2>2, <3>1, <3>3 DEF SpendOK
  <2>6. \A c \in Calls : Usable(c)' <=> Usable(c)
    BY <2>2, UsableSame
  <2>7. LedgerOK' /\ HeartbeatIsHonest'
    BY <1>0, <2>2 DEF LedgerOK, HeartbeatIsHonest
  <2>8. StageOK'
    <3>1. job.counted \subseteq Calls
      BY <1>0 DEF Jobs
    <3> QED
      BY <1>0, <2>2, <2>6, <3>1 DEF StageOK
  <2> QED
    BY <2>3, <2>5, <2>7, <2>8 DEF TablesInv
<1>2. ASSUME NEW c \in Calls, CallStarts(c) \/ CallLogged(c) PROVE TablesInv'
  <2>1. /\ spend' \in [Calls -> SpendRow]
        /\ c \notin Logged
        /\ \A d \in Calls : d # c => spend'[d] = spend[d]
        /\ UNCHANGED <<now, known, pending, job, fact, daily, hourly, latency, claimed, failures>>
    BY <1>0, <1>2, CallsMove
  <2>2. TypeOK'
    BY <1>0, <2>1 DEF TypeOK
  <2>3. Logged \subseteq Logged' /\ \A d \in Logged : d \in Calls /\ spend'[d] = spend[d]
    BY <2>1 DEF Logged
  <2>4. Succeeded' = Succeeded
    BY <1>0, <2>1, <2>3 DEF Succeeded, LedgerOK
  <2>5. LedgerOK' /\ HeartbeatIsHonest'
    <3>1. LedgerOK'
      BY <1>0, <2>1, <2>3 DEF LedgerOK
    <3>2. claimed \subseteq Logged
      BY <1>0 DEF HeartbeatIsHonest, LedgerOK
    <3> QED
      BY <1>0, <2>1, <2>3, <3>1, <3>2 DEF HeartbeatIsHonest
  <2>6. SpendOK'
    <3>1. now \in Nat /\ \A d \in Calls : spend[d].start \in Nat
      BY <1>0 DEF TypeOK, SpendRow, Times
    <3>2. /\ spend'[c].state = "running" => spend'[c].start = now
          /\ spend'[c].state = "logged"
              => spend'[c].start = spend[c].start /\ spend[c].state = "running"
          /\ spend'[c].state \in {"running", "logged"}
      BY <1>0, <1>2, CallsMove
    <3>3. \A d \in Calls : spend'[d].state # "unused" => spend'[d].start <= now
      BY <1>0, <2>1, <3>1, <3>2 DEF SpendOK, LStarted
    <3>4. \A d \in Calls : spend'[d].state = "running" => now <= spend'[d].start + MaxDelay
      BY <1>0, <2>1, <3>1, <3>2 DEF SpendOK
    <3> QED
      BY <2>1, <3>3, <3>4 DEF SpendOK, LStarted
  <2>7. \A d \in Logged : Usable(d)' <=> Usable(d)
    BY <2>1, <2>3, UsableSame
  <2>8. StageOK'
    <3>1. \A d \in job.counted : Usable(d)' <=> Usable(d)
      BY <1>0, <2>7 DEF LedgerOK
    <3> QED
      BY <1>0, <2>1, <2>4, <3>1 DEF StageOK
  <2> QED
    BY <2>2, <2>5, <2>6, <2>8 DEF TablesInv
<1>3. ASSUME NEW code \in Codes, Register(code) PROVE TablesInv'
  <2>1. job = Idle /\ UNCHANGED <<now, spend, fact, daily, hourly, latency, job, claimed, failures>>
        /\ known' = known \cup {code} /\ pending' = pending \cup {code}
    BY <1>3 DEF Register, tables
  <2>2. Logged' = Logged /\ Succeeded' = Succeeded /\ LStarted' = LStarted
    BY <2>1 DEF Logged, Succeeded, LStarted
  <2>3. TypeOK'
    BY <1>0, <2>1 DEF TypeOK
  <2>4. SpendOK' /\ LedgerOK' /\ HeartbeatIsHonest'
    BY <1>0, <2>1, <2>2 DEF SpendOK, LedgerOK, HeartbeatIsHonest
  <2>5. StageOK'
    BY <1>0, <2>1, <2>2, IdleOK DEF StageOK
  <2> QED
    BY <2>3, <2>4, <2>5 DEF TablesInv
<1>4. ASSUME StartCycle \/ StartLoad PROVE TablesInv'
  <2>1. PICK kind \in {"cycle", "load", "full"} : Start(kind)
    BY <1>4 DEF StartCycle, StartLoad
  <2>2. job' \in Jobs /\ job'.pc = "read" /\ job'.rows = {} /\ job'.counted = {}
    BY <2>1 DEF Start, Idle, Jobs, Steps
  <2> QED
    BY <1>0, <2>1, <2>2, JobMoves DEF Start, tables, TypeOK
<1>5. ASSUME Read PROVE TablesInv'
  <2>1. Readable(job.kind = "full") \subseteq Logged /\ Logged \subseteq Calls
    BY DEF Readable, Logged
  <2>2. /\ job' \in Jobs /\ job'.pc = "insert" /\ job'.counted = job.counted
        /\ job'.rows = Readable(job.kind = "full")
    BY <1>0, <1>5, <2>1 DEF Read, Jobs, Steps
  <2> QED
    BY <1>0, <1>5, <2>1, <2>2, JobMoves DEF Read, World, tables, TypeOK, LedgerOK
<1>6. ASSUME Insert PROVE TablesInv'
  <2>1. /\ job' \in Jobs /\ job'.pc = "count"
        /\ job'.rows = job.rows /\ job'.counted = job.counted
    BY <1>0, <1>6, GoToOK DEF Insert, Steps
  <2>2. UNCHANGED <<now, spend, known, failures, pending, daily, hourly, latency, claimed>>
    BY <1>6 DEF Insert, World
  <2>3. fact' = fact \cup {c \in job.rows : Usable(c)}
    BY <1>6 DEF Insert
  <2>4. Logged' = Logged /\ LStarted' = LStarted
    BY <2>2 DEF Logged, LStarted
  <2>5. fact \subseteq fact' /\ fact' \subseteq Logged /\ Logged \subseteq Calls
    BY <1>0, <2>3 DEF LedgerOK, Logged
  <2>6. Succeeded \subseteq Succeeded'
    BY <2>2, <2>5 DEF Succeeded
  <2>7. TypeOK'
    BY <1>0, <2>1, <2>2, <2>5 DEF TypeOK
  <2>8. SpendOK' /\ LedgerOK' /\ HeartbeatIsHonest'
    BY <1>0, <2>1, <2>2, <2>4, <2>5 DEF SpendOK, LedgerOK, HeartbeatIsHonest
  <2>9. StageOK'
    BY <1>0, <2>1, <2>2, <2>6 DEF StageOK
  <2> QED
    BY <2>7, <2>8, <2>9 DEF TablesInv
<1>7. ASSUME Count PROVE TablesInv'
  <2>1. /\ job' \in Jobs /\ job'.pc = "compare" /\ job'.rows = job.rows
        /\ job'.counted = Logged
    BY <1>0, <1>7 DEF Count, Jobs, Steps, Logged
  <2> QED
    BY <1>0, <1>7, <2>1, JobMoves DEF Count, World, tables, TypeOK, LedgerOK
<1>8. ASSUME Release, UNCHANGED <<now, spend, known, tables, claimed>>,
             pending' \subseteq known, failures' \in 0..MaxFailures
      PROVE  TablesInv'
  BY <1>8, IdleOK, JobMoves DEF Release
<1>9. ASSUME job \in Jobs, UNCHANGED <<now, spend, known, failures, pending, fact>>,
             NEW pc \in {"daily", "hourly", "latency", "beat", "clear"}, GoTo(pc),
             StageOK', HeartbeatIsHonest',
             daily' \subseteq Calls, hourly' \subseteq Calls, latency' \subseteq Calls,
             claimed' \subseteq Calls
      PROVE  TablesInv'
  <2>1. job' \in Jobs /\ job'.rows = job.rows /\ job'.counted = job.counted
    BY <1>9, GoToOK DEF Steps
  <2>2. Logged' = Logged /\ LStarted' = LStarted
    BY <1>9 DEF Logged, LStarted
  <2>3. TypeOK' /\ SpendOK' /\ LedgerOK'
    BY <1>0, <1>9, <2>1, <2>2 DEF TypeOK, SpendOK, LedgerOK
  <2> QED
    BY <1>9, <2>3 DEF TablesInv
<1>10. Succeeded \subseteq Calls /\ fact \subseteq Calls /\ job.counted \subseteq Calls
  BY <1>0 DEF Succeeded, TypeOK, Jobs
<1>11. ASSUME Compare PROVE TablesInv'
  <2>1. UNCHANGED <<now, spend, known, failures, pending, fact, daily, hourly, latency, claimed>>
    BY <1>11 DEF Compare, World, tables
  <2>2. CASE Balanced /\ GoTo("daily")
    <3>1. \A c \in job.counted : Usable(c) => c \in fact
      BY <2>2 DEF Balanced
    <3>2. \A c \in job.counted : Usable(c)' <=> Usable(c)
      BY <1>10, <2>1, UsableSame
    <3>3. job'.pc = "daily" /\ job'.counted = job.counted
      BY <1>0, <2>2, GoToOK DEF Steps
    <3>4. Succeeded' = Succeeded
      BY <2>1 DEF Succeeded
    <3>5. StageOK'
      BY <1>0, <2>1, <3>1, <3>2, <3>3, <3>4 DEF StageOK
    <3>6. HeartbeatIsHonest'
      BY <1>0, <2>1 DEF HeartbeatIsHonest
    <3> QED
      BY <1>0, <1>9, <2>1, <2>2, <3>5, <3>6 DEF TypeOK
  <2>3. CASE Release
    BY <1>0, <1>8, <2>1, <2>3 DEF tables, TypeOK
  <2> QED
    BY <1>11, <2>2, <2>3 DEF Compare
<1>12. ASSUME Daily PROVE TablesInv'
  <2>1. UNCHANGED <<now, spend, known, failures, pending, fact, hourly, latency, claimed>>
    BY <1>12 DEF Daily, World
  <2>2. daily' = Succeeded /\ GoTo("hourly") /\ job.pc = "daily"
    BY <1>12 DEF Daily, At
  <2>3. Succeeded' = Succeeded
    BY <2>1 DEF Succeeded
  <2>4. job'.pc = "hourly" /\ job'.counted = job.counted
    BY <1>0, <2>2, GoToOK DEF Steps
  <2>5. \A c \in job.counted : Usable(c)' <=> Usable(c)
    BY <1>10, <2>1, UsableSame
  <2>6. StageOK'
    BY <1>0, <2>1, <2>2, <2>3, <2>4, <2>5 DEF StageOK
  <2>7. HeartbeatIsHonest'
    BY <1>0, <2>1, <2>2 DEF HeartbeatIsHonest, StageOK
  <2> QED
    BY <1>0, <1>9, <1>10, <2>1, <2>2, <2>6, <2>7 DEF TypeOK
<1>13. ASSUME Hourly PROVE TablesInv'
  <2>1. UNCHANGED <<now, spend, known, failures, pending, fact, daily, latency, claimed>>
    BY <1>13 DEF Hourly, World
  <2>2. hourly' = Succeeded /\ job.pc = "hourly" /\ daily = Succeeded
    BY <1>0, <1>13 DEF Hourly, At, StageOK
  <2>3. GoTo("latency")
    BY <1>13, <2>2 DEF Hourly
  <2>4. Succeeded' = Succeeded
    BY <2>1 DEF Succeeded
  <2>5. job'.pc = "latency" /\ job'.counted = job.counted
    BY <1>0, <2>3, GoToOK DEF Steps
  <2>6. \A c \in job.counted : Usable(c)' <=> Usable(c)
    BY <1>10, <2>1, UsableSame
  <2>7. StageOK'
    BY <1>0, <2>1, <2>2, <2>4, <2>5, <2>6 DEF StageOK
  <2>8. HeartbeatIsHonest'
    BY <1>0, <2>1, <2>2 DEF HeartbeatIsHonest, StageOK
  <2> QED
    BY <1>0, <1>9, <1>10, <2>1, <2>2, <2>3, <2>7, <2>8 DEF TypeOK
<1>14. ASSUME Latency PROVE TablesInv'
  <2>1. UNCHANGED <<now, spend, known, failures, pending, fact, daily, hourly, claimed>>
    BY <1>14 DEF Latency, World
  <2>2. /\ latency' = Succeeded /\ job.pc = "latency" /\ GoTo("beat")
        /\ daily = Succeeded /\ hourly = Succeeded
    BY <1>0, <1>14 DEF Latency, At, StageOK
  <2>3. Succeeded' = Succeeded
    BY <2>1 DEF Succeeded
  <2>4. job'.pc = "beat" /\ job'.counted = job.counted
    BY <1>0, <2>2, GoToOK DEF Steps
  <2>5. \A c \in job.counted : Usable(c)' <=> Usable(c)
    BY <1>10, <2>1, UsableSame
  <2>6. StageOK'
    BY <1>0, <2>1, <2>2, <2>3, <2>4, <2>5 DEF StageOK
  <2>7. HeartbeatIsHonest'
    BY <1>0, <2>1, <2>2 DEF HeartbeatIsHonest, StageOK
  <2> QED
    BY <1>0, <1>9, <1>10, <2>1, <2>2, <2>6, <2>7 DEF TypeOK
<1>15. ASSUME Beat PROVE TablesInv'
  <2>1. UNCHANGED <<now, spend, known, failures, pending, fact, daily, hourly, latency>>
    BY <1>15 DEF Beat, World, tables
  <2>2. /\ claimed' = {c \in job.counted : Usable(c)} /\ job.pc = "beat" /\ GoTo("clear")
        /\ daily = Succeeded /\ hourly = Succeeded /\ latency = Succeeded
        /\ \A c \in job.counted : Usable(c) => c \in fact
    BY <1>0, <1>15 DEF Beat, At, StageOK
  <2>3. Succeeded' = Succeeded
    BY <2>1 DEF Succeeded
  <2>4. job'.pc = "clear"
    BY <1>0, <2>2, GoToOK DEF Steps
  <2>5. StageOK'
    BY <1>0, <2>1, <2>2, <2>3, <2>4 DEF StageOK
  <2>6. HeartbeatIsHonest'
    BY <2>1, <2>2 DEF HeartbeatIsHonest, Succeeded
  <2> QED
    BY <1>0, <1>9, <1>10, <2>1, <2>2, <2>5, <2>6 DEF TypeOK
<1>16. ASSUME ClearBackfill PROVE TablesInv'
  BY <1>0, <1>8, <1>16 DEF ClearBackfill, World, TypeOK, tables
<1>17. ASSUME StepFails PROVE TablesInv'
  <2>1. failures' \in 0..MaxFailures
    BY <1>0, <1>17 DEF StepFails, TypeOK
  <2> QED
    BY <1>0, <1>8, <1>17, <2>1 DEF StepFails, TypeOK
<1>18. ASSUME UNCHANGED vars PROVE TablesInv'
  <2>1. UNCHANGED <<now, spend, known, pending, fact, daily, hourly, latency, job, claimed, failures>>
    BY <1>18 DEF vars
  <2>2. Logged' = Logged /\ Succeeded' = Succeeded /\ LStarted' = LStarted
    BY <2>1 DEF Logged, Succeeded, LStarted
  <2>3. \A c \in job.counted : Usable(c)' <=> Usable(c)
    BY <1>10, <2>1, UsableSame
  <2>4. TypeOK' /\ SpendOK' /\ LedgerOK' /\ HeartbeatIsHonest'
    BY <1>0, <2>1, <2>2 DEF TypeOK, SpendOK, LedgerOK, HeartbeatIsHonest
  <2>5. StageOK'
    BY <1>0, <2>1, <2>2, <2>3 DEF StageOK
  <2> QED
    BY <2>4, <2>5 DEF TablesInv
<1> QED
  BY <1>1, <1>2, <1>3, <1>4, <1>5, <1>6, <1>7, <1>11, <1>12, <1>13, <1>14, <1>15,
     <1>16, <1>17, <1>18 DEF Next, JobStep

LEMMA TablesAlways == Spec => []TablesInv
BY InitTables, StepTables, PTL DEF Spec

(* Whatever fails and however calls, cycles and registrations interleave,   *)
(* no reader finds a call in a rollup that the ledger or an earlier rollup  *)
(* lacks, and what a heartbeat claimed is in all of them                    *)
(* (refresh_gateway's chain of load, check, daily, hourly, latency, beat).  *)
THEOREM TablesAlwaysAgree == Spec => []TablesAgree
<1>1. TablesInv => TablesAgree
  BY DEF TablesInv, TablesAgree, RollupChain, StageOK, Succeeded
<1> QED
  BY <1>1, TablesAlways, PTL

-----------------------------------------------------------------------------
(* No hole in the ledger. *)

Ahead(c, S) == \A d \in S : spend[d].start < spend[c].start + Overlap

AfterInsert == {"count", "compare", "daily", "hourly", "latency", "beat", "clear"}

(* The first conjunct is what the next read needs.  The others say why the  *)
(* backfill mark may be taken back at the end of a cycle: once its rows are *)
(* in, what counts and is missing can only have been logged since the read. *)
HoleOK ==
    /\ \A c \in Logged \ fact :
         Usable(c) /\ Hits(c) \cap pending = {} => Ahead(c, fact)
    /\ job.pc = "insert"
         => \A c \in Logged \ (fact \cup job.rows) :
              Usable(c) => Ahead(c, fact \cup job.rows)
    /\ job.pc \in AfterInsert
         => \A c \in Logged \ fact : Usable(c) => Ahead(c, fact)

(* A nonempty set of calls has one that started last.                       *)
LEMMA LastStart ==
  ASSUME TypeOK, fact # {}
  PROVE  /\ \E d \in fact : Watermark = spend[d].start
         /\ \A d \in fact : spend[d].start <= Watermark
<1> DEFINE S == {spend[c].start : c \in fact}
           T == {MaxTime - x : x \in S}
<1>1. MaxTime \in Nat /\ S \subseteq 0..MaxTime /\ S # {}
  BY RefreshAssumption DEF TypeOK, SpendRow, Times
<1> HIDE DEF S
<1>2. T \subseteq Nat /\ T # {}
  <2>1. \A x \in S : MaxTime - x \in Nat
    BY <1>1
  <2>2. T \subseteq Nat
    BY <2>1
  <2>3. PICK x \in S : TRUE
    BY <1>1
  <2>4. MaxTime - x \in T
    BY <2>3
  <2> QED
    BY <2>2, <2>4
<1>3. PICK t \in T : \A u \in T : <<u, t>> \notin OpToRel(<, Nat)
  <2> HIDE DEF T
  <2> QED
    BY <1>2, NatLessThanWellFounded, WFMin, Zenon
<1>4. PICK m \in S : t = MaxTime - m
  OBVIOUS
<1>5. \A x \in S : m >= x
  <2> SUFFICES ASSUME NEW x \in S PROVE m >= x
    OBVIOUS
  <2>1. MaxTime - x \in T /\ MaxTime - x \in Nat /\ t \in Nat
    BY <1>1, <1>2
  <2>2. ~(MaxTime - x < t)
    BY <1>3, <2>1 DEF OpToRel
  <2> QED
    BY <1>1, <1>4, <2>2
<1>6. Max(S) \in S /\ \A x \in S : Max(S) >= x
  BY <1>5 DEF Max
<1>7. Watermark = Max(S)
  BY DEF Watermark, S
<1>8. \A d \in fact : spend[d].start \in S
  BY DEF S
<1>9. PICK d \in fact : Watermark = spend[d].start
  BY <1>6, <1>7 DEF S
<1>10. \A e \in fact : spend[e].start <= Watermark
  BY <1>1, <1>6, <1>7, <1>8
<1> QED
  BY <1>9, <1>10

(* A step that changes neither source, ledger nor registry, and does not    *)
(* take the job past an insertion.                                          *)
LEMMA HoleFrame ==
  ASSUME TablesInv, HoleOK, UNCHANGED <<spend, known, pending, fact>>,
         job'.pc = "insert" => job.pc = "insert" /\ job'.rows = job.rows,
         job'.pc \in AfterInsert => job.pc \in AfterInsert
  PROVE  HoleOK'
<1>1. Logged' = Logged /\ Logged \subseteq Calls
  BY DEF Logged
<1>2. \A c \in Calls : (Usable(c)' <=> Usable(c)) /\ Hits(c)' = Hits(c)
  BY UsableSame
<1> QED
  BY <1>1, <1>2 DEF HoleOK, Ahead

LEMMA StepHole ==
  ASSUME MaxDelay < Overlap, TablesInv, TablesInv', HoleOK, [Next]_vars
  PROVE  HoleOK'
<1> USE RefreshAssumption
<1>0. TypeOK /\ SpendOK /\ LedgerOK /\ job \in Jobs /\ Logged \subseteq Calls
  BY DEF TablesInv, TypeOK, Logged
<1>1. CASE Tick
  BY <1>1, HoleFrame DEF Tick, tables
<1>2. ASSUME NEW c \in Calls, CallStarts(c) \/ CallLogged(c) PROVE HoleOK'
  <2>1. /\ c \notin Logged
        /\ \A d \in Calls : d # c => spend'[d] = spend[d]
        /\ now' = now /\ known' = known /\ pending' = pending
        /\ job' = job /\ fact' = fact
        /\ spend'[c].state = "logged"
              => spend'[c].start = spend[c].start /\ spend[c].state = "running"
    BY <1>0, <1>2, CallsMove
  <2>2. \A d \in Logged : /\ d # c /\ d \in Calls /\ spend'[d] = spend[d]
                          /\ Usable(d)' <=> Usable(d)
                          /\ Hits(d)' = Hits(d)
    BY <1>0, <2>1, UsableSame
  <2>3. Logged' \subseteq Logged \cup {c}
    BY <2>1 DEF Logged
  <2>4. fact \cup job.rows \subseteq Logged
    BY <1>0 DEF LedgerOK
  <2>5. \A d \in Logged, S \in SUBSET Logged : Ahead(d, S) <=> Ahead(d, S)'
    BY <2>2 DEF Ahead
  <2>6. spend'[c].state = "logged" => \A S \in SUBSET Logged : Ahead(c, S)'
    <3> SUFFICES ASSUME spend'[c].state = "logged", NEW d \in Logged
                 PROVE  spend'[d].start < spend'[c].start + Overlap
      BY DEF Ahead
    <3>1. spend[d].start <= now
      BY <1>0 DEF SpendOK, LStarted, Logged
    <3>2. now <= spend[c].start + MaxDelay
      BY <1>0, <2>1 DEF SpendOK
    <3>3. now \in Nat /\ spend[d].start \in Nat /\ spend[c].start \in Nat
      BY <1>0 DEF TypeOK, SpendRow, Times
    <3> QED
      BY <2>1, <2>2, <3>1, <3>2, <3>3
  <2>7. \A d \in Logged' : d = c => spend'[c].state = "logged"
    BY DEF Logged
  <2>8. ASSUME NEW d \in (Logged \ fact)', Usable(d)', Hits(d)' \cap pending' = {}
        PROVE  Ahead(d, fact)'
    <3>1. CASE d = c
      BY <2>1, <2>4, <2>6, <2>7, <2>8, <3>1
    <3>2. CASE d # c
      <4>1. d \in Logged \ fact /\ Usable(d) /\ Hits(d) \cap pending = {}
        BY <2>1, <2>2, <2>3, <2>8, <3>2
      <4>2. Ahead(d, fact)
        BY <4>1 DEF HoleOK
      <4> QED
        BY <2>1, <2>2, <2>4, <4>1, <4>2 DEF Ahead
    <3> QED
      BY <3>1, <3>2
  <2>9. ASSUME job.pc = "insert", NEW d \in (Logged \ (fact \cup job.rows))', Usable(d)'
        PROVE  Ahead(d, fact \cup job.rows)'
    <3>1. CASE d = c
      BY <2>1, <2>4, <2>6, <2>7, <2>9, <3>1
    <3>2. CASE d # c
      <4>1. d \in Logged \ (fact \cup job.rows) /\ Usable(d)
        BY <2>1, <2>2, <2>3, <2>9, <3>2
      <4>2. Ahead(d, fact \cup job.rows)
        BY <2>9, <4>1 DEF HoleOK
      <4> QED
        BY <2>1, <2>2, <2>4, <4>1, <4>2 DEF Ahead
    <3> QED
      BY <3>1, <3>2
  <2>10. ASSUME job.pc \in AfterInsert, NEW d \in (Logged \ fact)', Usable(d)'
         PROVE  Ahead(d, fact)'
    <3>1. CASE d = c
      BY <2>1, <2>4, <2>6, <2>7, <2>10, <3>1
    <3>2. CASE d # c
      <4>1. d \in Logged \ fact /\ Usable(d)
        BY <2>1, <2>2, <2>3, <2>10, <3>2
      <4>2. Ahead(d, fact)
        BY <2>10, <4>1 DEF HoleOK
      <4> QED
        BY <2>1, <2>2, <2>4, <4>1, <4>2 DEF Ahead
    <3> QED
      BY <3>1, <3>2
  <2> QED
    BY <2>1, <2>8, <2>9, <2>10 DEF HoleOK
<1>3. ASSUME NEW code \in Codes, Register(code) PROVE HoleOK'
  <2>1. /\ job' = job /\ job.pc = "idle" /\ fact' = fact /\ spend' = spend
        /\ known' = known \cup {code} /\ pending' = pending \cup {code}
    BY <1>3, IdleOK DEF Register, tables
  <2>2. Logged' = Logged
    BY <2>1 DEF Logged
  <2>3. ASSUME NEW c \in Logged \ fact, Usable(c)', Hits(c)' \cap pending' = {}
        PROVE  Ahead(c, fact)'
    <3>1. code \notin spend[c].tags
      BY <2>1, <2>3 DEF Hits
    <3>2. Hits(c)' = Hits(c)
      BY <2>1, <3>1 DEF Hits
    <3>3. Usable(c) /\ Hits(c) \cap pending = {}
      BY <2>1, <2>3, <3>2 DEF Usable, Resolved, InScope
    <3> QED
      BY <2>1, <2>3, <3>3 DEF HoleOK, Ahead
  <2> QED
    BY <2>1, <2>2, <2>3 DEF HoleOK, AfterInsert
<1>4. CASE StartCycle \/ StartLoad
  <2>1. job'.pc = "read"
    BY <1>4 DEF StartCycle, StartLoad, Start, Idle
  <2> QED
    BY <1>4, <2>1, HoleFrame DEF StartCycle, StartLoad, Start, tables, AfterInsert
<1>5. CASE Read
  <2>1. job'.pc = "insert" /\ job'.rows = Readable(job.kind = "full")
    BY <1>0, <1>5 DEF Read, Jobs
  <2>2. UNCHANGED <<spend, known, pending, fact>>
    BY <1>5 DEF Read, World, tables
  <2>3. Logged' = Logged
    BY <2>2 DEF Logged
  <2>4. \A c \in Logged : (Usable(c)' <=> Usable(c)) /\ Hits(c)' = Hits(c)
    BY <1>0, <2>2, UsableSame
  <2>5. ASSUME NEW c \in Logged \ (fact \cup job'.rows), Usable(c) PROVE FALSE
    <3>1. /\ fact # {}
          /\ ~(spend[c].start + Overlap > Watermark)
          /\ spend[c].tags \cap pending = {}
      BY <2>1, <2>5 DEF Readable
    <3>2. Hits(c) \cap pending = {}
      BY <3>1 DEF Hits
    <3>3. Ahead(c, fact)
      BY <2>5, <3>2 DEF HoleOK
    <3>4. PICK d \in fact : Watermark = spend[d].start
      BY <1>0, <3>1, LastStart
    <3>5. spend[d].start \in Nat /\ spend[c].start \in Nat
      BY <1>0, <2>5 DEF TypeOK, SpendRow, Times
    <3> QED
      BY <3>1, <3>3, <3>4, <3>5 DEF Ahead
  <2> QED
    BY <2>1, <2>2, <2>3, <2>4, <2>5 DEF HoleOK, Ahead, AfterInsert
<1>6. CASE Insert
  <2>1. job'.pc = "count" /\ job.pc = "insert"
    BY <1>0, <1>6, GoToOK DEF Insert, Steps, At
  <2>2. UNCHANGED <<spend, known, pending>> /\ fact' = fact \cup {c \in job.rows : Usable(c)}
    BY <1>6 DEF Insert, World
  <2>3. Logged' = Logged
    BY <2>2 DEF Logged
  <2>4. \A c \in Logged : (Usable(c)' <=> Usable(c)) /\ Hits(c)' = Hits(c)
    BY <1>0, <2>2, UsableSame
  <2>5. ASSUME NEW c \in Logged \ fact', Usable(c) PROVE Ahead(c, fact)'
    <3>1. c \in Logged \ (fact \cup job.rows)
      BY <2>2, <2>5
    <3>2. Ahead(c, fact \cup job.rows)
      BY <2>1, <2>5, <3>1 DEF HoleOK
    <3> QED
      BY <2>2, <3>2 DEF Ahead
  <2> QED
    BY <2>1, <2>3, <2>4, <2>5 DEF HoleOK
<1>7. CASE Count
  <2>1. job'.pc = "compare" /\ job.pc = "count"
    BY <1>0, <1>7 DEF Count, At, Jobs
  <2> QED
    BY <1>7, <2>1, HoleFrame DEF Count, World, tables, AfterInsert
<1>8. CASE Compare \/ Daily \/ Hourly \/ Latency \/ Beat
  <2>1. job.pc \in AfterInsert /\ UNCHANGED <<spend, known, pending, fact>>
    BY <1>8 DEF Compare, Daily, Hourly, Latency, Beat, At, AfterInsert, World, tables
  <2>2. Release \/ \E pc \in Steps \ {"insert"} : GoTo(pc)
    BY <1>8 DEF Compare, Daily, Hourly, Latency, Beat, Steps
  <2>3. job'.pc # "insert"
    BY <1>0, <2>2, IdleOK, GoToOK DEF Release
  <2> QED
    BY <2>1, <2>3, HoleFrame
<1>9. CASE ClearBackfill
  <2>1. job.pc \in AfterInsert /\ job'.pc = "idle" /\ UNCHANGED <<spend, known, fact>>
    BY <1>9, IdleOK DEF ClearBackfill, At, AfterInsert, World, tables, Release
  <2>2. Logged' = Logged
    BY <2>1 DEF Logged
  <2>3. \A c \in Logged : (Usable(c)' <=> Usable(c)) /\ Hits(c)' = Hits(c)
    BY <1>0, <2>1, UsableSame
  <2> QED
    BY <2>1, <2>2, <2>3 DEF HoleOK, Ahead, AfterInsert
<1>10. CASE StepFails
  <2>1. job'.pc = "idle"
    BY <1>10, IdleOK DEF StepFails, Release
  <2> QED
    BY <1>10, <2>1, HoleFrame DEF StepFails, tables, AfterInsert
<1>11. CASE UNCHANGED vars
  BY <1>11, HoleFrame DEF vars
<1> QED
  BY <1>1, <1>2, <1>3, <1>4, <1>5, <1>6, <1>7, <1>8, <1>9, <1>10, <1>11 DEF Next, JobStep

(* If every call is logged sooner after its start than the read goes back   *)
(* behind the watermark, no refresh, whatever the order of late logging,    *)
(* registration, failed and full loads, leaves behind a row that counts and *)
(* that no later read will look at (read_ledger, OVERLAP, pending_backfill).*)
THEOREM NothingIsEverLost ==
  ASSUME MaxDelay < Overlap
  PROVE  Spec => []NothingLostBelow
<1>1. Init => HoleOK
  BY IdleOK DEF Init, HoleOK, Logged, AfterInsert
<1>2. TablesInv /\ TablesInv' /\ HoleOK /\ [Next]_vars => HoleOK'
  BY StepHole
<1>3. TablesInv /\ HoleOK => NothingLostBelow
  <2> SUFFICES ASSUME TablesInv, HoleOK, NEW c \in Logged \ fact,
                      Usable(c), fact # {}, Hits(c) \cap pending = {}
               PROVE  spend[c].start + Overlap > Watermark
    BY DEF NothingLostBelow
  <2>1. Ahead(c, fact)
    BY DEF HoleOK
  <2>2. PICK d \in fact : Watermark = spend[d].start
    BY LastStart DEF TablesInv
  <2>3. spend[d].start \in Nat /\ spend[c].start \in Nat /\ Overlap \in Nat
    BY RefreshAssumption DEF TablesInv, TypeOK, SpendRow, Times, Logged
  <2> QED
    BY <2>1, <2>2, <2>3 DEF Ahead
<1> QED
  BY <1>1, <1>2, <1>3, TablesAlways, PTL DEF Spec

-----------------------------------------------------------------------------
(* What a cycle owes to the calls that are logged when it reads. *)

OneTag == \A tags \in TagSets : \A s, t \in tags : s = t

(* A read takes every call that counts and is missing; and if nothing was   *)
(* logged since, the check of the whole ledger passes.                      *)
CatchesUp ==
    /\ Read => \A c \in Logged : Usable(c) => c \in fact \cup job'.rows
    /\ Compare /\ job.counted = Logged /\ (\A c \in Logged : Usable(c) => c \in fact)
         => Balanced

(* What is in the ledger goes on to count.                                  *)
FactCounts ==
    /\ \A c \in LStarted : spend[c].tags \in TagSets
    /\ \A c \in fact : Usable(c)

LEMMA StepCounts ==
  ASSUME OneTag, TablesInv, FactCounts, [Next]_vars
  PROVE  FactCounts'
<1>0. TypeOK /\ LedgerOK /\ fact \subseteq Calls /\ job \in Jobs
  BY DEF TablesInv, TypeOK
<1>1. ASSUME UNCHANGED <<spend, known, fact>> PROVE FactCounts'
  <2>1. \A c \in fact : Usable(c)' <=> Usable(c)
    BY <1>0, <1>1, UsableSame
  <2> QED
    BY <1>1, <2>1 DEF FactCounts, LStarted
<1>2. ASSUME NEW c \in Calls, CallStarts(c) \/ CallLogged(c) PROVE FactCounts'
  <2>1. /\ c \notin Logged /\ known' = known /\ fact' = fact
        /\ \A d \in Calls : d # c => spend'[d] = spend[d]
    BY <1>0, <1>2, CallsMove
  <2>2. \A d \in fact : Usable(d)' <=> Usable(d)
    BY <1>0, <2>1, UsableSame DEF LedgerOK
  <2>3. spend'[c].tags \in TagSets
    <3>1. CASE CallStarts(c)
      BY <1>0, <3>1 DEF CallStarts, TypeOK
    <3>2. CASE CallLogged(c)
      BY <1>0, <3>2 DEF CallLogged, TypeOK, SpendRow, FactCounts, LStarted
    <3> QED
      BY <1>2, <3>1, <3>2
  <2> QED
    BY <2>1, <2>2, <2>3 DEF FactCounts, LStarted
<1>3. ASSUME NEW code \in Codes, Register(code) PROVE FactCounts'
  <2>1. spend' = spend /\ fact' = fact /\ known' = known \cup {code}
    BY <1>3 DEF Register, tables
  <2>2. ASSUME NEW c \in fact PROVE Usable(c)'
    <3>1. Usable(c) /\ spend[c].tags \in TagSets
      BY <1>0 DEF FactCounts, LStarted, LedgerOK, Logged
    <3>2. Hits(c) # {}
      BY <3>1, FS_EmptySet DEF Usable, Resolved
    <3>3. \A s, t \in spend[c].tags : s = t
      BY <3>1 DEF OneTag
    <3>4. Hits(c)' = Hits(c)
      BY <2>1, <3>2, <3>3 DEF Hits
    <3> QED
      BY <2>1, <3>1, <3>4 DEF Usable, Resolved, InScope
  <2> QED
    BY <2>1, <2>2 DEF FactCounts, LStarted
<1>4. ASSUME Insert PROVE FactCounts'
  <2>1. UNCHANGED <<spend, known>> /\ fact' = fact \cup {c \in job.rows : Usable(c)}
    BY <1>4 DEF Insert, World
  <2>2. \A c \in Calls : Usable(c)' <=> Usable(c)
    BY <2>1, UsableSame
  <2>3. job.rows \subseteq Calls
    BY <1>0 DEF LedgerOK, Logged
  <2> QED
    BY <1>0, <2>1, <2>2, <2>3 DEF FactCounts, LStarted
<1>5. CASE Tick \/ StartCycle \/ StartLoad \/ StepFails
  BY <1>1, <1>5 DEF Tick, StartCycle, StartLoad, Start, StepFails, tables
<1>6. CASE Read \/ Count \/ Compare \/ Daily \/ Hourly \/ Latency \/ Beat \/ ClearBackfill
  BY <1>1, <1>6 DEF Read, Count, Compare, Daily, Hourly, Latency, Beat, ClearBackfill, World, tables
<1>7. CASE UNCHANGED vars
  BY <1>1, <1>7 DEF vars
<1> QED
  BY <1>2, <1>3, <1>4, <1>5, <1>6, <1>7 DEF Next, JobStep

(* A load reads all that counts and is not in the ledger.                   *)
LEMMA ReadTakesAll ==
  ASSUME TablesInv, HoleOK, Read, NEW c \in Logged, Usable(c)
  PROVE  c \in fact \cup job'.rows
<1> SUFFICES ASSUME c \notin fact, c \notin job'.rows PROVE FALSE
  OBVIOUS
<1>0. TypeOK /\ job \in Jobs
  BY DEF TablesInv, TypeOK
<1>1. job'.rows = Readable(job.kind = "full")
  BY <1>0 DEF Read, Jobs
<1>2. fact # {} /\ ~(spend[c].start + Overlap > Watermark) /\ spend[c].tags \cap pending = {}
  BY <1>1 DEF Readable
<1>3. Ahead(c, fact)
  BY <1>2 DEF HoleOK, Hits
<1>4. PICK d \in fact : Watermark = spend[d].start
  BY <1>0, <1>2, LastStart
<1>5. spend[d].start \in Nat /\ spend[c].start \in Nat /\ Overlap \in Nat
  BY <1>0, RefreshAssumption DEF TypeOK, SpendRow, Times, Logged
<1> QED
  BY <1>2, <1>3, <1>4, <1>5 DEF Ahead

(* What EveryCallReported rests on beside the scheduling: every load reads  *)
(* all calls that count and are missing, late ones and those of agents      *)
(* registered since included; and a cycle during which nothing is logged is *)
(* not stopped by the comparison with the gateway.  The second needs that a *)
(* call names one agent: of two, the later registration would leave it in   *)
(* the ledger and out of the comparison.  (read_ledger, load)               *)
THEOREM CyclesCatchUp ==
  ASSUME MaxDelay < Overlap, OneTag
  PROVE  Spec => [][CatchesUp]_vars
<1>1. Init => HoleOK /\ FactCounts
  BY IdleOK DEF Init, HoleOK, Logged, AfterInsert, FactCounts, LStarted
<1>2. TablesInv /\ TablesInv' /\ HoleOK /\ FactCounts /\ [Next]_vars => HoleOK' /\ FactCounts'
  BY StepHole, StepCounts
<1>3. ASSUME TablesInv, HoleOK, FactCounts, [Next]_vars PROVE [CatchesUp]_vars
  <2>1. Read => \A c \in Logged : Usable(c) => c \in fact \cup job'.rows
    BY <1>3, ReadTakesAll
  <2>2. ASSUME job.counted = Logged, \A c \in Logged : Usable(c) => c \in fact PROVE Balanced
    BY <1>3, <2>2 DEF Balanced, FactCounts, TablesInv, LedgerOK
  <2> QED
    BY <2>1, <2>2 DEF CatchesUp
<1> QED
  BY <1>1, <1>2, <1>3, TablesAlways, PTL DEF Spec

=============================================================================
