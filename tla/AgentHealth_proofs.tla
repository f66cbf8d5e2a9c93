--------------------------- MODULE AgentHealth_proofs ---------------------------
(***************************************************************************)
(* Theorems about AgentHealth, for any number of checks, hours, days, runs *)
(* and shells one after another, crashes, refused transactions and lost     *)
(* acknowledgements.                                                        *)
(***************************************************************************)
EXTENDS AgentHealth, FiniteSetTheorems, TLAPS

PCs == Executing \cup {"down", "startup", "idle", "claim", "interrupt"}

(* p holds a run that it has not let go of.                                *)
Flying(p) == proc[p].pc \in Executing \cup {"interrupt"}

TypeInv ==
    /\ clock \in [day : 1..MaxDay, hour : 0..(Hours - 1)]
    /\ setting \in [runAt : 0..(Hours - 1), lastRun : 0..MaxDay]
    /\ runs \in Seq(Row) /\ files \in Seq({0, Total}) /\ asked \in Seq(0..Total)
    /\ Len(files) = Len(runs) /\ Len(asked) = Len(runs)
    /\ proc \in [Procs -> [pc : PCs, run : Nat, note : BOOLEAN]]
    /\ \A p \in Procs : Flying(p) => Run(p) \in 1..Len(runs)

(* The index on active runs.                                               *)
OneActive == \A r, q \in Active : r = q

(* A row w, the checks a made for its run and the file f of its results.   *)
RowOK(w, a, f) ==
    /\ w.done = w.results /\ w.done <= a /\ a <= w.done + 1
    /\ w.label <= a + 1
    /\ f # 0 => f = w.total /\ w.results = f
    /\ w.status = "done" => w.done = w.total /\ (f = 0) = w.note
    /\ w.status = "queued" => w.total = 0 /\ w.done = 0 /\ w.label = 0 /\ a = 0 /\ f = 0

(* Where a process j is with the run it holds.  Its row may be interrupted  *)
(* under a shell, which goes on, but not under the service.                *)
HoldOK(j, w, a, f) ==
    /\ w.status # "queued"
    /\ j.pc \in Executing => w.status # "done"
    /\ j.pc = "begin" => w.total = 0 /\ w.done = 0 /\ w.label = 0 /\ a = 0
    /\ j.pc \in Executing \ {"begin"} => w.total = Total
    /\ j.pc \in {"label", "check"} => a = w.done /\ a < Total
    /\ j.pc = "record" => a = w.done + 1
    /\ j.pc \in {"write", "finish"} => a = Total /\ w.done = Total
    /\ j.pc \in Executing \ {"finish"} => f = 0 /\ ~j.note
    /\ j.pc = "finish" => (f = 0) = j.note

RowsOK == \A r \in 1..Len(runs) : RowOK(runs[r], asked[r], files[r])
HoldsOK ==
    /\ \A p \in Procs : Flying(p) => HoldOK(proc[p], runs[Run(p)], asked[Run(p)], files[Run(p)])
    /\ proc["service"].pc \in Executing => runs[Run("service")].status = "running"
    /\ Flying("service") /\ Flying("shell") => Run("service") # Run("shell")

(* The schedule: days in order, none after the last one claimed.           *)
Claims == {r \in 1..Len(runs) : runs[r].trigger = "schedule"}
DaysOK ==
    /\ setting.lastRun <= clock.day
    /\ \A r, q \in Claims : r < q => runs[r].day < runs[q].day
    /\ \A r \in Claims : runs[r].day <= setting.lastRun
    /\ Claims = {} => setting.lastRun = 0
    /\ Claims # {} => \E r \in Claims : setting.lastRun = runs[r].day

HealthInv == TypeInv /\ OneActive /\ RowsOK /\ HoldsOK /\ DaysOK

-----------------------------------------------------------------------------
(* Sequences, rows and processes.                                          *)
LEMMA ConstantTypes ==
  /\ Total \in Nat /\ Total >= 1 /\ Hours \in Nat /\ Hours >= 1
  /\ MaxDay \in Nat /\ MaxDay >= 1
  BY HealthAssumption

LEMMA SequenceShape ==
  ASSUME NEW S, NEW s \in Seq(S)
  PROVE  /\ Len(s) \in Nat /\ DOMAIN s = 1..Len(s) /\ s \in [1..Len(s) -> S]
         /\ \A i \in 1..Len(s) : s[i] \in S
  OBVIOUS

LEMMA ReplaceShape ==
  ASSUME NEW S, NEW s \in Seq(S), NEW r \in 1..Len(s), NEW e \in S,
         NEW t, t = [s EXCEPT ![r] = e]
  PROVE  /\ t \in Seq(S) /\ Len(t) = Len(s)
         /\ t[r] = e /\ \A i \in 1..Len(s) : i # r => t[i] = s[i]
  OBVIOUS

LEMMA AppendShape ==
  ASSUME NEW S, NEW s \in Seq(S), NEW e \in S, NEW t, t = Append(s, e)
  PROVE  /\ t \in Seq(S) /\ Len(t) = Len(s) + 1
         /\ t[Len(s) + 1] = e /\ \A i \in 1..Len(s) : t[i] = s[i]
  OBVIOUS

LEMMA RunsShape ==
  ASSUME TypeInv
  PROVE  /\ Len(runs) \in Nat
         /\ DOMAIN runs = 1..Len(runs) /\ DOMAIN files = 1..Len(runs)
         /\ DOMAIN asked = 1..Len(runs)
         /\ runs \in [1..Len(runs) -> Row] /\ files \in [1..Len(runs) -> {0, Total}]
         /\ asked \in [1..Len(runs) -> 0..Total]
  BY SequenceShape DEF TypeInv

LEMMA RowShape ==
  ASSUME NEW w \in Row
  PROVE  /\ w.trigger \in {"schedule", "manual"}
         /\ w.status \in {"queued", "running", "done", "interrupted"}
         /\ w.day \in 0..MaxDay /\ w.total \in {0, Total} /\ w.label \in 0..Total
         /\ w.done \in 0..Total /\ w.results \in 0..Total /\ w.note \in BOOLEAN
  BY DEF Row

LEMMA ProcShape ==
  ASSUME TypeInv, NEW p \in Procs
  PROVE  /\ proc[p] \in [pc : PCs, run : Nat, note : BOOLEAN]
         /\ proc[p].pc \in PCs /\ proc[p].run \in Nat /\ proc[p].note \in BOOLEAN
  BY DEF TypeInv

(* Run r after a step is w, with a checks made and results f in its file.   *)
Edited(r, w, a, f) ==
    /\ runs' \in Seq(Row) /\ files' \in Seq({0, Total}) /\ asked' \in Seq(0..Total)
    /\ Len(runs') = Len(runs) /\ Len(files') = Len(runs) /\ Len(asked') = Len(runs)
    /\ runs'[r] = w /\ asked'[r] = a /\ files'[r] = f
    /\ \A q \in 1..Len(runs) : q # r =>
         runs'[q] = runs[q] /\ asked'[q] = asked[q] /\ files'[q] = files[q]

LEMMA EditShape ==
  ASSUME TypeInv, NEW r \in 1..Len(runs), NEW w \in Row, NEW a \in 0..Total,
         NEW f \in {0, Total},
         runs' = [runs EXCEPT ![r] = w] \/ (runs' = runs /\ w = runs[r]),
         asked' = [asked EXCEPT ![r] = a] \/ (asked' = asked /\ a = asked[r]),
         files' = [files EXCEPT ![r] = f] \/ (files' = files /\ f = files[r])
  PROVE  Edited(r, w, a, f)
<1>1. /\ runs' \in Seq(Row) /\ Len(runs') = Len(runs) /\ runs'[r] = w
      /\ \A q \in 1..Len(runs) : q # r => runs'[q] = runs[q]
  <2>1. CASE runs' = [runs EXCEPT ![r] = w]
    BY <2>1, ReplaceShape DEF TypeInv
  <2>2. CASE runs' = runs /\ w = runs[r]
    BY <2>2 DEF TypeInv
  <2> QED
    BY <2>1, <2>2
<1>2. /\ asked' \in Seq(0..Total) /\ Len(asked') = Len(runs) /\ asked'[r] = a
      /\ \A q \in 1..Len(runs) : q # r => asked'[q] = asked[q]
  <2>1. CASE asked' = [asked EXCEPT ![r] = a]
    <3>1. r \in 1..Len(asked) /\ asked \in Seq(0..Total) /\ Len(asked) = Len(runs)
      BY DEF TypeInv
    <3> QED
      BY <2>1, <3>1, ReplaceShape
  <2>2. CASE asked' = asked /\ a = asked[r]
    BY <2>2 DEF TypeInv
  <2> QED
    BY <2>1, <2>2
<1>3. /\ files' \in Seq({0, Total}) /\ Len(files') = Len(runs) /\ files'[r] = f
      /\ \A q \in 1..Len(runs) : q # r => files'[q] = files[q]
  <2>1. CASE files' = [files EXCEPT ![r] = f]
    <3>1. r \in 1..Len(files) /\ files \in Seq({0, Total}) /\ Len(files) = Len(runs)
      BY DEF TypeInv
    <3> QED
      BY <2>1, <3>1, ReplaceShape
  <2>2. CASE files' = files /\ f = files[r]
    BY <2>2 DEF TypeInv
  <2> QED
    BY <2>1, <2>2
<1> QED
  BY <1>1, <1>2, <1>3 DEF Edited

(* An edit that keeps the trigger and the day of a run, and makes none      *)
(* active, keeps the index, the rows and the days.                         *)
LEMMA EditKeeps ==
  ASSUME HealthInv, NEW r \in 1..Len(runs), NEW w \in Row, NEW a, NEW f,
         Edited(r, w, a, f), RowOK(w, a, f),
         w.trigger = runs[r].trigger, w.day = runs[r].day,
         w.status \in {"queued", "running"} => runs[r].status \in {"queued", "running"},
         UNCHANGED <<clock, setting>>
  PROVE  OneActive' /\ RowsOK' /\ DaysOK'
<1>1. /\ DOMAIN runs = 1..Len(runs) /\ DOMAIN runs' = 1..Len(runs) /\ Len(runs) \in Nat
      /\ Len(runs') = Len(runs)
  BY RunsShape, SequenceShape DEF HealthInv, Edited
<1>2. OneActive'
  <2>1. ASSUME NEW q \in Active' PROVE q \in Active
    <3>1. q \in 1..Len(runs) /\ runs'[q].status \in {"queued", "running"}
      BY <1>1, <2>1 DEF Active
    <3>2. runs[q].status \in {"queued", "running"}
      BY <3>1 DEF Edited
    <3> QED
      BY <1>1, <3>1, <3>2 DEF Active
  <2> QED
    BY <2>1 DEF HealthInv, OneActive
<1>3. RowsOK'
  <2>1. ASSUME NEW q \in 1..Len(runs) PROVE RowOK(runs'[q], asked'[q], files'[q])
    BY <2>1 DEF Edited, HealthInv, RowsOK
  <2> QED
    BY <1>1, <2>1 DEF RowsOK, RowOK
<1>4. DaysOK'
  <2>1. \A q \in 1..Len(runs) : runs'[q].trigger = runs[q].trigger /\ runs'[q].day = runs[q].day
    BY DEF Edited
  <2>2. Claims' = Claims /\ Claims \subseteq 1..Len(runs)
    BY <1>1, <2>1 DEF Claims
  <2>3. \A q \in Claims : runs'[q].day = runs[q].day
    BY <2>1, <2>2
  <2> QED
    BY <2>2, <2>3 DEF HealthInv, DaysOK
<1> QED
  BY <1>2, <1>3, <1>4

-----------------------------------------------------------------------------
(* A step of p on the run it holds.                                        *)
LEMMA MoveKeeps ==
  ASSUME HealthInv, NEW p \in Procs, Flying(p), NEW w \in Row, NEW a, NEW f,
         Edited(Run(p), w, a, f), RowOK(w, a, f),
         w.trigger = runs[Run(p)].trigger, w.day = runs[Run(p)].day,
         w.status \in {"queued", "running"} => runs[Run(p)].status \in {"queued", "running"},
         NEW j \in [pc : PCs, run : Nat, note : BOOLEAN],
         proc' = [proc EXCEPT ![p] = j], j.run = proc[p].run,
         HoldOK(j, w, a, f) \/ j.pc \notin Executing \cup {"interrupt"},
         p = "service" /\ j.pc \in Executing => w.status = "running",
         UNCHANGED <<clock, setting>>
  PROVE  HealthInv'
<1> DEFINE r == Run(p)
<1>1. TypeInv /\ OneActive /\ RowsOK /\ HoldsOK /\ DaysOK
  BY DEF HealthInv
<1>2. r \in 1..Len(runs)
  BY <1>1 DEF TypeInv
<1>3. OneActive' /\ RowsOK' /\ DaysOK'
  BY <1>2, EditKeeps
<1>4. proc' \in [Procs -> [pc : PCs, run : Nat, note : BOOLEAN]]
      /\ proc'[p] = j /\ \A q \in Procs : q # p => proc'[q] = proc[q]
  BY <1>1 DEF TypeInv
<1>5. Len(runs') = Len(runs)
  BY DEF Edited
<1>6. \A q \in Procs : Flying(q)' => Run(q)' \in 1..Len(runs')
  <2>1. ASSUME NEW q \in Procs, Flying(q)' PROVE Run(q)' \in 1..Len(runs)
    <3>1. CASE q = p
      BY <1>2, <1>4, <3>1 DEF Run
    <3>2. CASE q # p
      BY <1>1, <1>4, <2>1, <3>2 DEF Run, Flying, TypeInv
    <3> QED
      BY <3>1, <3>2
  <2> QED
    BY <1>5, <2>1
<1>7. TypeInv'
  BY <1>1, <1>4, <1>6 DEF TypeInv, Edited
<1>8. HoldsOK'
  <2>1. \A q \in Procs : q # p /\ Flying(q) => Run(q) # r /\ Run(q) \in 1..Len(runs)
    BY <1>1 DEF HoldsOK, TypeInv, Procs
  <2>2. ASSUME NEW q \in Procs, Flying(q)'
        PROVE  HoldOK(proc'[q], runs'[proc'[q].run], asked'[proc'[q].run],
                      files'[proc'[q].run])
    <3>1. CASE q = p
      BY <1>4, <2>2, <3>1 DEF Edited, Run, Flying
    <3>2. CASE q # p
      <4>1. Flying(q) /\ proc'[q] = proc[q]
        BY <1>4, <2>2, <3>2 DEF Flying
      <4>2. HoldOK(proc[q], runs[Run(q)], asked[Run(q)], files[Run(q)])
        BY <1>1, <4>1 DEF HoldsOK
      <4>3. /\ runs'[Run(q)] = runs[Run(q)] /\ asked'[Run(q)] = asked[Run(q)]
            /\ files'[Run(q)] = files[Run(q)]
        BY <2>1, <3>2, <4>1 DEF Edited
      <4> QED
        BY <4>1, <4>2, <4>3 DEF Run
    <3> QED
      BY <3>1, <3>2
  <2>3. proc'["service"].pc \in Executing => runs'[proc'["service"].run].status = "running"
    <3>1. CASE p = "service"
      BY <1>4, <3>1 DEF Edited, Run
    <3>2. CASE p # "service"
      <4>1. proc'["service"] = proc["service"]
        BY <1>4, <3>2 DEF Procs
      <4>2. proc["service"].pc \in Executing =>
              /\ runs[Run("service")].status = "running"
              /\ runs'[Run("service")] = runs[Run("service")]
        BY <1>1, <2>1, <3>2 DEF HoldsOK, Edited, Flying, Procs
      <4> QED
        BY <4>1, <4>2 DEF Run
    <3> QED
      BY <3>1, <3>2
  <2>4. Flying("service")' /\ Flying("shell")' => Run("service")' # Run("shell")'
    <3>1. \A q \in Procs : Run(q)' = Run(q) /\ (Flying(q)' => Flying(q))
      BY <1>4 DEF Run, Flying
    <3> QED
      BY <1>1, <3>1 DEF HoldsOK, Procs
  <2> QED
    BY <2>2, <2>3, <2>4 DEF HoldsOK, Run, HoldOK
<1> QED
  BY <1>3, <1>7, <1>8 DEF HealthInv

(* A step that only moves p, and not into the middle of a run.             *)
LEMMA IdleKeeps ==
  ASSUME HealthInv, NEW p \in Procs, NEW n \in PCs \ Executing,
         n = "interrupt" => Flying(p),
         proc' = [proc EXCEPT ![p].pc = n],
         UNCHANGED <<clock, setting, runs, files, asked>>
  PROVE  HealthInv'
<1>1. TypeInv /\ OneActive /\ RowsOK /\ HoldsOK /\ DaysOK
  BY DEF HealthInv
<1>2. /\ proc' \in [Procs -> [pc : PCs, run : Nat, note : BOOLEAN]]
      /\ proc'[p].pc = n /\ proc'[p].run = proc[p].run
      /\ \A q \in Procs : q # p => proc'[q] = proc[q]
  BY <1>1 DEF TypeInv
<1>3. \A q \in Procs : Run(q)' = Run(q) /\ (Flying(q)' => Flying(q))
  BY <1>2 DEF Run, Flying
<1>4. TypeInv'
  BY <1>1, <1>2, <1>3 DEF TypeInv
<1>5. OneActive' /\ RowsOK' /\ DaysOK'
  BY <1>1 DEF OneActive, Active, RowsOK, RowOK, DaysOK, Claims
<1>6. HoldsOK'
  <2>1. ASSUME NEW q \in Procs, Flying(q)'
        PROVE  HoldOK(proc'[q], runs[Run(q)], asked[Run(q)], files[Run(q)])
    <3>1. HoldOK(proc[q], runs[Run(q)], asked[Run(q)], files[Run(q)])
      BY <1>1, <1>3, <2>1 DEF HoldsOK
    <3>2. CASE q = p
      <4>1. proc'[q].pc \notin Executing
        BY <1>2, <3>2
      <4>2. proc'[q].pc # "begin" /\ proc'[q].pc \notin {"label", "check"}
            /\ proc'[q].pc # "record" /\ proc'[q].pc \notin {"write", "finish"}
        BY <4>1 DEF Executing
      <4> QED
        BY <3>1, <4>1, <4>2 DEF HoldOK
    <3>3. CASE q # p
      BY <1>2, <3>1, <3>3
    <3> QED
      BY <3>2, <3>3
  <2>2. proc'["service"].pc \in Executing => proc["service"].pc \in Executing
    BY <1>2 DEF Procs
  <2>3. \A q \in Procs : Flying(q)' =>
          HoldOK(proc'[q], runs'[proc'[q].run], asked'[proc'[q].run], files'[proc'[q].run])
    BY <1>3, <2>1 DEF Run
  <2>4. proc'["service"].pc \in Executing => runs'[proc'["service"].run].status = "running"
    BY <1>1, <1>3, <2>2 DEF HoldsOK, Run, Procs
  <2>5. Flying("service")' /\ Flying("shell")' => proc'["service"].run # proc'["shell"].run
    BY <1>1, <1>3 DEF HoldsOK, Run, Procs
  <2> QED
    BY <2>3, <2>4, <2>5 DEF HoldsOK, Run, HoldOK
<1> QED
  BY <1>4, <1>5, <1>6 DEF HealthInv

-----------------------------------------------------------------------------
(* The steps of execute.                                                   *)
Held(p, r) ==
    /\ r \in 1..Len(runs) /\ r = proc[p].run
    /\ runs[r] \in Row /\ asked[r] \in 0..Total /\ files[r] \in {0, Total}
    /\ RowOK(runs[r], asked[r], files[r])
    /\ HoldOK(proc[p], runs[r], asked[r], files[r])
    /\ p = "service" /\ proc[p].pc \in Executing => runs[r].status = "running"

LEMMA HeldRun ==
  ASSUME HealthInv, NEW p \in Procs, Flying(p) PROVE Held(p, Run(p))
<1>1. TypeInv /\ RowsOK /\ HoldsOK
  BY DEF HealthInv
<1>2. Run(p) \in 1..Len(runs) /\ Run(p) = proc[p].run
  BY <1>1 DEF TypeInv, Run
<1>3. runs[Run(p)] \in Row /\ asked[Run(p)] \in 0..Total /\ files[Run(p)] \in {0, Total}
  BY <1>1, <1>2, RunsShape
<1> QED
  BY <1>1, <1>2, <1>3 DEF RowsOK, HoldsOK, Held

(* What a step of execute does: the row, the checks, the file, and where p  *)
(* goes.                                                                   *)
Moved(p, n, note) == [proc[p] EXCEPT !.pc = n, !.note = note]

Steps(p, w, a, f, n, note) ==
    /\ runs' = [runs EXCEPT ![Run(p)] = w] \/ (runs' = runs /\ w = runs[Run(p)])
    /\ asked' = [asked EXCEPT ![Run(p)] = a] \/ (asked' = asked /\ a = asked[Run(p)])
    /\ files' = [files EXCEPT ![Run(p)] = f] \/ (files' = files /\ f = files[Run(p)])
    /\ proc' = [proc EXCEPT ![p] = Moved(p, n, note)]
    /\ UNCHANGED <<clock, setting>>

LEMMA StepKeeps ==
  ASSUME HealthInv, NEW p \in Procs, Flying(p), NEW w \in Row, NEW a \in 0..Total,
         NEW f \in {0, Total}, NEW n \in PCs, NEW note \in BOOLEAN,
         Steps(p, w, a, f, n, note), RowOK(w, a, f),
         w.trigger = runs[Run(p)].trigger, w.day = runs[Run(p)].day,
         w.status \in {"queued", "running"} => runs[Run(p)].status \in {"queued", "running"},
         HoldOK(Moved(p, n, note), w, a, f)
           \/ n \notin Executing \cup {"interrupt"},
         p = "service" /\ n \in Executing => w.status = "running"
  PROVE  HealthInv'
<1> DEFINE j == Moved(p, n, note)
<1>0. TypeInv
  BY DEF HealthInv
<1>1. /\ j \in [pc : PCs, run : Nat, note : BOOLEAN]
      /\ j.run = proc[p].run /\ j.pc = n
  <2>1. proc[p] \in [pc : PCs, run : Nat, note : BOOLEAN]
    BY <1>0, ProcShape
  <2> QED
    BY ONLY <2>1, n \in PCs, note \in BOOLEAN DEF Moved
<1>2. proc' = [proc EXCEPT ![p] = j]
  BY DEF Steps
<1>3. Run(p) \in 1..Len(runs)
  BY HeldRun DEF Held
<1>4. Edited(Run(p), w, a, f)
  BY <1>0, <1>3, EditShape DEF Steps
<1>5. UNCHANGED <<clock, setting>>
  BY DEF Steps
<1>6. HoldOK(j, w, a, f) \/ j.pc \notin Executing \cup {"interrupt"}
  BY <1>1
<1>7. p = "service" /\ j.pc \in Executing => w.status = "running"
  BY <1>1
<1> HIDE DEF j
<1> QED
  BY <1>1, <1>2, <1>4, <1>5, <1>6, <1>7, MoveKeeps

LEMMA AppliedShape ==
  ASSUME TypeInv, NEW p \in Procs, proc[p].pc \in Executing, NEW next \in PCs, Applied(p, next)
  PROVE  \E n \in {next, "interrupt"} :
            proc' = [proc EXCEPT ![p] = Moved(p, n, proc[p].note)]
<1>1. ExceptionOf(p) = "interrupt"
  BY DEF ExceptionOf
<1>2. PICK n \in {next, "interrupt"} : proc' = [proc EXCEPT ![p].pc = n]
  BY <1>1 DEF Applied, Goto
<1>3. proc[p] \in [pc : PCs, run : Nat, note : BOOLEAN] /\ n \in PCs
  BY ProcShape DEF PCs
<1> DEFINE j == [proc[p] EXCEPT !.pc = n]
           k == [proc[p] EXCEPT !.pc = n, !.note = proc[p].note]
<1>4. j = k
  BY ONLY <1>3
<1>5. proc' = [proc EXCEPT ![p] = j]
  BY <1>2
<1>6. proc' = [proc EXCEPT ![p] = k]
  BY <1>4, <1>5
<1> QED
  BY <1>6 DEF Moved

LEMMA HoldIf ==
  ASSUME TypeInv, NEW p \in Procs, NEW n \in PCs, NEW note \in BOOLEAN,
         NEW w, NEW a, NEW f,
         w.status # "queued",
         n \in Executing => w.status # "done",
         n = "begin" => w.total = 0 /\ w.done = 0 /\ w.label = 0 /\ a = 0,
         n \in Executing \ {"begin"} => w.total = Total,
         n \in {"label", "check"} => a = w.done /\ a < Total,
         n = "record" => a = w.done + 1,
         n \in {"write", "finish"} => a = Total /\ w.done = Total,
         n \in Executing \ {"finish"} => f = 0 /\ ~note,
         n = "finish" => (f = 0) = note
  PROVE  HoldOK(Moved(p, n, note), w, a, f)
<1> DEFINE k == Moved(p, n, note)
<1>1. k.pc = n /\ k.note = note
  BY ProcShape DEF Moved
<1> HIDE DEF k
<1>2. HoldOK(k, w, a, f)
  BY <1>1 DEF HoldOK
<1> QED
  BY <1>2 DEF k


(* The same for a transaction, whose acknowledgement may be lost.          *)
LEMMA AppliedKeeps ==
  ASSUME HealthInv, NEW p \in Procs, proc[p].pc \in Executing, NEW next \in PCs,
         Applied(p, next), NEW w \in Row,
         runs' = [runs EXCEPT ![Run(p)] = w], UNCHANGED <<clock, setting, files, asked>>,
         RowOK(w, asked[Run(p)], files[Run(p)]),
         w.trigger = runs[Run(p)].trigger, w.day = runs[Run(p)].day,
         w.status # "queued", w.status = "running" => runs[Run(p)].status = "running",
         HoldOK(Moved(p, next, proc[p].note), w, asked[Run(p)], files[Run(p)])
           \/ next \notin Executing \cup {"interrupt"},
         p = "service" /\ next \in Executing => w.status = "running"
  PROVE  HealthInv'
<1> DEFINE a == asked[Run(p)]
           f == files[Run(p)]
           note == proc[p].note
<1>1. TypeInv /\ Flying(p)
  BY DEF HealthInv, Flying
<1>2. a \in 0..Total /\ f \in {0, Total}
  BY <1>1, HeldRun DEF Held
<1>3. proc[p] \in [pc : PCs, run : Nat, note : BOOLEAN] /\ note \in BOOLEAN
  BY <1>1, ProcShape
<1>4. PICK n \in {next, "interrupt"} :
        proc' = [proc EXCEPT ![p] = Moved(p, n, note)]
  BY <1>1, AppliedShape
<1>5. n \in PCs
  BY <1>4 DEF PCs
<1>6. Steps(p, w, a, f, n, note)
  BY <1>4 DEF Steps
<1>7. HoldOK(Moved(p, n, note), w, a, f)
        \/ n \notin Executing \cup {"interrupt"}
  <2>1. CASE n = next
    BY <2>1
  <2>2. CASE n = "interrupt"
    <3>1. n \notin Executing /\ n # "begin" /\ n \notin {"label", "check"}
          /\ n # "record" /\ n \notin {"write", "finish"} /\ n # "finish"
      BY <2>2 DEF Executing
    <3> HIDE DEF a, f, note
    <3> QED
      BY <1>1, <1>3, <1>5, <3>1, HoldIf
  <2> QED
    BY <1>4, <2>1, <2>2
<1>8. p = "service" /\ n \in Executing => w.status = "running"
  BY <1>4 DEF Executing
<1>9. w.status \in {"queued", "running"} => runs[Run(p)].status \in {"queued", "running"}
  OBVIOUS
<1> HIDE DEF a, f, note
<1>10. RowOK(w, a, f)
  BY DEF a, f
<1>11. /\ w \in Row /\ w.trigger = runs[Run(p)].trigger /\ w.day = runs[Run(p)].day
       /\ HealthInv /\ p \in Procs /\ Flying(p)
  BY <1>1
<1> QED
  BY ONLY <1>2, <1>3, <1>5, <1>6, <1>7, <1>8, <1>9, <1>10, <1>11, StepKeeps

LEMMA BeginKeeps == ASSUME HealthInv, NEW p \in Procs, Begin(p) PROVE HealthInv'
<1> DEFINE r == Run(p)
           w == [runs[r] EXCEPT !.total = Total]
<1>1. proc[p].pc = "begin" /\ proc[p].pc \in Executing /\ Flying(p)
  BY DEF Begin, At, Executing, Flying
<1>2. Held(p, r) /\ Total \in Nat /\ Total >= 1
  BY <1>1, HeldRun, ConstantTypes
<1>3. /\ w \in Row /\ w.trigger = runs[r].trigger /\ w.day = runs[r].day
      /\ w.total = Total /\ w.label = runs[r].label /\ w.done = runs[r].done
      /\ w.results = runs[r].results /\ w.status = runs[r].status /\ w.note = runs[r].note
  <2>1. runs[r] \in Row
    BY <1>2 DEF Held
  <2> QED
    BY ONLY <2>1 DEF Row
<1>4. /\ runs' = [runs EXCEPT ![r] = w] /\ UNCHANGED <<clock, setting, files, asked>>
      /\ Applied(p, "label")
  BY DEF Begin
<1> HIDE DEF w
<1>5. /\ runs[r].status # "queued" /\ runs[r].status # "done"
      /\ runs[r].done = 0 /\ runs[r].label = 0 /\ asked[r] = 0 /\ files[r] = 0
      /\ ~proc[p].note
      /\ p = "service" => runs[r].status = "running"
  BY <1>1, <1>2 DEF Held, HoldOK, Executing
<1>6. RowOK(w, asked[r], files[r])
  BY <1>2, <1>3, <1>5 DEF Held, RowOK
<1>7. HoldOK(Moved(p, "label", proc[p].note), w, asked[r], files[r])
  <2>1. TypeInv /\ proc[p].note \in BOOLEAN
    BY ProcShape DEF HealthInv
  <2>2. /\ w.status # "queued" /\ w.status # "done" /\ w.total = Total
        /\ asked[r] = w.done /\ asked[r] < Total /\ files[r] = 0
    BY <1>2, <1>3, <1>5
  <2>3. "label" \in PCs /\ "label" # "begin" /\ "label" # "record" /\ "label" # "finish"
        /\ "label" \notin {"write", "finish"}
    BY DEF PCs, Executing
  <2> HIDE DEF r
  <2> QED
    BY ONLY <1>5, <2>1, <2>2, <2>3, HoldIf
<1>8. "label" \in PCs
  BY DEF PCs, Executing
<1> HIDE DEF r
<1> QED
  BY <1>1, <1>3, <1>4, <1>5, <1>6, <1>7, <1>8, AppliedKeeps DEF r


LEMMA LabelKeeps == ASSUME HealthInv, NEW p \in Procs, Label(p) PROVE HealthInv'
<1> DEFINE r == Run(p)
           w == [runs[r] EXCEPT !.label = asked[r] + 1]
<1>1. proc[p].pc = "label" /\ proc[p].pc \in Executing /\ Flying(p)
  BY DEF Label, At, Executing, Flying
<1>2. Held(p, r) /\ Total \in Nat /\ Total >= 1
  BY <1>1, HeldRun, ConstantTypes
<1>3. /\ runs[r].status # "queued" /\ runs[r].status # "done" /\ runs[r].total = Total
      /\ asked[r] = runs[r].done /\ asked[r] < Total /\ files[r] = 0 /\ ~proc[p].note
      /\ p = "service" => runs[r].status = "running"
      /\ asked[r] \in 0..Total /\ asked[r] + 1 \in 0..Total
  BY <1>1, <1>2 DEF Held, HoldOK, Executing
<1>4. /\ w \in Row /\ w.trigger = runs[r].trigger /\ w.day = runs[r].day
      /\ w.total = runs[r].total /\ w.label = asked[r] + 1 /\ w.done = runs[r].done
      /\ w.results = runs[r].results /\ w.status = runs[r].status /\ w.note = runs[r].note
  <2>1. runs[r] \in Row
    BY <1>2 DEF Held
  <2> QED
    BY ONLY <1>3, <2>1 DEF Row
<1>5. /\ runs' = [runs EXCEPT ![r] = w] /\ UNCHANGED <<clock, setting, files, asked>>
      /\ Applied(p, "check")
  BY DEF Label
<1> HIDE DEF w
<1>6. RowOK(w, asked[r], files[r])
  BY <1>2, <1>3, <1>4 DEF Held, RowOK
<1>7. HoldOK(Moved(p, "check", proc[p].note), w, asked[r], files[r])
  <2>1. TypeInv /\ proc[p].note \in BOOLEAN
    BY ProcShape DEF HealthInv
  <2>2. /\ w.status # "queued" /\ w.status # "done" /\ w.total = Total
        /\ asked[r] = w.done /\ asked[r] < Total /\ files[r] = 0
    BY <1>3, <1>4
  <2>3. "check" \in PCs /\ "check" # "begin" /\ "check" # "record" /\ "check" # "finish"
        /\ "check" \notin {"write", "finish"}
    BY DEF PCs, Executing
  <2> HIDE DEF r
  <2> QED
    BY ONLY <1>3, <2>1, <2>2, <2>3, HoldIf
<1>8. "check" \in PCs
  BY DEF PCs, Executing
<1> HIDE DEF r
<1> QED
  BY <1>1, <1>3, <1>4, <1>5, <1>6, <1>7, <1>8, AppliedKeeps DEF r

LEMMA CheckKeeps == ASSUME HealthInv, NEW p \in Procs, Check(p) PROVE HealthInv'
<1> DEFINE r == Run(p)
           w == runs[r]
           a == asked[r] + 1
           f == files[r]
           note == proc[p].note
<1>0. TypeInv
  BY DEF HealthInv
<1>1. proc[p].pc = "check" /\ proc[p].pc \in Executing /\ Flying(p)
  BY DEF Check, At, Executing, Flying
<1>2. Held(p, r) /\ Total \in Nat /\ Total >= 1
  BY <1>1, HeldRun, ConstantTypes
<1>3. /\ w.status # "queued" /\ w.status # "done" /\ w.total = Total
      /\ asked[r] = w.done /\ asked[r] < Total /\ f = 0 /\ ~note
      /\ p = "service" => w.status = "running"
      /\ asked[r] \in 0..Total /\ a \in 0..Total /\ w \in Row /\ f \in {0, Total}
  BY <1>1, <1>2 DEF Held, HoldOK, Executing
<1>4. note \in BOOLEAN /\ proc[p] \in [pc : PCs, run : Nat, note : BOOLEAN]
  BY <1>0, ProcShape
<1>5. "record" \in PCs /\ "record" # "begin" /\ "record" \notin {"label", "check"}
      /\ "record" # "finish" /\ "record" \notin {"write", "finish"}
  BY DEF PCs, Executing
<1>6. Steps(p, w, a, f, "record", note)
  <2> DEFINE j == [proc[p] EXCEPT !.pc = "record"]
             k == [proc[p] EXCEPT !.pc = "record", !.note = note]
  <2>1. j = k
    BY ONLY <1>4
  <2>2. proc' = [proc EXCEPT ![p] = j]
    BY DEF Check, Goto
  <2>3. proc' = [proc EXCEPT ![p] = k]
    BY <2>1, <2>2
  <2>4. proc' = [proc EXCEPT ![p] = Moved(p, "record", note)]
    BY <2>3 DEF Moved
  <2>5. asked' = [asked EXCEPT ![Run(p)] = a] /\ UNCHANGED <<clock, setting, runs, files>>
    BY DEF Check
  <2> QED
    BY <2>4, <2>5 DEF Steps
<1>7. RowOK(w, a, f)
  <2>1. w.done = w.results /\ w.label <= asked[r] + 1 /\ w.done \in 0..Total /\ w.label \in 0..Total
    BY <1>2, <1>3, RowShape DEF Held, RowOK
  <2>2. w.done <= a /\ a <= w.done + 1 /\ w.label <= a + 1
    BY <1>3, <2>1
  <2> HIDE DEF w, a, f
  <2> QED
    BY <1>3, <2>1, <2>2 DEF RowOK
<1>8. HoldOK(Moved(p, "record", note), w, a, f)
  <2>1. a = w.done + 1
    BY <1>3
  <2> HIDE DEF r, w, a, f, note
  <2> QED
    BY ONLY <1>0, <1>3, <1>4, <1>5, <2>1, HoldIf
<1>9. /\ w.trigger = runs[Run(p)].trigger /\ w.day = runs[Run(p)].day
      /\ w.status \in {"queued", "running"} => runs[Run(p)].status \in {"queued", "running"}
  OBVIOUS
<1> HIDE DEF r, w, a, f, note
<1> QED
  BY <1>1, <1>3, <1>4, <1>5, <1>6, <1>7, <1>8, <1>9, StepKeeps

LEMMA RecordKeeps == ASSUME HealthInv, NEW p \in Procs, Record(p) PROVE HealthInv'
<1> DEFINE r == Run(p)
           w == [runs[r] EXCEPT !.results = asked[r], !.done = @ + 1]
           next == IF asked[r] < Total THEN "label" ELSE "write"
<1>1. proc[p].pc = "record" /\ proc[p].pc \in Executing /\ Flying(p)
  BY DEF Record, At, Executing, Flying
<1>2. Held(p, r) /\ Total \in Nat /\ Total >= 1
  BY <1>1, HeldRun, ConstantTypes
<1>3. /\ runs[r].status # "queued" /\ runs[r].status # "done" /\ runs[r].total = Total
      /\ asked[r] = runs[r].done + 1 /\ files[r] = 0 /\ ~proc[p].note
      /\ p = "service" => runs[r].status = "running"
      /\ asked[r] \in 0..Total /\ runs[r] \in Row
  BY <1>1, <1>2 DEF Held, HoldOK, Executing
<1>4. /\ w \in Row /\ w.trigger = runs[r].trigger /\ w.day = runs[r].day
      /\ w.total = runs[r].total /\ w.label = runs[r].label /\ w.done = runs[r].done + 1
      /\ w.results = asked[r] /\ w.status = runs[r].status /\ w.note = runs[r].note
  BY ONLY <1>3 DEF Row
<1>5. /\ runs' = [runs EXCEPT ![r] = w] /\ UNCHANGED <<clock, setting, files, asked>>
      /\ Applied(p, next)
  <2>1. runs' = [runs EXCEPT ![r] = w]
    <3>1. runs' = [runs EXCEPT ![r].results = asked[r], ![r].done = @ + 1]
      BY DEF Record
    <3> DEFINE w1 == [runs[r] EXCEPT !.results = asked[r]]
               s == [runs EXCEPT ![r] = w1]
    <3>2. runs' = [s EXCEPT ![r].done = @ + 1]
      BY <3>1
    <3>3. r \in DOMAIN runs
      BY <1>2, RunsShape DEF Held, HealthInv
    <3>4. s[r] = w1 /\ r \in DOMAIN s
      BY <3>3
    <3>5. [s EXCEPT ![r].done = @ + 1] = [s EXCEPT ![r] = [w1 EXCEPT !.done = @ + 1]]
      BY <3>4
    <3>6. [w1 EXCEPT !.done = @ + 1] = w
      BY ONLY <1>3 DEF Row
    <3> HIDE DEF w, w1
    <3>7. [s EXCEPT ![r] = w] = [runs EXCEPT ![r] = w]
      BY <3>3
    <3> QED
      BY <3>2, <3>5, <3>6, <3>7
  <2>2. UNCHANGED <<clock, setting, files, asked>> /\ Applied(p, next)
    BY DEF Record
  <2> QED
    BY <2>1, <2>2
<1> HIDE DEF w
<1>6. RowOK(w, asked[r], files[r])
  <2>1. runs[r].label <= asked[r] + 1
    BY <1>2 DEF Held, RowOK
  <2> QED
    BY <1>3, <1>4, <2>1 DEF RowOK
<1>7. HoldOK(Moved(p, next, proc[p].note), w, asked[r], files[r]) /\ next \in PCs
  <2>1. TypeInv /\ proc[p].note \in BOOLEAN
    BY ProcShape DEF HealthInv
  <2>2. /\ w.status # "queued" /\ w.status # "done" /\ w.total = Total
        /\ asked[r] = w.done /\ files[r] = 0
    BY <1>3, <1>4, RowShape
  <2>3. CASE asked[r] < Total
    <3>1. next = "label"
      BY <2>3
    <3>2. "label" \in PCs /\ "label" # "begin" /\ "label" # "record" /\ "label" # "finish"
          /\ "label" \notin {"write", "finish"}
      BY DEF PCs, Executing
    <3> HIDE DEF r, next
    <3> QED
      BY ONLY <1>3, <2>1, <2>2, <2>3, <3>1, <3>2, HoldIf
  <2>4. CASE ~(asked[r] < Total)
    <3>1. next = "write" /\ asked[r] = Total
      BY <1>2, <1>3, <2>4
    <3>2. "write" \in PCs /\ "write" # "begin" /\ "write" # "record" /\ "write" # "finish"
          /\ "write" \notin {"label", "check"}
      BY DEF PCs, Executing
    <3> HIDE DEF r, next
    <3> QED
      BY ONLY <1>3, <2>1, <2>2, <3>1, <3>2, HoldIf
  <2> QED
    BY <2>3, <2>4
<1> HIDE DEF r, next
<1> QED
  BY <1>1, <1>3, <1>4, <1>5, <1>6, <1>7, AppliedKeeps DEF r


LEMMA WriteKeeps == ASSUME HealthInv, NEW p \in Procs, WriteResult(p) PROVE HealthInv'
<1> DEFINE r == Run(p)
           w == runs[r]
           a == asked[r]
<1>0. TypeInv
  BY DEF HealthInv
<1>1. proc[p].pc = "write" /\ proc[p].pc \in Executing /\ Flying(p)
  BY DEF WriteResult, At, Executing, Flying
<1>2. Held(p, r) /\ Total \in Nat /\ Total >= 1
  BY <1>1, HeldRun, ConstantTypes
<1>3. /\ w.status # "queued" /\ w.status # "done" /\ w.total = Total
      /\ a = Total /\ w.done = Total /\ w.results = Total /\ files[r] = 0 /\ ~proc[p].note
      /\ p = "service" => w.status = "running"
      /\ a \in 0..Total /\ w \in Row /\ w.label <= a + 1
  BY <1>1, <1>2 DEF Held, HoldOK, RowOK, Executing
<1>4. proc[p].note \in BOOLEAN /\ proc[p] \in [pc : PCs, run : Nat, note : BOOLEAN]
  BY <1>0, ProcShape
<1>5. PICK f \in {0, Total}, note \in BOOLEAN : Steps(p, w, a, f, "finish", note) /\ (f = 0) = note
  <2>1. CASE /\ files' = [files EXCEPT ![Run(p)] = asked[Run(p)]]
             /\ Goto(p, "finish")
    <3> DEFINE j == [proc[p] EXCEPT !.pc = "finish"]
               k == [proc[p] EXCEPT !.pc = "finish", !.note = proc[p].note]
    <3>1. j = k
      BY ONLY <1>4
    <3>2. proc' = [proc EXCEPT ![p] = j]
      BY <2>1 DEF Goto
    <3>3. proc' = [proc EXCEPT ![p] = k]
      BY <3>1, <3>2
    <3>4. proc' = [proc EXCEPT ![p] = Moved(p, "finish", proc[p].note)]
      BY <3>3 DEF Moved
    <3>5. files' = [files EXCEPT ![Run(p)] = Total] /\ UNCHANGED <<clock, setting, runs, asked>>
      BY <1>3, <2>1 DEF WriteResult
    <3>6. Steps(p, w, a, Total, "finish", proc[p].note)
      BY <3>4, <3>5 DEF Steps
    <3>7. Total # 0
      BY <1>2
    <3>8. (Total = 0) = proc[p].note
      BY <1>3, <1>4, <3>7, Zenon
    <3> QED
      BY <1>4, <3>6, <3>8
  <2>2. CASE /\ proc' = [proc EXCEPT ![p].pc = "finish", ![p].note = TRUE]
             /\ UNCHANGED files
    <3> DEFINE j == [proc[p] EXCEPT !.pc = "finish"]
               s == [proc EXCEPT ![p] = j]
    <3>1. s[p] = j /\ p \in DOMAIN s
      BY <1>0 DEF TypeInv
    <3>2. proc' = [s EXCEPT ![p].note = TRUE]
      BY <2>2
    <3>3. [s EXCEPT ![p].note = TRUE] = [s EXCEPT ![p] = [j EXCEPT !.note = TRUE]]
      BY <3>1
    <3>4. [j EXCEPT !.note = TRUE] = Moved(p, "finish", TRUE)
      BY <1>4 DEF Moved
    <3> HIDE DEF j
    <3>5. [s EXCEPT ![p] = Moved(p, "finish", TRUE)] = [proc EXCEPT ![p] = Moved(p, "finish", TRUE)]
      BY <3>1
    <3>6. proc' = [proc EXCEPT ![p] = Moved(p, "finish", TRUE)]
      BY <3>2, <3>3, <3>4, <3>5
    <3>7. UNCHANGED <<clock, setting, runs, files, asked>>
      BY <2>2 DEF WriteResult
    <3>8. Steps(p, w, a, 0, "finish", TRUE)
      BY <1>3, <3>6, <3>7 DEF Steps
    <3> QED
      BY <3>8
  <2> QED
    BY <2>1, <2>2 DEF WriteResult
<1>6. RowOK(w, a, f)
  <2>1. f # 0 => f = w.total /\ w.results = f
    BY <1>3, <1>5
  <2> HIDE DEF w, a
  <2> QED
    BY <1>2, <1>3, <2>1 DEF RowOK
<1>7. "finish" \in PCs /\ "finish" # "begin" /\ "finish" \notin {"label", "check"}
      /\ "finish" # "record"
  BY DEF PCs, Executing
<1>8. HoldOK(Moved(p, "finish", note), w, a, f)
  <2> HIDE DEF r, w, a
  <2> QED
    BY ONLY <1>0, <1>3, <1>5, <1>7, HoldIf
<1>9. /\ w.trigger = runs[Run(p)].trigger /\ w.day = runs[Run(p)].day
      /\ w.status \in {"queued", "running"} => runs[Run(p)].status \in {"queued", "running"}
  OBVIOUS
<1> HIDE DEF r, w, a
<1> QED
  BY <1>1, <1>3, <1>5, <1>6, <1>7, <1>8, <1>9, StepKeeps

LEMMA AfterRunShape ==
  ASSUME NEW p \in Procs PROVE AfterRun(p) \in PCs /\ AfterRun(p) \notin Executing \cup {"interrupt"}
  BY DEF AfterRun, PCs, Executing

LEMMA FinishKeeps == ASSUME HealthInv, NEW p \in Procs, Finish(p) PROVE HealthInv'
<1> DEFINE r == Run(p)
           w1 == [runs[r] EXCEPT !.status = "done"]
           w2 == [w1 EXCEPT !.label = 0]
           w3 == [w2 EXCEPT !.results = asked[r]]
           w == [w3 EXCEPT !.note = proc[p].note]
<1>0. TypeInv
  BY DEF HealthInv
<1>1. proc[p].pc = "finish" /\ proc[p].pc \in Executing /\ Flying(p)
  BY DEF Finish, At, Executing, Flying
<1>2. Held(p, r) /\ Total \in Nat /\ Total >= 1
  BY <1>1, HeldRun, ConstantTypes
<1>3. /\ runs[r].total = Total /\ asked[r] = Total /\ runs[r].done = Total
      /\ (files[r] = 0) = proc[p].note
      /\ asked[r] \in 0..Total /\ runs[r] \in Row /\ files[r] \in {0, Total}
      /\ proc[p].note \in BOOLEAN
  BY <1>0, <1>1, <1>2, ProcShape DEF Held, HoldOK, Executing
<1>4. /\ w \in Row /\ w.trigger = runs[r].trigger /\ w.day = runs[r].day
      /\ w.total = runs[r].total /\ w.label = 0 /\ w.done = runs[r].done
      /\ w.results = asked[r] /\ w.status = "done" /\ w.note = proc[p].note
  <2>1. 0 \in 0..Total
    BY <1>2
  <2>2. w1 \in Row /\ w1.trigger = runs[r].trigger /\ w1.day = runs[r].day
        /\ w1.total = runs[r].total /\ w1.done = runs[r].done /\ w1.status = "done"
    BY ONLY <1>3 DEF Row
  <2> HIDE DEF w1
  <2>3. w2 \in Row /\ w2.trigger = runs[r].trigger /\ w2.day = runs[r].day
        /\ w2.total = runs[r].total /\ w2.done = runs[r].done /\ w2.status = "done"
        /\ w2.label = 0
    BY ONLY <2>1, <2>2 DEF Row
  <2> HIDE DEF w2
  <2>4. w3 \in Row /\ w3.trigger = runs[r].trigger /\ w3.day = runs[r].day
        /\ w3.total = runs[r].total /\ w3.done = runs[r].done /\ w3.status = "done"
        /\ w3.label = 0 /\ w3.results = asked[r]
    BY ONLY <1>3, <2>3 DEF Row
  <2> HIDE DEF w3
  <2> QED
    BY ONLY <1>3, <2>4 DEF Row
<1>5. /\ runs' = [runs EXCEPT ![r] = w] /\ UNCHANGED <<clock, setting, files, asked>>
      /\ Applied(p, AfterRun(p))
  <2>1. runs' = [runs EXCEPT ![r] = w]
    <3>1. runs' = [runs EXCEPT ![r].status = "done", ![r].label = 0,
                               ![r].results = asked[r], ![r].note = proc[p].note]
      BY DEF Finish
    <3> DEFINE s1 == [runs EXCEPT ![r] = w1]
               s2 == [runs EXCEPT ![r] = w2]
               s3 == [runs EXCEPT ![r] = w3]
    <3>2. r \in DOMAIN runs
      BY <1>0, <1>2, RunsShape DEF Held
    <3>3. runs' = [[[s1 EXCEPT ![r].label = 0]
                       EXCEPT ![r].results = asked[r]] EXCEPT ![r].note = proc[p].note]
      BY <3>1
    <3> HIDE DEF w1
    <3>4. [s1 EXCEPT ![r].label = 0] = s2
      BY <3>2
    <3> HIDE DEF w2
    <3>5. [s2 EXCEPT ![r].results = asked[r]] = s3
      BY <3>2
    <3> HIDE DEF w3
    <3>6. [s3 EXCEPT ![r].note = proc[p].note] = [runs EXCEPT ![r] = w]
      BY <3>2
    <3> HIDE DEF s1, s2, s3
    <3> QED
      BY <3>3, <3>4, <3>5, <3>6
  <2>2. UNCHANGED <<clock, setting, files, asked>> /\ Applied(p, AfterRun(p))
    BY DEF Finish
  <2> QED
    BY <2>1, <2>2
<1> HIDE DEF w
<1>6. RowOK(w, asked[r], files[r])
  <2>1. w.done = w.results /\ w.done <= asked[r] /\ asked[r] <= w.done + 1 /\ w.label <= asked[r] + 1
        /\ (files[r] # 0 => files[r] = w.total /\ w.results = files[r]) /\ w.done = w.total
    BY <1>2, <1>3, <1>4
  <2>2. (files[r] = 0) = w.note /\ w.status # "queued"
    BY <1>3, <1>4
  <2> QED
    BY <2>1, <2>2, Zenon DEF RowOK
<1>7. AfterRun(p) \in PCs /\ AfterRun(p) \notin Executing \cup {"interrupt"}
  BY AfterRunShape
<1>8. w.status # "queued" /\ w.status # "running"
  BY <1>4
<1> HIDE DEF r
<1> QED
  BY <1>1, <1>4, <1>5, <1>6, <1>7, <1>8, AppliedKeeps DEF r

LEMMA InterruptKeeps == ASSUME HealthInv, NEW p \in Procs, Interrupt(p) PROVE HealthInv'
<1> DEFINE r == Run(p)
           w == IF runs[r].status = "running"
                THEN [runs[r] EXCEPT !.status = "interrupted"] ELSE runs[r]
           a == asked[r]
           f == files[r]
           n == AfterRun(p)
           note == proc[p].note
<1>0. TypeInv
  BY DEF HealthInv
<1>1. Flying(p)
  BY DEF Interrupt, At, Flying
<1>2. Held(p, r)
  BY <1>1, HeldRun
<1>3. runs[r] \in Row /\ a \in 0..Total /\ f \in {0, Total} /\ RowOK(runs[r], a, f)
      /\ runs[r].status # "queued"
  BY <1>2 DEF Held, HoldOK
<1>4. /\ w \in Row /\ w.trigger = runs[r].trigger /\ w.day = runs[r].day
      /\ w.total = runs[r].total /\ w.label = runs[r].label /\ w.done = runs[r].done
      /\ w.results = runs[r].results /\ w.note = runs[r].note
      /\ w.status \notin {"queued", "running"}
      /\ w.status = "done" => runs[r].status = "done"
  <2>1. CASE runs[r].status = "running"
    <3> DEFINE v == [runs[r] EXCEPT !.status = "interrupted"]
    <3>1. v \in Row /\ v.trigger = runs[r].trigger /\ v.day = runs[r].day
          /\ v.total = runs[r].total /\ v.label = runs[r].label /\ v.done = runs[r].done
          /\ v.results = runs[r].results /\ v.note = runs[r].note /\ v.status = "interrupted"
      BY ONLY <1>3 DEF Row
    <3>2. w = v
      BY <2>1
    <3> HIDE DEF v, w
    <3> QED
      BY <3>1, <3>2
  <2>2. CASE runs[r].status # "running"
    BY <1>3, <2>2
  <2> QED
    BY <2>1, <2>2
<1>5. runs' = [runs EXCEPT ![r] = w] \/ (runs' = runs /\ w = runs[r])
  BY DEF Interrupt
<1>6. note \in BOOLEAN /\ proc[p] \in [pc : PCs, run : Nat, note : BOOLEAN]
  BY <1>0, ProcShape
<1>7. n \in PCs /\ n \notin Executing \cup {"interrupt"}
  BY AfterRunShape
<1> HIDE DEF w, n
<1>8. Steps(p, w, a, f, n, note)
  <2> DEFINE j == [proc[p] EXCEPT !.pc = n]
             k == [proc[p] EXCEPT !.pc = n, !.note = note]
  <2>1. j = k
    BY ONLY <1>6
  <2>2. proc' = [proc EXCEPT ![p] = j]
    BY DEF Interrupt, Goto, n
  <2>3. proc' = [proc EXCEPT ![p] = k]
    BY <2>1, <2>2
  <2>4. proc' = [proc EXCEPT ![p] = Moved(p, n, note)]
    BY <2>3 DEF Moved
  <2>5. UNCHANGED <<clock, setting, files, asked>>
    BY DEF Interrupt
  <2> QED
    BY <1>5, <2>4, <2>5 DEF Steps
<1>9. RowOK(w, a, f)
  BY <1>3, <1>4 DEF RowOK
<1>10. w.trigger = runs[Run(p)].trigger /\ w.day = runs[Run(p)].day
  BY <1>4
<1>11. n \notin Executing
  BY <1>7
<1>12. w.status \in {"queued", "running"} => runs[Run(p)].status \in {"queued", "running"}
  BY <1>4
<1> HIDE DEF r, a, f, note
<1> QED
  BY <1>1, <1>3, <1>4, <1>6, <1>7, <1>8, <1>9, <1>10, <1>11, <1>12, StepKeeps


-----------------------------------------------------------------------------
(* The service's loop and the failures.                                    *)
LEMMA BootKeeps == ASSUME HealthInv, Boot PROVE HealthInv'
<1>1. "startup" \in PCs \ Executing /\ "startup" # "interrupt" /\ "service" \in Procs
  BY DEF PCs, Executing, Procs
<1>2. proc' = [proc EXCEPT !["service"].pc = "startup"]
      /\ UNCHANGED <<clock, setting, runs, files, asked>>
  BY DEF Boot, Goto
<1> QED
  BY <1>1, <1>2, IdleKeeps

LEMMA RefusedKeeps == ASSUME HealthInv, NEW p \in Procs, Refused(p) PROVE HealthInv'
<1> DEFINE n == IF At(p, "interrupt") THEN AfterRun(p) ELSE ExceptionOf(p)
<1>1. n \in PCs \ Executing
  BY AfterRunShape DEF ExceptionOf, PCs, Executing
<1>2. n = "interrupt" => Flying(p)
  BY AfterRunShape DEF ExceptionOf, Flying
<1>3. proc' = [proc EXCEPT ![p].pc = n] /\ UNCHANGED <<clock, setting, runs, files, asked>>
  BY DEF Refused, Goto
<1> HIDE DEF n
<1> QED
  BY <1>1, <1>2, <1>3, IdleKeeps

LEMMA CrashKeeps == ASSUME HealthInv, NEW p \in Procs, Crash(p) PROVE HealthInv'
<1>1. "down" \in PCs \ Executing /\ "down" # "interrupt"
  BY DEF PCs, Executing
<1>2. proc' = [proc EXCEPT ![p].pc = "down"] /\ UNCHANGED <<clock, setting, runs, files, asked>>
  BY DEF Crash, Goto
<1> QED
  BY <1>1, <1>2, IdleKeeps

(* Where the service is after a transaction of its loop.                   *)
LEMMA LoopShape ==
  ASSUME TypeInv, proc["service"].pc \in {"startup", "idle", "claim"},
         Applied("service", "idle")
  PROVE  \E n \in {"idle", "down"} : proc' = [proc EXCEPT !["service"].pc = n]
<1>1. ExceptionOf("service") \in {"idle", "down"}
  BY DEF ExceptionOf, Executing
<1> QED
  BY <1>1 DEF Applied, Goto

LEMMA InterruptRunningKeeps == ASSUME HealthInv, InterruptRunning PROVE HealthInv'
<1> DEFINE D == 1..Len(runs)
           w(r) == IF runs[r].status = "running"
                   THEN [runs[r] EXCEPT !.status = "interrupted"] ELSE runs[r]
<1>1. TypeInv /\ OneActive /\ RowsOK /\ HoldsOK /\ DaysOK
  BY DEF HealthInv
<1>2. DOMAIN runs = D /\ Len(runs) \in Nat
  BY <1>1, RunsShape
<1>3. runs' = [r \in D |-> w(r)]
  BY <1>2 DEF InterruptRunning
<1>4. ASSUME NEW r \in D
      PROVE  /\ w(r) \in Row /\ w(r).trigger = runs[r].trigger /\ w(r).day = runs[r].day
             /\ w(r).total = runs[r].total /\ w(r).label = runs[r].label
             /\ w(r).done = runs[r].done /\ w(r).results = runs[r].results
             /\ w(r).note = runs[r].note /\ w(r).status # "running"
             /\ w(r).status \in {"queued", "done"} => w(r).status = runs[r].status
             /\ runs[r].status # "queued" => w(r).status # "queued"
  <2>1. runs[r] \in Row
    BY <1>1 DEF TypeInv
  <2>2. CASE runs[r].status = "running"
    <3> DEFINE v == [runs[r] EXCEPT !.status = "interrupted"]
    <3>1. v \in Row /\ v.trigger = runs[r].trigger /\ v.day = runs[r].day
          /\ v.total = runs[r].total /\ v.label = runs[r].label /\ v.done = runs[r].done
          /\ v.results = runs[r].results /\ v.note = runs[r].note /\ v.status = "interrupted"
      BY ONLY <2>1 DEF Row
    <3>2. w(r) = v
      BY <2>2
    <3> HIDE DEF v, w
    <3> QED
      BY <3>1, <3>2
  <2>3. CASE runs[r].status # "running"
    BY <2>1, <2>3
  <2> QED
    BY <2>2, <2>3
<1>5. \A r \in D : runs'[r] = w(r)
  BY <1>3
<1>6. runs' \in Seq(Row) /\ Len(runs') = Len(runs) /\ DOMAIN runs' = D
  <2> HIDE DEF w
  <2>1. runs' \in [D -> Row]
    BY <1>3, <1>4
  <2> QED
    BY <1>2, <2>1
<1> HIDE DEF w
<1>7. PICK n \in {"idle", "down"} : proc' = [proc EXCEPT !["service"].pc = n]
  <2>1. proc["service"].pc = "startup" /\ Applied("service", "idle")
    BY DEF InterruptRunning, At
  <2> QED
    BY <1>1, <2>1, LoopShape
<1>8. UNCHANGED <<clock, setting, files, asked>>
  BY DEF InterruptRunning
<1>9. /\ proc' \in [Procs -> [pc : PCs, run : Nat, note : BOOLEAN]]
      /\ proc'["service"].pc = n /\ proc'["shell"] = proc["shell"]
  <2>1. n \in PCs /\ "service" \in Procs /\ "shell" \in Procs
    BY DEF PCs, Procs
  <2> QED
    BY <1>1, <1>7, <2>1 DEF TypeInv
<1>10. ~Flying("service")' /\ proc'["service"].pc \notin Executing
  BY <1>9 DEF Flying, Executing
<1>11. Flying("shell")' = Flying("shell") /\ Run("shell")' = Run("shell") /\ "shell" \in Procs
  BY <1>9 DEF Flying, Run, Procs
<1>12. TypeInv'
  <2>1. \A p \in Procs : Flying(p)' => Run(p)' \in 1..Len(runs')
    BY <1>1, <1>6, <1>10, <1>11 DEF TypeInv, Procs
  <2> QED
    BY <1>1, <1>6, <1>8, <1>9, <2>1 DEF TypeInv
<1>13. OneActive'
  <2>1. ASSUME NEW q \in Active' PROVE q \in Active
    <3>1. q \in D /\ runs'[q].status \in {"queued", "running"}
      BY <1>6, <2>1 DEF Active
    <3>2. runs[q].status \in {"queued", "running"}
      BY <1>4, <1>5, <3>1
    <3> QED
      BY <1>2, <3>1, <3>2 DEF Active
  <2> QED
    BY <1>1, <2>1 DEF OneActive
<1>14. RowsOK'
  <2>1. ASSUME NEW q \in D PROVE RowOK(runs'[q], asked[q], files[q])
    <3>1. RowOK(runs[q], asked[q], files[q])
      BY <1>1 DEF RowsOK
    <3>2. RowOK(w(q), asked[q], files[q])
      BY <1>4, <3>1 DEF RowOK
    <3> QED
      BY <1>5, <3>2
  <2> QED
    BY <1>6, <1>8, <2>1 DEF RowsOK, RowOK
<1>15. DaysOK'
  <2>1. \A q \in D : runs'[q].trigger = runs[q].trigger /\ runs'[q].day = runs[q].day
    BY <1>4, <1>5
  <2>2. Claims' = Claims /\ Claims \subseteq D
    BY <1>6, <2>1 DEF Claims
  <2>3. \A q \in Claims : runs'[q].day = runs[q].day
    BY <2>1, <2>2
  <2> QED
    BY <1>1, <1>8, <2>2, <2>3 DEF DaysOK
<1>16. HoldsOK'
  <2>1. ASSUME Flying("shell")
        PROVE  HoldOK(proc["shell"], runs'[Run("shell")], asked[Run("shell")], files[Run("shell")])
    <3> DEFINE s == Run("shell")
    <3>1. s \in D
      BY <1>1, <1>11, <2>1 DEF TypeInv
    <3>2. HoldOK(proc["shell"], runs[s], asked[s], files[s])
      BY <1>1, <1>11, <2>1 DEF HoldsOK
    <3>3. HoldOK(proc["shell"], w(s), asked[s], files[s])
      BY <1>4, <3>1, <3>2 DEF HoldOK
    <3> QED
      BY <1>5, <3>1, <3>3
  <2> QED
    BY <1>8, <1>9, <1>10, <1>11, <2>1 DEF HoldsOK, HoldOK, Procs
<1> QED
  BY <1>12, <1>13, <1>14, <1>15, <1>16 DEF HealthInv


LEMMA TakeManualKeeps == ASSUME HealthInv, TakeManual PROVE HealthInv'
<1>1. TypeInv /\ OneActive /\ RowsOK /\ HoldsOK /\ DaysOK /\ "service" \in Procs
  BY DEF HealthInv, Procs
<1>2. proc["service"].pc = "idle" /\ ~Flying("service") /\ UNCHANGED <<clock, setting, files, asked>>
  BY DEF TakeManual, At, Flying, Executing
<1>3. CASE Goto("service", "claim") /\ UNCHANGED <<runs, spent>>
  <2>1. "claim" \in PCs \ Executing /\ "claim" # "interrupt"
    BY DEF PCs, Executing
  <2>2. proc' = [proc EXCEPT !["service"].pc = "claim"]
    BY <1>3 DEF Goto
  <2> QED
    BY <1>1, <1>2, <1>3, <2>1, <2>2, IdleKeeps
<1>4. ASSUME NEW r \in Queued, runs' = [runs EXCEPT ![r].status = "running"],
             AppliedStart("service", r)
      PROVE  HealthInv'
  <2> DEFINE w == [runs[r] EXCEPT !.status = "running"]
             a == asked[r]
             f == files[r]
  <2>1. r \in 1..Len(runs) /\ runs[r].status = "queued"
    BY <1>1, RunsShape DEF Queued, Manual
  <2>2. /\ runs[r] \in Row /\ a \in 0..Total /\ f \in {0, Total} /\ RowOK(runs[r], a, f)
    BY <1>1, <2>1, RunsShape DEF RowsOK
  <2>3. /\ w \in Row /\ w.trigger = runs[r].trigger /\ w.day = runs[r].day
        /\ w.total = runs[r].total /\ w.label = runs[r].label /\ w.done = runs[r].done
        /\ w.results = runs[r].results /\ w.note = runs[r].note /\ w.status = "running"
    BY ONLY <2>2 DEF Row
  <2>4. runs' = [runs EXCEPT ![r] = w]
    BY <1>4
  <2> HIDE DEF w
  <2>5. Edited(r, w, a, f)
    BY <1>1, <1>2, <2>1, <2>2, <2>3, <2>4, EditShape
  <2>6. /\ w.total = 0 /\ w.done = 0 /\ w.label = 0 /\ a = 0 /\ f = 0
    BY <2>1, <2>2, <2>3 DEF RowOK
  <2>7. RowOK(w, a, f)
    BY <2>2, <2>3, <2>6 DEF RowOK
  <2>8. OneActive' /\ RowsOK' /\ DaysOK'
    <3>1. w.status \in {"queued", "running"} => runs[r].status \in {"queued", "running"}
      BY <2>1
    <3> QED
      BY <1>2, <2>1, <2>3, <2>5, <2>7, <3>1, EditKeeps
  <2>9. /\ proc' \in [Procs -> [pc : PCs, run : Nat, note : BOOLEAN]]
        /\ proc'["shell"] = proc["shell"] /\ "shell" \in Procs
        /\ \/ proc'["service"].pc \notin Executing \cup {"interrupt"}
           \/ proc'["service"] = [pc |-> "begin", run |-> r, note |-> FALSE]
    <3>1. CASE Start("service", r)
      <4>1. [pc |-> "begin", run |-> r, note |-> FALSE] \in [pc : PCs, run : Nat, note : BOOLEAN]
        BY <2>1 DEF PCs, Executing
      <4> QED
        BY <1>1, <3>1, <4>1 DEF Start, TypeInv, Procs
    <3>2. CASE Goto("service", ExceptionOf("service"))
      <4>1. ExceptionOf("service") = "idle"
        BY <1>2 DEF ExceptionOf, Executing
      <4>2. "idle" \in PCs /\ "idle" \notin Executing \cup {"interrupt"}
        BY DEF PCs, Executing
      <4>3. proc' = [proc EXCEPT !["service"].pc = "idle"]
        BY <3>2, <4>1 DEF Goto
      <4> QED
        BY <1>1, <4>2, <4>3 DEF TypeInv, Procs
    <3> QED
      BY <1>4, <3>1, <3>2 DEF AppliedStart
  <2>10. Flying("shell") => /\ Run("shell") \in 1..Len(runs) /\ Run("shell") # r
                            /\ HoldOK(proc["shell"], runs[Run("shell")], asked[Run("shell")],
                                      files[Run("shell")])
    BY <1>1, <2>1, <2>9 DEF TypeInv, HoldsOK, HoldOK
  <2>11. Flying("shell")' = Flying("shell") /\ Run("shell")' = Run("shell")
    BY <2>9 DEF Flying, Run
  <2>12. Flying("service")' =>
           /\ Run("service")' = r
           /\ proc'["service"].pc = "begin" /\ ~proc'["service"].note
    BY <2>9 DEF Flying, Run
  <2>13. TypeInv'
    <3>1. \A p \in Procs : Flying(p)' => Run(p)' \in 1..Len(runs')
      BY <2>1, <2>5, <2>10, <2>11, <2>12 DEF Edited, Procs
    <3> QED
      BY <1>1, <1>2, <2>5, <2>9, <3>1 DEF TypeInv, Edited
  <2>14. HoldsOK'
    <3>1. Flying("service")' => HoldOK(proc'["service"], runs'[r], asked'[r], files'[r])
      <4>1. runs'[r] = w /\ asked'[r] = a /\ files'[r] = f
        BY <2>5 DEF Edited
      <4>2. ASSUME Flying("service")' PROVE HoldOK(proc'["service"], w, a, f)
        <5>1. proc'["service"].pc = "begin" /\ ~proc'["service"].note
          BY <2>12, <4>2
        <5> QED
          BY <2>3, <2>6, <5>1 DEF HoldOK
      <4> QED
        BY <4>1, <4>2
    <3>2. Flying("shell") => HoldOK(proc["shell"], runs'[Run("shell")], asked'[Run("shell")],
                                    files'[Run("shell")])
      BY <2>5, <2>10 DEF Edited
    <3>3. proc'["service"].pc \in Executing => runs'[Run("service")'].status = "running"
      <4>1. runs'[r].status = "running"
        BY <2>3, <2>5 DEF Edited
      <4> QED
        BY <2>12, <4>1 DEF Flying
    <3>4. Flying("service")' /\ Flying("shell")' => Run("service")' # Run("shell")'
      BY <2>10, <2>11, <2>12
    <3>5. Flying("service")' => HoldOK(proc'["service"], runs'[Run("service")'],
                                       asked'[Run("service")'], files'[Run("service")'])
      BY <2>12, <3>1
    <3>6. Flying("shell")' => HoldOK(proc'["shell"], runs'[Run("shell")'],
                                     asked'[Run("shell")'], files'[Run("shell")'])
      BY <2>9, <2>11, <3>2
    <3> QED
      BY <3>3, <3>4, <3>5, <3>6 DEF HoldsOK, HoldOK, Procs
  <2> QED
    BY <2>8, <2>13, <2>14 DEF HealthInv
<1> QED
  BY <1>3, <1>4 DEF TakeManual


(* A new run, after whose INSERT b starts it, moves on or stays.            *)
LEMMA InsertKeeps ==
  ASSUME HealthInv, NEW trigger \in {"schedule", "manual"}, NEW status \in {"queued", "running"},
         NEW day \in 0..MaxDay, IndexAllows, Insert(RunRow(trigger, status, day)),
         trigger = "manual" => setting' = setting,
         trigger = "schedule" => /\ setting.lastRun < day /\ day = clock.day
                                 /\ setting' = [setting EXCEPT !.lastRun = day],
         clock' = clock, NEW b \in Procs,
         \/ Start(b, Len(runs) + 1) /\ status = "running"
         \/ \E n \in {"idle", "down"} : Goto(b, n)
         \/ proc' = proc
  PROVE  HealthInv'
<1> DEFINE w == RunRow(trigger, status, day)
           k == Len(runs) + 1
<1>1. TypeInv /\ OneActive /\ RowsOK /\ HoldsOK /\ DaysOK
  BY DEF HealthInv
<1>2. /\ w \in Row /\ w.trigger = trigger /\ w.status = status /\ w.day = day /\ w.total = 0
      /\ w.label = 0 /\ w.done = 0 /\ w.results = 0
  <2>1. 0 \in 0..Total /\ FALSE \in BOOLEAN
    BY ConstantTypes
  <2> QED
    BY <2>1 DEF RunRow, Row
<1>3. Len(runs) \in Nat /\ k \in Nat /\ k \notin 1..Len(runs) /\ 1..k = (1..Len(runs)) \cup {k}
  BY <1>1, RunsShape
<1> HIDE DEF w
<1>4. /\ runs' \in Seq(Row) /\ Len(runs') = k /\ runs'[k] = w
      /\ \A q \in 1..Len(runs) : runs'[q] = runs[q]
  BY <1>1, <1>2, AppendShape DEF Insert, TypeInv, w
<1>5. /\ files' \in Seq({0, Total}) /\ Len(files') = k /\ files'[k] = 0
      /\ \A q \in 1..Len(runs) : files'[q] = files[q]
  <2>1. files' = Append(files, 0) /\ files \in Seq({0, Total}) /\ Len(files) = Len(runs)
    BY <1>1 DEF Insert, TypeInv
  <2> QED
    BY <2>1, AppendShape
<1>6. /\ asked' \in Seq(0..Total) /\ Len(asked') = k /\ asked'[k] = 0
      /\ \A q \in 1..Len(runs) : asked'[q] = asked[q]
  <2>1. asked' = Append(asked, 0) /\ asked \in Seq(0..Total) /\ Len(asked) = Len(runs)
    BY <1>1 DEF Insert, TypeInv
  <2>2. 0 \in 0..Total
    BY ConstantTypes
  <2> QED
    BY <2>1, <2>2, AppendShape
<1>7. DOMAIN runs = 1..Len(runs) /\ DOMAIN runs' = 1..k
  BY <1>1, <1>4, RunsShape, SequenceShape
<1> HIDE DEF k
<1>8. /\ proc' \in [Procs -> [pc : PCs, run : Nat, note : BOOLEAN]]
      /\ \A p \in Procs :
           \/ proc'[p] = proc[p]
           \/ proc'[p].pc \notin Executing \cup {"interrupt"}
           \/ p = b /\ proc'[p] = [pc |-> "begin", run |-> k, note |-> FALSE] /\ status = "running"
  <2>1. CASE Start(b, Len(runs) + 1) /\ status = "running"
    <3> DEFINE e == [pc |-> "begin", run |-> k, note |-> FALSE]
    <3>1. e \in [pc : PCs, run : Nat, note : BOOLEAN]
      BY <1>3 DEF PCs, Executing
    <3>2. proc' = [proc EXCEPT ![b] = e]
      BY <2>1 DEF Start, k
    <3> HIDE DEF e
    <3>3. proc' \in [Procs -> [pc : PCs, run : Nat, note : BOOLEAN]] /\ proc'[b] = e
          /\ \A p \in Procs : p # b => proc'[p] = proc[p]
      BY <1>1, <3>1, <3>2 DEF TypeInv
    <3> QED
      BY <2>1, <3>3 DEF e
  <2>2. ASSUME NEW n \in {"idle", "down"}, Goto(b, n)
        PROVE  /\ proc' \in [Procs -> [pc : PCs, run : Nat, note : BOOLEAN]]
               /\ \A p \in Procs : \/ proc'[p] = proc[p]
                                   \/ proc'[p].pc \notin Executing \cup {"interrupt"}
    <3>1. n \in PCs /\ n \notin Executing \cup {"interrupt"}
      BY <2>2 DEF PCs, Executing
    <3>2. proc' = [proc EXCEPT ![b].pc = n]
      BY <2>2 DEF Goto
    <3> QED
      BY <1>1, <3>1, <3>2 DEF TypeInv
  <2>3. CASE proc' = proc
    BY <1>1, <2>3 DEF TypeInv
  <2> QED
    BY <2>1, <2>2, <2>3
<1>9. ASSUME NEW p \in Procs, Flying(p)'
      PROVE  \/ /\ proc'[p] = proc[p] /\ Flying(p) /\ proc[p].run \in 1..Len(runs)
                /\ HoldOK(proc[p], runs[proc[p].run], asked[proc[p].run], files[proc[p].run])
             \/ /\ p = b /\ proc'[p] = [pc |-> "begin", run |-> k, note |-> FALSE]
                /\ status = "running"
  <2>1. proc'[p].pc \in Executing \cup {"interrupt"}
    BY <1>9 DEF Flying
  <2>2. CASE proc'[p] = proc[p]
    <3>1. Flying(p)
      BY <2>1, <2>2 DEF Flying
    <3> QED
      BY <1>1, <2>2, <3>1 DEF TypeInv, HoldsOK, Run
  <2> QED
    BY <1>8, <2>1, <2>2
<1>10. TypeInv'
  <2>1. \A p \in Procs : Flying(p)' => proc'[p].run \in 1..k
    BY <1>3, <1>9
  <2>2. setting' \in [runAt : 0..(Hours - 1), lastRun : 0..MaxDay]
    BY <1>1 DEF TypeInv
  <2> QED
    BY <1>1, <1>4, <1>5, <1>6, <1>8, <2>1, <2>2 DEF TypeInv, Run
<1>11. OneActive'
  <2>1. ASSUME NEW q \in Active' PROVE q = k
    <3>1. q \in 1..k /\ runs'[q].status \in {"queued", "running"}
      BY <1>7, <2>1 DEF Active
    <3>2. CASE q \in 1..Len(runs)
      BY <1>4, <1>7, <3>1, <3>2 DEF IndexAllows, Active
    <3> QED
      BY <1>3, <3>1, <3>2
  <2> QED
    BY <2>1 DEF OneActive
<1>12. RowsOK'
  <2>1. RowOK(w, 0, 0)
    BY <1>2 DEF RowOK
  <2>2. ASSUME NEW q \in 1..k PROVE RowOK(runs'[q], asked'[q], files'[q])
    <3>1. CASE q = k
      BY <1>4, <1>5, <1>6, <2>1, <3>1
    <3>2. CASE q \in 1..Len(runs)
      BY <1>1, <1>4, <1>5, <1>6, <3>2 DEF RowsOK
    <3> QED
      BY <1>3, <3>1, <3>2
  <2> QED
    BY <1>4, <2>2 DEF RowsOK, RowOK
<1>13. DaysOK'
  <2>1. \A q \in Claims : q \in 1..Len(runs) /\ q < k /\ runs'[q] = runs[q]
    BY <1>3, <1>4 DEF Claims, k
  <2>2. CASE trigger = "manual"
    <3>1. Claims' = Claims
      BY <1>2, <1>3, <1>4, <2>2 DEF Claims
    <3> QED
      BY <1>1, <2>1, <2>2, <3>1 DEF DaysOK
  <2>3. CASE trigger = "schedule"
    <3>1. Claims' = Claims \cup {k}
      BY <1>2, <1>3, <1>4, <2>3 DEF Claims
    <3>2. setting.lastRun \in 0..MaxDay /\ setting'.lastRun = day /\ day = clock.day
          /\ setting.lastRun < day /\ day \in Nat /\ MaxDay \in Nat
      BY <1>1, <2>3, ConstantTypes DEF TypeInv
    <3>3. runs'[k].day = day
      BY <1>2, <1>4
    <3>4. \A q \in Claims : /\ runs[q].day \in 0..MaxDay /\ runs[q].day <= setting.lastRun
                            /\ runs'[q].day = runs[q].day
      <4>1. \A q \in Claims : runs[q] \in Row
        BY <1>1, <2>1 DEF TypeInv
      <4> QED
        BY <1>1, <2>1, <4>1, RowShape DEF DaysOK
    <3>5. \A q \in Claims' : runs'[q].day <= day
      BY <3>1, <3>2, <3>3, <3>4
    <3>6. \A q, r \in Claims' : q < r => runs'[q].day < runs'[r].day
      <4>1. ASSUME NEW q \in Claims', NEW r \in Claims', q < r PROVE runs'[q].day < runs'[r].day
        <5>1. q \in Claims
          BY <1>3, <2>1, <3>1, <4>1
        <5>2. CASE r = k
          BY <3>2, <3>3, <3>4, <5>1, <5>2
        <5>3. CASE r \in Claims
          BY <1>1, <3>4, <4>1, <5>1, <5>3 DEF DaysOK
        <5> QED
          BY <3>1, <5>2, <5>3
      <4> QED
        BY <4>1
    <3> QED
      BY <3>1, <3>2, <3>3, <3>5, <3>6 DEF DaysOK
  <2> QED
    BY <2>2, <2>3
<1>14. HoldsOK'
  <2>1. HoldOK([pc |-> "begin", run |-> k, note |-> FALSE], w, 0, 0) \/ status # "running"
    <3> DEFINE e == [pc |-> "begin", run |-> k, note |-> FALSE]
    <3>1. e.pc = "begin" /\ e.note = FALSE
      OBVIOUS
    <3> HIDE DEF e
    <3>2. HoldOK(e, w, 0, 0) \/ status # "running"
      BY <1>2, <3>1 DEF HoldOK
    <3> QED
      BY <3>2 DEF e
  <2>2. ASSUME NEW p \in Procs, Flying(p)'
        PROVE  HoldOK(proc'[p], runs'[proc'[p].run], asked'[proc'[p].run], files'[proc'[p].run])
    <3>1. CASE proc'[p] = [pc |-> "begin", run |-> k, note |-> FALSE] /\ status = "running"
      <4>1. proc'[p].run = k
        BY <3>1
      <4> QED
        BY <1>4, <1>5, <1>6, <2>1, <3>1, <4>1
    <3>2. CASE /\ proc'[p] = proc[p] /\ proc[p].run \in 1..Len(runs)
               /\ HoldOK(proc[p], runs[proc[p].run], asked[proc[p].run], files[proc[p].run])
      BY <1>4, <1>5, <1>6, <3>2
    <3> QED
      BY <1>9, <2>2, <3>1, <3>2
  <2>3. proc'["service"].pc \in Executing => runs'[proc'["service"].run].status = "running"
    <3>1. ASSUME proc'["service"].pc \in Executing
          PROVE  runs'[proc'["service"].run].status = "running"
      <4>1. Flying("service")' /\ "service" \in Procs
        BY <3>1 DEF Flying, Procs
      <4>2. CASE proc'["service"] = proc["service"] /\ proc["service"].run \in 1..Len(runs)
        BY <1>1, <1>4, <3>1, <4>2 DEF HoldsOK, Run
      <4>3. CASE /\ proc'["service"] = [pc |-> "begin", run |-> k, note |-> FALSE]
                 /\ status = "running"
        BY <1>2, <1>4, <4>3
      <4> QED
        BY <1>9, <4>1, <4>2, <4>3
    <3> QED
      BY <3>1
  <2>4. Flying("service")' /\ Flying("shell")' => proc'["service"].run # proc'["shell"].run
    <3>1. ASSUME Flying("service")', Flying("shell")'
          PROVE  proc'["service"].run # proc'["shell"].run
      <4>1. "service" \in Procs /\ "shell" \in Procs /\ "service" # "shell"
        BY DEF Procs
      <4>2. CASE b = "service"
        <5>1. proc'["shell"] = proc["shell"] /\ Flying("shell") /\ proc["shell"].run \in 1..Len(runs)
          BY <1>9, <3>1, <4>1, <4>2
        <5>2. CASE proc'["service"] = proc["service"] /\ Flying("service")
          BY <1>1, <5>1, <5>2 DEF HoldsOK, Run
        <5>3. CASE proc'["service"] = [pc |-> "begin", run |-> k, note |-> FALSE]
          BY <1>3, <5>1, <5>3
        <5> QED
          BY <1>9, <3>1, <4>1, <5>2, <5>3
      <4>3. CASE b # "service"
        <5>1. /\ proc'["service"] = proc["service"] /\ Flying("service")
              /\ proc["service"].run \in 1..Len(runs)
          BY <1>9, <3>1, <4>1, <4>3
        <5>2. CASE proc'["shell"] = proc["shell"] /\ Flying("shell")
          BY <1>1, <5>1, <5>2 DEF HoldsOK, Run
        <5>3. CASE proc'["shell"] = [pc |-> "begin", run |-> k, note |-> FALSE]
          BY <1>3, <5>1, <5>3
        <5> QED
          BY <1>9, <3>1, <4>1, <5>2, <5>3
      <4> QED
        BY <4>2, <4>3
    <3> QED
      BY <3>1
  <2> QED
    BY <2>2, <2>3, <2>4 DEF HoldsOK, Run, HoldOK
<1> QED
  BY <1>10, <1>11, <1>12, <1>13, <1>14 DEF HealthInv


LEMMA RunNowKeeps == ASSUME HealthInv, RunNow PROVE HealthInv'
<1>1. 0 \in 0..MaxDay /\ "service" \in Procs
  BY ConstantTypes DEF Procs
<1>2. /\ IndexAllows /\ Insert(RunRow("manual", "queued", 0))
      /\ setting' = setting /\ clock' = clock /\ proc' = proc
  BY DEF RunNow
<1> QED
  BY <1>1, <1>2, InsertKeeps

LEMMA CreateCliRunKeeps == ASSUME HealthInv, CreateCliRun PROVE HealthInv'
<1>1. 0 \in 0..MaxDay /\ "shell" \in Procs
  BY ConstantTypes DEF Procs
<1>2. /\ IndexAllows /\ Insert(RunRow("manual", "running", 0))
      /\ setting' = setting /\ clock' = clock
      /\ Start("shell", Len(runs) + 1) \/ proc' = proc
  BY DEF CreateCliRun
<1> QED
  BY <1>1, <1>2, InsertKeeps

LEMMA ClaimScheduleKeeps == ASSUME HealthInv, ClaimSchedule PROVE HealthInv'
<1>1. TypeInv /\ DaysOK /\ "service" \in Procs /\ proc["service"].pc = "claim"
  BY DEF HealthInv, Procs, ClaimSchedule, At
<1>2. clock' = clock
  BY DEF ClaimSchedule
<1>3. CASE /\ IsDue /\ IndexAllows
           /\ Insert(RunRow("schedule", "running", clock.day))
           /\ setting' = [setting EXCEPT !.lastRun = clock.day]
           /\ AppliedStart("service", Len(runs) + 1)
  <2>1. clock.day \in 0..MaxDay /\ setting.lastRun < clock.day
    BY <1>1, <1>3, ConstantTypes DEF IsDue, DaysOK, TypeInv
  <2>2. Start("service", Len(runs) + 1) \/ Goto("service", "idle")
    <3>1. ExceptionOf("service") = "idle"
      BY <1>1 DEF ExceptionOf, Executing
    <3> QED
      BY <1>3, <3>1 DEF AppliedStart
  <2>3. \/ Start("service", Len(runs) + 1)
        \/ \E n \in {"idle", "down"} : Goto("service", n)
    BY <2>2
  <2> DEFINE d == clock.day
  <2>4. Insert(RunRow("schedule", "running", d)) /\ setting' = [setting EXCEPT !.lastRun = d]
        /\ d \in 0..MaxDay /\ setting.lastRun < d /\ d = clock.day /\ IndexAllows
    BY <1>3, <2>1
  <2> HIDE DEF d
  <2> QED
    BY <1>1, <1>2, <2>3, <2>4, InsertKeeps
<1>4. CASE Goto("service", "idle") /\ UNCHANGED <<runs, files, asked, setting, spent>>
  <2>1. "idle" \in PCs \ Executing /\ "idle" # "interrupt"
    BY DEF PCs, Executing
  <2>2. proc' = [proc EXCEPT !["service"].pc = "idle"]
    BY <1>4 DEF Goto
  <2> QED
    BY <1>1, <1>2, <1>4, <2>1, <2>2, IdleKeeps
<1> QED
  BY <1>3, <1>4 DEF ClaimSchedule

LEMMA ScheduleKeeps == ASSUME HealthInv, Schedule PROVE HealthInv'
<1>1. TypeInv /\ OneActive /\ RowsOK /\ HoldsOK /\ DaysOK
  BY DEF HealthInv
<1>2. UNCHANGED <<clock, runs, files, proc, asked>>
  BY DEF Schedule
<1>3. /\ setting' \in [runAt : 0..(Hours - 1), lastRun : 0..MaxDay]
      /\ setting'.lastRun = setting.lastRun
  BY <1>1 DEF Schedule, TypeInv
<1>4. TypeInv'
  BY <1>1, <1>2, <1>3 DEF TypeInv, Flying, Run
<1>5. OneActive' /\ RowsOK' /\ HoldsOK'
  BY <1>1, <1>2 DEF OneActive, Active, RowsOK, RowOK, HoldsOK, HoldOK, Flying, Run
<1>6. DaysOK'
  BY <1>1, <1>2, <1>3 DEF DaysOK, Claims
<1> QED
  BY <1>4, <1>5, <1>6 DEF HealthInv

LEMMA TickKeeps == ASSUME HealthInv, Tick PROVE HealthInv'
<1>1. TypeInv /\ OneActive /\ RowsOK /\ HoldsOK /\ DaysOK
  BY DEF HealthInv
<1>2. UNCHANGED <<setting, runs, files, proc, asked>>
  BY DEF Tick
<1>3. clock' \in [day : 1..MaxDay, hour : 0..(Hours - 1)] /\ clock.day <= clock'.day
  <2>1. /\ clock.day \in 1..MaxDay /\ clock.hour \in 0..(Hours - 1)
        /\ clock = [day |-> clock.day, hour |-> clock.hour]
    BY <1>1 DEF TypeInv
  <2>2. CASE clock.hour < Hours - 1 /\ clock' = [clock EXCEPT !.hour = @ + 1]
    <3>1. clock' = [day |-> clock.day, hour |-> clock.hour + 1]
      BY <2>1, <2>2
    <3>2. clock.hour + 1 \in 0..(Hours - 1)
      BY <2>1, <2>2, ConstantTypes
    <3> QED
      BY <2>1, <3>1, <3>2, ConstantTypes
  <2>3. CASE clock.day < MaxDay /\ clock' = [day |-> clock.day + 1, hour |-> 0]
    <3>1. clock.day + 1 \in 1..MaxDay /\ clock.day <= clock.day + 1 /\ 0 \in 0..(Hours - 1)
      BY <2>1, <2>3, ConstantTypes
    <3> QED
      BY <2>3, <3>1
  <2> QED
    BY <2>2, <2>3 DEF Tick
<1>4. TypeInv'
  BY <1>1, <1>2, <1>3 DEF TypeInv, Flying, Run
<1>5. OneActive' /\ RowsOK' /\ HoldsOK'
  BY <1>1, <1>2 DEF OneActive, Active, RowsOK, RowOK, HoldsOK, HoldOK, Flying, Run
<1>6. DaysOK'
  <2>1. setting.lastRun \in Nat /\ clock.day \in Nat /\ clock'.day \in Nat
    BY <1>1, <1>3, ConstantTypes DEF TypeInv
  <2>2. setting.lastRun <= clock'.day
    BY <1>1, <1>3, <2>1 DEF DaysOK
  <2> QED
    BY <1>1, <1>2, <2>2 DEF DaysOK, Claims
<1> QED
  BY <1>4, <1>5, <1>6 DEF HealthInv

LEMMA HealthInit == Init => HealthInv
<1> SUFFICES ASSUME Init PROVE HealthInv
  OBVIOUS
<1>1. TypeInv
  BY ConstantTypes DEF Init, TypeInv, PCs, Flying, Executing, Procs
<1>2. Len(runs) = 0 /\ DOMAIN runs = {} /\ 1..Len(runs) = {}
  BY DEF Init
<1>3. OneActive /\ RowsOK
  BY <1>2 DEF OneActive, Active, RowsOK
<1>4. HoldsOK
  BY DEF Init, HoldsOK, Flying, Executing, Procs
<1>5. DaysOK
  BY <1>2 DEF Init, DaysOK, Claims
<1> QED
  BY <1>1, <1>3, <1>4, <1>5 DEF HealthInv

LEMMA ExecuteKeeps == ASSUME HealthInv, NEW p \in Procs, Execute(p) PROVE HealthInv'
  BY BeginKeeps, LabelKeeps, CheckKeeps, RecordKeeps, WriteKeeps, FinishKeeps, InterruptKeeps
     DEF Execute

LEMMA HealthStep == HealthInv /\ [Next]_vars => HealthInv'
<1> SUFFICES ASSUME HealthInv, [Next]_vars PROVE HealthInv'
  OBVIOUS
<1> "service" \in Procs /\ "shell" \in Procs
  BY DEF Procs
<1>1. CASE RunNow \/ Schedule \/ Tick \/ CreateCliRun
  BY <1>1, RunNowKeeps, ScheduleKeeps, TickKeeps, CreateCliRunKeeps
<1>2. CASE Service
  BY <1>2, BootKeeps, InterruptRunningKeeps, TakeManualKeeps, ClaimScheduleKeeps, ExecuteKeeps
     DEF Service
<1>3. CASE Execute("shell")
  BY <1>3, ExecuteKeeps
<1>4. CASE \E p \in Procs : Refused(p) \/ Crash(p)
  BY <1>4, RefusedKeeps, CrashKeeps
<1>5. CASE UNCHANGED vars
  <2>1. UNCHANGED <<clock, setting, runs, files, proc, asked>>
    BY <1>5 DEF vars
  <2> QED
    BY <2>1 DEF HealthInv, TypeInv, OneActive, Active, RowsOK, RowOK, HoldsOK, HoldOK, DaysOK,
                Claims, Flying, Run
<1> QED
  BY <1>1, <1>2, <1>3, <1>4, <1>5 DEF Next

LEMMA HealthHolds == Spec => []HealthInv
  BY HealthInit, HealthStep, PTL DEF Spec

-----------------------------------------------------------------------------
(* The theorems.                                                           *)

(* No scheduled day is run twice or passed over, and no check of a run is   *)
(* made twice (claim_schedule's transaction; execute's loop over the        *)
(* checks), for any number of runs, restarts, refused statements and        *)
(* acknowledgements lost.                                                  *)
THEOREM OnceIsOnce == Spec => []WorkIsDoneOnce
<1>1. HealthInv => DayHasItsRun
  <2> SUFFICES ASSUME HealthInv PROVE DayHasItsRun
    OBVIOUS
  <2>1. DaysOK /\ DOMAIN runs = 1..Len(runs)
    BY RunsShape DEF HealthInv
  <2>2. Claims = {r \in DOMAIN runs : runs[r].trigger = "schedule"}
    BY <2>1 DEF Claims
  <2> QED
    BY <2>1, <2>2 DEF DaysOK, DayHasItsRun
<1>2. HealthInv => AskedOnce
  BY RunsShape DEF HealthInv, RowsOK, RowOK, AskedOnce
<1> QED
  BY <1>1, <1>2, HealthHolds, PTL DEF WorkIsDoneOnce

(* The row of a run, its results and its file tell the same story after     *)
(* every step: the bar is never ahead of the results, a file that is there  *)
(* is complete, and at most one run is active (record_result, finish,       *)
(* write_result; the partial unique index).                                *)
THEOREM StoriesAlwaysAgree == Spec => []StoriesAgree
<1>1. HealthInv => TypeOK
  <2> SUFFICES ASSUME HealthInv PROVE TypeOK
    OBVIOUS
  <2>1. TypeInv /\ OneActive
    BY RunsShape DEF HealthInv
  <2>2. Cardinality(Active) <= 1
    <3>1. CASE Active = {}
      BY <3>1, FS_EmptySet
    <3>2. CASE Active # {}
      <4>1. PICK r \in Active : TRUE
        BY <3>2
      <4>2. Active = {r}
        BY <2>1, <4>1 DEF OneActive
      <4> QED
        BY <4>2, FS_Singleton
    <3> QED
      BY <3>1, <3>2
  <2> QED
    BY <2>1, <2>2, RunsShape DEF TypeOK, TypeInv, PCs, Flying, Run
<1>2. HealthInv => ProgressIsHonest /\ FileIsComplete
  BY RunsShape DEF HealthInv, RowsOK, RowOK, ProgressIsHonest, FileIsComplete
<1> QED
  BY <1>1, <1>2, HealthHolds, PTL DEF StoriesAgree


(* A done run stays as it is, and so does an interrupted one unless it is   *)
(* the shell's, whatever the service, an interrupt that comes late or a     *)
(* restart does (take_manual, interrupt and interrupt_running choose their  *)
(* rows by status; record_result and finish do not).                       *)
THEOREM EndedRunsStay == Spec => EndedStaysEnded
<1> DEFINE Ended(r) == \/ runs[r].status = "done"
                       \/ runs[r].status = "interrupted" /\ Run("shell") # r
           Stay == \A r \in DOMAIN runs : Ended(r) => runs'[r] = runs[r]
<1>1. ASSUME HealthInv, Next PROVE Stay
  <2>0. TypeInv /\ HoldsOK /\ DOMAIN runs = 1..Len(runs)
    BY <1>1, RunsShape DEF HealthInv
  <2>1. ASSUME UNCHANGED runs PROVE Stay
    BY <2>1
  <2>2. ASSUME NEW row, row \in Row, Insert(row) PROVE Stay
    BY <2>0, <2>2, AppendShape DEF Insert, TypeInv
  <2>3. CASE InterruptRunning
    BY <2>3 DEF InterruptRunning
  <2>4. CASE TakeManual
    <3>1. CASE UNCHANGED runs
      BY <2>1, <3>1
    <3>2. ASSUME NEW q \in Queued, runs' = [runs EXCEPT ![q].status = "running"] PROVE Stay
      <4>1. runs[q].status = "queued"
        BY DEF Queued
      <4> QED
        BY <3>2, <4>1
    <3> QED
      BY <2>4, <3>1, <3>2 DEF TakeManual
  <2>5. ASSUME NEW p \in Procs, Execute(p) PROVE Stay
    <3>1. CASE Check(p) \/ WriteResult(p)
      BY <2>1, <3>1 DEF Check, WriteResult
    <3>2. CASE Interrupt(p)
      <4>1. CASE runs[Run(p)].status = "running"
        BY <3>2, <4>1 DEF Interrupt
      <4>2. CASE runs[Run(p)].status # "running"
        BY <2>1, <3>2, <4>2 DEF Interrupt
      <4> QED
        BY <4>1, <4>2
    <3>3. CASE Begin(p) \/ Label(p) \/ Record(p) \/ Finish(p)
      <4>1. proc[p].pc \in Executing /\ Flying(p)
        BY <3>3 DEF Begin, Label, Record, Finish, At, Executing, Flying
      <4>2. Held(p, Run(p))
        BY <1>1, <4>1, HeldRun
      <4>3. runs[Run(p)].status # "done" /\ (p = "service" => runs[Run(p)].status = "running")
        BY <4>1, <4>2 DEF Held, HoldOK
      <4>4. p = "service" \/ p = "shell"
        BY DEF Procs
      <4>5. ~Ended(Run(p))
        BY <4>3, <4>4
      <4>6. \A r \in DOMAIN runs : r # Run(p) => runs'[r] = runs[r]
        BY <3>3 DEF Begin, Label, Record, Finish
      <4> HIDE DEF Ended
      <4> QED
        BY <4>5, <4>6
    <3> QED
      BY <2>5, <3>1, <3>2, <3>3 DEF Execute
  <2>6. ASSUME NEW trigger \in {"schedule", "manual"}, NEW status \in {"queued", "running"},
               NEW day \in 0..MaxDay, Insert(RunRow(trigger, status, day))
        PROVE  Stay
    <3>1. RunRow(trigger, status, day) \in Row
      <4>1. 0 \in 0..Total /\ 0 \in {0, Total} /\ FALSE \in BOOLEAN
        BY ConstantTypes
      <4> QED
        BY <4>1 DEF RunRow, Row
    <3> QED
      BY <2>2, <2>6, <3>1
  <2>7. 0 \in 0..MaxDay /\ clock.day \in 0..MaxDay
    BY <2>0, ConstantTypes DEF TypeInv
  <2>8. CASE RunNow \/ CreateCliRun
    BY <2>6, <2>7, <2>8 DEF RunNow, CreateCliRun
  <2>9. CASE ClaimSchedule
    BY <2>1, <2>6, <2>7, <2>9 DEF ClaimSchedule
  <2>10. CASE Schedule \/ Tick \/ Boot \/ \E p \in Procs : Refused(p) \/ Crash(p)
    BY <2>1, <2>10 DEF Schedule, Tick, Boot, Refused, Crash
  <2> QED
    BY <1>1, <2>3, <2>4, <2>5, <2>8, <2>9, <2>10 DEF Next, Service, Procs
<1>2. HealthInv /\ [Next]_vars => [Stay]_vars
  BY <1>1
<1> HIDE DEF Stay
<1>3. Spec => [][Stay]_vars
  BY <1>2, HealthInit, HealthStep, PTL DEF Spec
<1> USE DEF Stay
<1> QED
  BY <1>3 DEF EndedStaysEnded

=============================================================================
