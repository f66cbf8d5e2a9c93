-------------------------- MODULE GatewayWatch_proofs --------------------------
(***************************************************************************)
(* Theorems about GatewayWatch, for every pace, heartbeat, bound on time   *)
(* and on crashes and faults, and for either kind of probe or both.        *)
(***************************************************************************)
EXTENDS GatewayWatch, TLAPS

Announcing == {"mail", "record"}

(* What the types need: a bad state is announced before its count passes   *)
(* the limit, and no heartbeat is of the future.                           *)
TypeInv ==
    /\ TypeOK
    /\ disk.count < FailsBefore
    /\ pc \notin Announcing => mem.count < FailsBefore
    /\ beaten \subseteq 0..Day(clock)

(* Only a change is announced.                                             *)
ChangeOK ==
    /\ pc \in Announcing => observed # mem.state
    /\ pc = "record" => sent = observed

(* A crash buys one mail that repeats the last one and one heartbeat that  *)
(* repeats its day's; both are used up when memory agrees with the mails.  *)
Unused  == repeats + 1 <= crashes
Unbeat  == rebeats + 1 <= crashes
RepeatsOK ==
    /\ repeats <= crashes /\ rebeats <= crashes
    /\ pc = "dead" => Unused \/ (sent = OK /\ disk.state = OK)
    /\ pc = "dead" => Unbeat \/ beaten = {}
    /\ pc \notin {"dead", "record"} /\ mem.state # sent => Unused
    /\ pc \notin {"dead", "mark"} /\ Day(clock) \in beaten /\ mem.beat # Day(clock) + 1 => Unbeat

(* The start of an outage is never after the last good probe.              *)
SpanOK(m) ==
    /\ m.lastOk <= lastGood
    /\ m.state # OK /\ m.lastOk # 0 => m.since <= lastGood

CallsOK == HasHttp /\ streak.of = DOWN => streak.n <= callFails

MailInv == TypeInv /\ ChangeOK /\ RepeatsOK /\ SpanOK(mem) /\ SpanOK(disk) /\ CallsOK

(* While every tick was whole: the record, in memory or on disk, agrees    *)
(* with the mails and with what was probed.                                *)
Book == IF pc = "dead" THEN disk ELSE mem

BookSaved == pc \in {"probe", "sleep"} => mem = disk
BookTold  == told = IF pc = "record" THEN observed ELSE Book.state
BookGood  == Book.lastOk = lastGood
BookCounts ==
    /\ pc \notin Announcing =>
         IF streak.of = Book.state THEN Book.pending = None /\ Book.count = 0
         ELSE streak.of # OK /\ Book.pending = streak.of /\ Book.count = streak.n
    /\ pc \in Announcing => /\ streak.of = observed
                            /\ observed # OK => streak.n = FailsBefore
BookSince ==
    (pc \in Announcing => observed # OK) /\ Book.state # OK /\ lastGood # 0
        => Book.since = lastGood
BookBeats ==
    /\ rebeats = 0
    /\ pc # "mark" => (Day(clock) \in beaten <=> Book.beat = Day(clock) + 1)
    /\ pc = "mark" => Day(clock) \in beaten
    /\ pc \in {"save", "sleep"} /\ clock % DayLen >= BeatAt => Day(clock) \in beaten

Books == BookSaved /\ BookTold /\ BookGood /\ BookCounts /\ BookSince /\ BookBeats

WholeInv == Whole => Books

WatchInv == MailInv /\ WholeInv

-----------------------------------------------------------------------------
(* Days and what the constants are.                                        *)
LEMMA DayNat == ASSUME NEW t \in Nat PROVE Day(t) \in Nat
  BY WatchAssumption DEF Day

LEMMA DayGrows ==
  ASSUME NEW s \in Nat, NEW t \in Nat, s <= t PROVE Day(s) <= Day(t)
<1>1. DayLen \in Nat /\ DayLen > 0
  BY WatchAssumption
<1> QED
  BY <1>1 DEF Day

LEMMA ConstantTypes ==
  /\ FailsBefore \in Nat /\ FailsBefore >= 1
  /\ HasHttp \in BOOLEAN /\ HasStatus \in BOOLEAN /\ (HasHttp \/ HasStatus)
  /\ MaxClock \in Nat /\ MaxClock >= 1
  /\ MaxCrashes \in Nat /\ MaxFaults \in Nat
  /\ Faults \subseteq AllFaults
  /\ CrashAt \subseteq Steps \ {"dead"}
  BY WatchAssumption

LEMMA AnswerShape ==
  ASSUME NEW p \in Answers
  PROVE  /\ p.httpOk \in BOOLEAN /\ p.error \in BOOLEAN
         /\ p.status \in {None, OK, DEGRADED, DOWN}
         /\ ~HasHttp => p.httpOk
         /\ ~HasStatus => ~p.error
<1>1. p \in Probes
  BY DEF Answers
<1>2. HasHttp \in BOOLEAN /\ HasStatus \in BOOLEAN
  BY ConstantTypes
<1> QED
  BY <1>1, <1>2 DEF Probes

LEMMA VerdictIsState ==
  ASSUME NEW p \in Answers PROVE Verdict(p) \in States
<1> DEFINE h == p.httpOk
           s == p.status
           e == p.error
<1>1. h \in BOOLEAN /\ e \in BOOLEAN /\ s \in {None, OK, DEGRADED, DOWN}
  BY AnswerShape
<1>2. HasStatus \in BOOLEAN /\ HasHttp \in BOOLEAN
  BY ConstantTypes
<1> HIDE DEF h, s, e
<1>3. Decide(h, s, e) \in States
  BY <1>1, <1>2 DEF Decide, States, None, OK, DEGRADED, DOWN, BLIND
<1> QED
  BY <1>3 DEF Verdict, h, s, e

(* A call that fails makes the gateway DOWN, and only that does, where the *)
(* watch calls through it.                                                 *)
LEMMA DownIsCalls ==
  ASSUME NEW p \in Answers, HasHttp, Verdict(p) = DOWN PROVE ~p.httpOk
<1> DEFINE h == p.httpOk
           s == p.status
           e == p.error
<1>1. h \in BOOLEAN /\ e \in BOOLEAN /\ s \in {None, OK, DEGRADED, DOWN}
  BY AnswerShape
<1>2. HasStatus \in BOOLEAN
  BY ConstantTypes
<1>3. Decide(h, s, e) = DOWN
  BY DEF Verdict, h, s, e
<1> HIDE DEF h, s, e
<1>4. ~h
  BY <1>1, <1>2, <1>3 DEF Decide, States, None, OK, DEGRADED, DOWN, BLIND
<1> QED
  BY <1>4 DEF h

-----------------------------------------------------------------------------
(* Types.                                                                  *)
LEMMA InitType == Init => TypeInv
<1> SUFFICES ASSUME Init PROVE TypeInv
  OBVIOUS
<1> USE ConstantTypes
<1>1. Day(clock) \in Nat /\ Day(MaxClock) \in Nat
  BY DayNat DEF Init
<1>2. Fresh \in Watches
  BY <1>1 DEF Init, Fresh, Watches, States
<1>3. TypeOK
  <2>1. mem \in Watches /\ disk \in Watches
    BY <1>2 DEF Init, Lost
  <2>2. streak \in [of : States, n : 0..FailsBefore]
    BY DEF Init, States
  <2>3. OK \in States /\ "dead" \in Steps
    BY DEF States, Steps
  <2> QED
    <3>1. /\ pc \in Steps /\ observed \in States /\ told \in States /\ sent \in States
          /\ clock \in 1..MaxClock /\ crashes \in 0..MaxCrashes /\ faults \in 0..MaxFaults
      BY <2>3 DEF Init
    <3>2. /\ repeats \in Nat /\ rebeats \in Nat /\ callFails \in 0..FailsBefore
          /\ lastGood \in 0..clock /\ torn \in BOOLEAN
          /\ beaten \subseteq 0..Day(MaxClock)
      <4>1. beaten \subseteq 0..Day(MaxClock)
        BY DEF Init
      <4>2. torn \in BOOLEAN
        BY Zenon DEF Init
      <4>3. lastGood \in 0..clock /\ callFails \in 0..FailsBefore
        BY DEF Init
      <4> QED
        BY <4>1, <4>2, <4>3 DEF Init
    <3> QED
      BY <2>1, <2>2, <3>1, <3>2 DEF TypeOK
<1>4. disk.count = 0 /\ mem.count = 0
  BY DEF Init, Fresh, Lost
<1> QED
  BY <1>3, <1>4 DEF Init, TypeInv

LEMMA DaysOfClock ==
  ASSUME TypeOK
  PROVE  /\ clock \in Nat /\ clock <= MaxClock /\ clock >= 1
         /\ Day(clock) \in Nat /\ Day(MaxClock) \in Nat
         /\ Day(clock) <= Day(MaxClock)
<1>1. clock \in Nat /\ clock <= MaxClock /\ clock >= 1
  BY ConstantTypes DEF TypeOK
<1> QED
  BY <1>1, DayNat, DayGrows, ConstantTypes

LEMMA WatchShape ==
  ASSUME NEW m, m \in Watches
  PROVE  /\ m = [state |-> m.state, pending |-> m.pending, count |-> m.count,
                 since |-> m.since, lastOk |-> m.lastOk, beat |-> m.beat]
         /\ m.state \in States /\ m.pending \in States \cup {None}
         /\ m.count \in 0..FailsBefore
         /\ m.since \in 0..clock /\ m.lastOk \in 0..clock
         /\ m.beat \in 0..Day(clock) + 1
  BY DEF Watches

LEMMA ProbeType ==
  ASSUME TypeInv, NEW p \in Answers, Probe(p) PROVE TypeInv'
<1> USE ConstantTypes DEF TypeInv
<1> DEFINE o == Verdict(p)
           m == [mem EXCEPT !.lastOk = IF o = OK THEN clock ELSE @]
<1>1. o \in States
  BY VerdictIsState
<1>2. clock \in Nat /\ clock >= 1 /\ UNCHANGED clock
  BY DaysOfClock DEF Probe
<1> HIDE DEF o
<1>3. /\ m \in Watches
      /\ m.state = mem.state /\ m.count = mem.count /\ m.pending = mem.pending
  BY <1>1, <1>2 DEF TypeOK, Watches
<1>4. /\ pc = "probe"
      /\ observed' = o
      /\ Same(o, m) \/ Better(o, m) \/ Worse(o, m)
      /\ Note(o, p)
      /\ UNCHANGED <<disk, clock, crashes, faults, mailed, beats, torn>>
  BY DEF Probe, o
<1> HIDE DEF m
<1>5. mem.count < FailsBefore /\ mem.count \in Nat
  BY <1>4 DEF TypeOK, Watches, Announcing
<1>6. /\ mem' \in Watches
      /\ pc' \in {"beat", "mail"}
      /\ pc' = "beat" => mem'.count < FailsBefore
  <2>1. CASE Same(o, m)
    <3>1. mem' = [m EXCEPT !.pending = None, !.count = 0]
      BY <2>1 DEF Same
    <3>2. 0 \in 0..FailsBefore /\ 0 < FailsBefore
      OBVIOUS
    <3>3. mem' \in Watches /\ mem'.count = 0
      BY ONLY <1>3, <3>1, <3>2 DEF Watches
    <3> QED
      BY <2>1, <3>2, <3>3 DEF Same
  <2>2. CASE Better(o, m)
    BY <1>3, <2>2 DEF Better
  <2>3. CASE Worse(o, m)
    <3>1. Count(o) \in 1..FailsBefore
      BY <1>5 DEF Count
    <3> HIDE DEF Count
    <3>2. mem' \in Watches /\ mem'.count = Count(o)
      <4>1. mem' = [m EXCEPT !.pending = o, !.count = Count(o)]
        BY <2>3 DEF Worse
      <4>2. Count(o) \in 0..FailsBefore /\ o \in States \cup {None}
        BY <1>1, <3>1
      <4> QED
        BY ONLY <1>3, <4>1, <4>2 DEF Watches
    <3> QED
      BY <3>1, <3>2, <2>3 DEF Worse
  <2> QED
    BY <1>4, <2>1, <2>2, <2>3
<1>7. streak' \in [of : States, n : 0..FailsBefore]
  <2>1. (IF streak.of = o THEN Least(streak.n + 1, FailsBefore) ELSE 1) \in 0..FailsBefore
    BY DEF TypeOK, Least
  <2> QED
    BY <1>1, <1>4, <2>1 DEF Note
<1>8. callFails' \in 0..FailsBefore /\ lastGood' \in 0..clock
  BY <1>2, <1>4 DEF Note, TypeOK, Least
<1>9. mem' \in Watches' /\ disk' \in Watches'
  BY <1>4, <1>6 DEF TypeOK, Watches
<1>10. TypeOK'
  BY <1>1, <1>4, <1>6, <1>7, <1>8, <1>9 DEF TypeOK, Steps, mailed, beats
<1> QED
  BY <1>4, <1>6, <1>10 DEF Announcing, beats

LEMMA RaiseType == ASSUME TypeInv, ProbeRaises PROVE TypeInv'
<1> USE ConstantTypes DEF TypeInv
<1>1. mem' \in Watches' /\ disk' \in Watches'
  BY DEF ProbeRaises, TypeOK, Watches
<1>2. TypeOK'
  BY <1>1 DEF ProbeRaises, TypeOK, Steps, Fault, mailed, beats
<1> QED
  BY <1>2 DEF ProbeRaises, Announcing, beats, TypeOK, Watches

LEMMA SendType == ASSUME TypeInv, SendChange PROVE TypeInv'
<1> USE ConstantTypes DEF TypeInv
<1>1. mem' \in Watches' /\ disk' \in Watches'
  BY DEF SendChange, TypeOK, Watches
<1>2. TypeOK'
  BY <1>1 DEF SendChange, TypeOK, Steps, Fault, beats, seen
<1> QED
  BY <1>2 DEF SendChange, Announcing, beats

LEMMA RecordType == ASSUME TypeInv, Record PROVE TypeInv'
<1> USE ConstantTypes DEF TypeInv
<1> DEFINE s == CASE observed = OK  -> 0
                  [] mem.state = OK -> IF mem.lastOk # 0 THEN mem.lastOk ELSE clock
                  [] OTHER          -> mem.since
<1>1. s \in 0..clock
  BY DaysOfClock DEF TypeOK, Watches
<1> HIDE DEF s
<1>2. mem' = [mem EXCEPT !.state = observed, !.pending = None, !.count = 0, !.since = s]
  BY DEF Record, s
<1>3. mem' \in Watches /\ mem'.count = 0
  <2>1. mem \in Watches /\ observed \in States
    BY DEF TypeOK
  <2>2. 0 \in 0..FailsBefore
    OBVIOUS
  <2> QED
    BY ONLY <1>1, <1>2, <2>1, <2>2 DEF Watches
<1>4. mem' \in Watches' /\ disk' \in Watches'
  BY <1>3 DEF Record, TypeOK, Watches
<1>5. TypeOK'
  BY <1>4 DEF Record, TypeOK, Steps, history
<1> QED
  BY <1>3, <1>5 DEF Record, Announcing, history

LEMMA BeatType == ASSUME TypeInv, SkipBeat \/ SendBeat \/ MarkDay PROVE TypeInv'
<1> USE ConstantTypes, DaysOfClock DEF TypeInv
<1>1. pc' \in {"save", "mark"} /\ pc \notin Announcing
  BY DEF SkipBeat, SendBeat, MarkDay, Announcing
<1>2. UNCHANGED <<disk, observed, clock, crashes, mailed, seen, torn>>
  BY DEF SkipBeat, SendBeat, MarkDay, history, mailed, seen
<1>3. mem' \in Watches /\ mem'.count = mem.count
  BY DEF SkipBeat, SendBeat, MarkDay, TypeOK, Watches
<1>4. mem' \in Watches' /\ disk' \in Watches'
  BY <1>2, <1>3 DEF TypeOK, Watches
<1>5. beaten' \subseteq 0..Day(clock) /\ rebeats' \in Nat /\ faults' \in 0..MaxFaults
  BY DEF SkipBeat, SendBeat, MarkDay, TypeOK, history, beats, Fault
<1>6. TypeOK'
  BY <1>1, <1>2, <1>4, <1>5 DEF TypeOK, Steps, mailed, seen
<1> QED
  BY <1>1, <1>2, <1>3, <1>5, <1>6 DEF Announcing

LEMMA SaveType == ASSUME TypeInv, Save PROVE TypeInv'
<1> USE ConstantTypes DEF TypeInv
<1>1. mem' \in Watches' /\ disk' \in Watches' /\ disk'.count < FailsBefore
  BY DEF Save, TypeOK, Watches, Announcing
<1>2. TypeOK'
  BY <1>1 DEF Save, TypeOK, Steps, Fault, history
<1> QED
  BY <1>1, <1>2 DEF Save, Announcing, history

LEMMA WatchesGrow ==
  ASSUME TypeOK, clock' \in Nat, clock' >= clock PROVE Watches \subseteq Watches'
<1>1. clock \in Nat /\ Day(clock) \in Nat
  BY DaysOfClock
<1>2. Day(clock)' \in Nat /\ Day(clock) <= Day(clock)'
  BY <1>1, DayNat, DayGrows DEF Day
<1> QED
  BY <1>1, <1>2 DEF Watches

LEMMA SleepType == ASSUME TypeInv, Sleep PROVE TypeInv'
<1> USE ConstantTypes, DaysOfClock DEF TypeInv
<1>1. clock' \in Nat /\ clock' >= clock /\ clock' \in 1..MaxClock
  BY DEF Sleep, TypeOK
<1>2. mem' \in Watches' /\ disk' \in Watches'
  BY <1>1, WatchesGrow DEF Sleep, TypeOK
<1>3. Day(clock)' \in Nat /\ Day(clock) <= Day(clock)'
  BY <1>1, DayNat, DayGrows DEF Day
<1>4. beaten' \subseteq 0..Day(clock)'
  BY <1>3 DEF Sleep, history, beats
<1>5. TypeOK'
  BY <1>1, <1>2 DEF Sleep, TypeOK, Steps, history
<1> QED
  BY <1>4, <1>5 DEF Sleep, Announcing

LEMMA FreshIsWatch == ASSUME TypeOK PROVE Fresh \in Watches /\ Fresh.count = 0
  BY DaysOfClock, ConstantTypes DEF Fresh, Watches, States

LEMMA CrashType == ASSUME TypeInv, Crash PROVE TypeInv'
<1> USE ConstantTypes DEF TypeInv
<1>1. mem' \in Watches' /\ disk' \in Watches' /\ mem'.count = 0
  BY FreshIsWatch DEF Crash, Lost, TypeOK, Watches
<1>2. TypeOK'
  BY <1>1 DEF Crash, TypeOK, Steps, mailed, beats, seen
<1> QED
  BY <1>1, <1>2 DEF Crash, Announcing, beats

LEMMA StartType == ASSUME TypeInv, Start PROVE TypeInv'
<1> USE ConstantTypes, DaysOfClock DEF TypeInv
<1>1. clock' \in Nat /\ clock' >= clock /\ clock' \in 1..MaxClock
  BY DEF Start, TypeOK, Least
<1>2. mem' \in Watches /\ mem'.count < FailsBefore /\ faults' \in 0..MaxFaults
  BY FreshIsWatch DEF Start, TypeOK, Fault
<1>3. mem' \in Watches' /\ disk' \in Watches'
  BY <1>1, <1>2, WatchesGrow DEF Start, TypeOK
<1>4. Day(clock)' \in Nat /\ Day(clock) <= Day(clock)'
  BY <1>1, DayNat, DayGrows DEF Day
<1>5. beaten' \subseteq 0..Day(clock)'
  BY <1>4 DEF Start, history, beats
<1>6. TypeOK'
  BY <1>1, <1>2, <1>3 DEF Start, TypeOK, Steps, history
<1> QED
  BY <1>2, <1>5, <1>6 DEF Start, Announcing

LEMMA TypeStep == ASSUME TypeInv, Next PROVE TypeInv'
  BY ProbeType, RaiseType, SendType, RecordType, BeatType, SaveType, SleepType,
     CrashType, StartType DEF Next

-----------------------------------------------------------------------------
(* What a probe does to the record, case by case.                          *)
LEMMA ProbeEffect ==
  ASSUME TypeInv, NEW p \in Answers, Probe(p)
  PROVE  /\ pc = "probe" /\ pc' \in {"beat", "mail"}
         /\ observed' = Verdict(p)
         /\ mem'.state = mem.state /\ mem'.since = mem.since /\ mem'.beat = mem.beat
         /\ mem'.lastOk = IF observed' = OK THEN clock ELSE mem.lastOk
         /\ observed' = mem.state =>
              pc' = "beat" /\ mem'.pending = None /\ mem'.count = 0
         /\ observed' # mem.state /\ observed' = OK => pc' = "mail"
         /\ observed' # mem.state /\ observed' # OK =>
              /\ mem'.pending = observed' /\ mem'.count = Count(observed')
              /\ pc' = "mail" <=> Count(observed') >= FailsBefore
         /\ UNCHANGED <<disk, clock, crashes, faults, told, sent, repeats,
                        beaten, rebeats, torn>>
<1> DEFINE o == Verdict(p)
           m == [mem EXCEPT !.lastOk = IF o = OK THEN clock ELSE @]
<1>1. /\ pc = "probe"
      /\ observed' = o
      /\ Same(o, m) \/ Better(o, m) \/ Worse(o, m)
      /\ UNCHANGED <<disk, clock, crashes, faults, told, sent, repeats,
                     beaten, rebeats, torn>>
  BY DEF Probe, mailed, beats
<1>2. mem \in Watches
  BY DEF TypeInv, TypeOK
<1> HIDE DEF o
<1>3. /\ m = [state |-> m.state, pending |-> m.pending, count |-> m.count,
              since |-> m.since, lastOk |-> m.lastOk, beat |-> m.beat]
      /\ m.state = mem.state /\ m.since = mem.since /\ m.beat = mem.beat
      /\ m.lastOk = IF o = OK THEN clock ELSE mem.lastOk
  BY ONLY <1>2 DEF Watches
<1> HIDE DEF m
<1>4. CASE Same(o, m)
  BY <1>1, <1>3, <1>4 DEF Same, o
<1>5. CASE Better(o, m)
  BY <1>1, <1>3, <1>5 DEF Better, o
<1>6. CASE Worse(o, m)
  <2> HIDE DEF Count
  <2>1. o # mem.state /\ o # OK
    BY <1>6 DEF Worse
  <2>2. mem' = [m EXCEPT !.pending = o, !.count = Count(o)]
    BY <1>6 DEF Worse
  <2>3. pc' = IF Count(o) >= FailsBefore THEN "mail" ELSE "beat"
    BY <1>6 DEF Worse
  <2>4. /\ mem'.state = m.state /\ mem'.since = m.since /\ mem'.beat = m.beat
        /\ mem'.lastOk = m.lastOk /\ mem'.pending = o /\ mem'.count = Count(o)
    BY ONLY <1>3, <2>2
  <2> QED
    BY <1>1, <1>3, <2>1, <2>3, <2>4 DEF o
<1> QED
  BY <1>1, <1>4, <1>5, <1>6

LEMMA RecordEffect ==
  ASSUME TypeInv, Record
  PROVE  /\ pc = "record" /\ pc' = "beat"
         /\ mem'.state = observed /\ mem'.pending = None /\ mem'.count = 0
         /\ mem'.lastOk = mem.lastOk /\ mem'.beat = mem.beat
         /\ observed # OK /\ mem.state = OK =>
              mem'.since = IF mem.lastOk # 0 THEN mem.lastOk ELSE clock
         /\ observed # OK /\ mem.state # OK => mem'.since = mem.since
         /\ UNCHANGED <<disk, observed, clock, crashes, faults, history>>
<1> DEFINE s == CASE observed = OK  -> 0
                  [] mem.state = OK -> IF mem.lastOk # 0 THEN mem.lastOk ELSE clock
                  [] OTHER          -> mem.since
<1>1. /\ observed # OK /\ mem.state = OK => s = IF mem.lastOk # 0 THEN mem.lastOk ELSE clock
      /\ observed # OK /\ mem.state # OK => s = mem.since
  OBVIOUS
<1> HIDE DEF s
<1>2. mem' = [mem EXCEPT !.state = observed, !.pending = None, !.count = 0, !.since = s]
  BY DEF Record, s
<1>3. mem \in Watches
  BY DEF TypeInv, TypeOK
<1>4. /\ mem'.state = observed /\ mem'.pending = None /\ mem'.count = 0
      /\ mem'.lastOk = mem.lastOk /\ mem'.beat = mem.beat /\ mem'.since = s
  BY ONLY <1>2, <1>3 DEF Watches
<1> QED
  BY <1>1, <1>4 DEF Record

LEMMA MarkEffect ==
  ASSUME TypeInv, MarkDay
  PROVE  /\ pc = "mark" /\ pc' = "save"
         /\ mem'.state = mem.state /\ mem'.pending = mem.pending
         /\ mem'.count = mem.count /\ mem'.since = mem.since
         /\ mem'.lastOk = mem.lastOk /\ mem'.beat = Day(clock) + 1
         /\ UNCHANGED <<disk, observed, clock, crashes, faults, history>>
<1>1. mem \in Watches
  BY DEF TypeInv, TypeOK
<1>2. mem' = [mem EXCEPT !.beat = Day(clock) + 1]
  BY DEF MarkDay
<1> QED
  BY <1>1, <1>2 DEF MarkDay, Watches

(* The day a tick later: its heartbeat is known as it was, or it is a new   *)
(* day, of which nobody knows anything yet.                                 *)
LEMMA DayPasses ==
  ASSUME TypeInv, clock' \in Nat, clock' >= clock, NEW m, m.beat \in 0..Day(clock) + 1
  PROVE  \/ Day(clock)' = Day(clock)
         \/ Day(clock)' \notin beaten /\ m.beat # Day(clock)' + 1
<1>1. clock \in Nat /\ Day(clock) \in Nat
  BY DaysOfClock DEF TypeInv
<1>2. Day(clock)' \in Nat /\ Day(clock) <= Day(clock)'
  BY <1>1, DayNat, DayGrows DEF Day
<1> QED
  BY <1>1, <1>2 DEF TypeInv

LEMMA ClockMoves ==
  ASSUME TypeInv, Sleep \/ Start PROVE clock' \in Nat /\ clock' >= clock
  BY DaysOfClock, ConstantTypes DEF TypeInv, Sleep, Start, Least

-----------------------------------------------------------------------------
(* Only a change is announced.                                             *)
LEMMA ChangeStep == ASSUME TypeInv, ChangeOK, Next PROVE ChangeOK'
<1> USE DEF ChangeOK, Announcing
<1>1. ASSUME NEW p \in Answers, Probe(p) PROVE ChangeOK'
  BY <1>1, ProbeEffect
<1>2. CASE SendChange
  BY <1>2 DEF SendChange
<1>3. CASE Record
  BY <1>3 DEF Record
<1>4. CASE ProbeRaises \/ SkipBeat \/ SendBeat \/ MarkDay \/ Save \/ Sleep \/ Crash \/ Start
  BY <1>4 DEF ProbeRaises, SkipBeat, SendBeat, MarkDay, Save, Sleep, Crash, Start
<1> QED
  BY <1>1, <1>2, <1>3, <1>4 DEF Next

-----------------------------------------------------------------------------
(* Repeated mails.                                                         *)
LEMMA RepeatsStep == ASSUME TypeInv, ChangeOK, RepeatsOK, Next PROVE RepeatsOK'
<1> USE DEF RepeatsOK, Unused, Unbeat
<1>a. repeats \in Nat /\ rebeats \in Nat /\ crashes \in Nat
  BY DEF TypeInv, TypeOK
<1>1. ASSUME NEW p \in Answers, Probe(p) PROVE RepeatsOK'
  BY <1>1, ProbeEffect DEF Day
<1>2. CASE ProbeRaises \/ SkipBeat \/ Save
  BY <1>2 DEF ProbeRaises, SkipBeat, Save, history, mailed, beats, Day
<1>3. CASE SendChange
  BY <1>a, <1>3 DEF SendChange, ChangeOK, Announcing, beats, Day
<1>4. CASE Record
  BY <1>4, RecordEffect DEF ChangeOK, Announcing, history, Day
<1>5. CASE SendBeat
  BY <1>a, <1>5 DEF SendBeat, BeatDue, mailed, beats, Day
<1>6. CASE MarkDay
  BY <1>6, MarkEffect DEF history, Day
<1>7. CASE Sleep
  <2>1. mem.beat \in 0..Day(clock) + 1
    BY DEF TypeInv, TypeOK, Watches
  <2>2. \/ Day(clock)' = Day(clock)
        \/ Day(clock)' \notin beaten
    BY <1>7, <2>1, DayPasses, ClockMoves
  <2> QED
    BY <1>7, <2>2 DEF Sleep, history
<1>8. CASE Crash
  BY <1>a, <1>8 DEF Crash, mailed, beats
<1>9. CASE Start
  <2>1. /\ pc = "dead" /\ pc' = "probe"
        /\ mem' = disk \/ mem' = Fresh
        /\ UNCHANGED <<crashes, repeats, rebeats, sent, beaten>>
    BY <1>9 DEF Start, history
  <2>2. Unused \/ (sent = OK /\ mem'.state = OK)
    BY <2>1 DEF Fresh
  <2> QED
    BY <2>1, <2>2
<1> QED
  BY <1>1, <1>2, <1>3, <1>4, <1>5, <1>6, <1>7, <1>8, <1>9 DEF Next

-----------------------------------------------------------------------------
(* The start of an outage, and calls that fail.                            *)
LEMMA SpanStep ==
  ASSUME TypeInv, ChangeOK, SpanOK(mem), SpanOK(disk), Next
  PROVE  SpanOK(mem)' /\ SpanOK(disk)'
<1> USE DEF SpanOK
<1>a. /\ mem.since \in Nat /\ mem.since <= clock /\ disk.since <= clock
      /\ disk.since \in Nat /\ lastGood \in Nat /\ lastGood <= clock /\ clock \in Nat
  BY DaysOfClock DEF TypeInv, TypeOK, Watches
<1>b. Fresh.lastOk = 0
  BY DEF Fresh
<1>1. ASSUME NEW p \in Answers, Probe(p) PROVE SpanOK(mem)' /\ SpanOK(disk)'
  <2>1. lastGood' = IF observed' = OK THEN clock ELSE lastGood
    BY <1>1, ProbeEffect DEF Probe, Note
  <2>2. mem.lastOk \in Nat /\ disk.lastOk \in Nat
    BY DEF TypeInv, TypeOK, Watches
  <2> QED
    BY <1>1, <1>a, <2>1, <2>2, ProbeEffect
<1>2. CASE Record
  <2>1. mem.lastOk \in Nat
    BY DEF TypeInv, TypeOK, Watches
  <2> QED
    BY <1>2, <1>a, <2>1, RecordEffect DEF history
<1>3. CASE MarkDay
  BY <1>3, MarkEffect DEF history
<1>4. CASE Save
  BY <1>4 DEF Save, history
<1>5. CASE ProbeRaises \/ SendChange \/ SkipBeat \/ SendBeat \/ Sleep
  BY <1>5 DEF ProbeRaises, SendChange, SkipBeat, SendBeat, Sleep, history, seen
<1>6. CASE Crash
  BY <1>6, <1>a, <1>b DEF Crash, Lost, seen
<1>7. CASE Start
  BY <1>7, <1>a, <1>b DEF Start, history
<1> QED
  BY <1>1, <1>2, <1>3, <1>4, <1>5, <1>6, <1>7 DEF Next

LEMMA CallsStep == ASSUME TypeInv, CallsOK, Next PROVE CallsOK'
<1> USE DEF CallsOK
<1>1. ASSUME NEW p \in Answers, Probe(p) PROVE CallsOK'
  <2> SUFFICES ASSUME HasHttp, streak'.of = DOWN PROVE streak'.n <= callFails'
    OBVIOUS
  <2>1. /\ streak'.of = Verdict(p)
        /\ streak'.n = IF streak.of = Verdict(p) THEN Least(streak.n + 1, FailsBefore) ELSE 1
        /\ callFails' = IF p.httpOk THEN 0 ELSE Least(callFails + 1, FailsBefore)
    BY <1>1 DEF Probe, Note
  <2>2. ~p.httpOk
    BY <2>1, DownIsCalls
  <2>3. streak.n \in Nat /\ callFails \in Nat /\ FailsBefore \in Nat /\ FailsBefore >= 1
    BY ConstantTypes DEF TypeInv, TypeOK
  <2> QED
    BY <2>1, <2>2, <2>3 DEF Least
<1>2. ASSUME UNCHANGED <<streak, callFails>> PROVE CallsOK'
  BY <1>2
<1>3. CASE ProbeRaises \/ SendChange \/ Record \/ SkipBeat \/ SendBeat \/ MarkDay
           \/ Save \/ Sleep \/ Crash \/ Start
  BY <1>2, <1>3 DEF ProbeRaises, SendChange, Record, SkipBeat, SendBeat, MarkDay, Save,
                    Sleep, Crash, Start, history, seen
<1> QED
  BY <1>1, <1>3 DEF Next

-----------------------------------------------------------------------------
(* Whole ticks.  A step into one came from one: no fault is undone, and a   *)
(* container stopped within a tick is remembered.                          *)
LEMMA WholeBefore ==
  ASSUME TypeInv, Next, Whole'
  PROVE  /\ Whole /\ faults' = 0 /\ faults = 0
         /\ Crash => pc \in {"probe", "sleep"}
<1>1. faults \in Nat
  BY DEF TypeInv, TypeOK
<1>2. faults' = faults \/ faults' = faults + 1
  BY DEF Next, Probe, ProbeRaises, SendChange, Record, SkipBeat, SendBeat, MarkDay,
         Save, Sleep, Crash, Start, Fault
<1>3. torn' = torn \/ (torn' = (torn \/ pc \notin {"probe", "sleep"}))
  BY DEF Next, Probe, ProbeRaises, SendChange, Record, SkipBeat, SendBeat, MarkDay,
         Save, Sleep, Crash, Start, history, seen
<1>4. torn \in BOOLEAN
  BY DEF TypeInv, TypeOK
<1>5. faults' = 0 /\ faults = 0
  BY <1>1, <1>2 DEF Whole
<1>6. ~torn
  BY <1>3, <1>4 DEF Whole
<1>7. Crash => pc \in {"probe", "sleep"}
  BY <1>4 DEF Crash, Whole
<1> QED
  BY <1>5, <1>6, <1>7 DEF Whole

LEMMA WholeProbe ==
  ASSUME TypeInv, Books, NEW p \in Answers, Probe(p) PROVE Books'
<1> DEFINE o == observed'
<1>1. pc = "probe" /\ pc' \in {"beat", "mail"} /\ Book = mem /\ Book' = mem'
  BY ProbeEffect DEF Book
<1>2. /\ streak'.of = o
      /\ streak'.n = IF streak.of = o THEN Least(streak.n + 1, FailsBefore) ELSE 1
      /\ lastGood' = IF o = OK THEN clock ELSE lastGood
  BY ProbeEffect DEF Probe, Note
<1>3. /\ streak.n \in Nat /\ streak.n <= FailsBefore /\ mem.count < FailsBefore
      /\ mem.count \in Nat /\ FailsBefore \in Nat /\ FailsBefore >= 1
      /\ mem.state \in States /\ o \in States
  BY <1>1, ConstantTypes, ProbeEffect, VerdictIsState
     DEF TypeInv, TypeOK, Watches, Announcing
<1>4. BookSaved' /\ BookTold'
  BY <1>1, ProbeEffect DEF Books, BookSaved, BookTold
<1>5. BookGood'
  BY <1>1, <1>2, ProbeEffect DEF Books, BookGood
<1>6. BookCounts'
  <2>1. /\ streak.of = mem.state => mem.pending = None
        /\ streak.of # mem.state => mem.pending = streak.of /\ mem.count = streak.n
    BY <1>1 DEF Books, BookCounts, Announcing
  <2>2. CASE o = mem.state
    BY <1>1, <1>2, <2>2, ProbeEffect DEF BookCounts, Announcing
  <2>3. CASE o # mem.state /\ o = OK
    BY <1>1, <1>2, <2>3, ProbeEffect DEF BookCounts, Announcing
  <2>4. CASE o # mem.state /\ o # OK
    <3>1. None \notin States
      BY DEF States, None, OK, DEGRADED, DOWN, BLIND
    <3>2. mem.pending = o <=> streak.of = o
      BY <1>3, <2>1, <2>4, <3>1
    <3>3. Count(o) = streak'.n /\ Count(o) <= FailsBefore
      BY <1>2, <1>3, <2>1, <2>4, <3>2 DEF Count, Least
    <3>4. /\ mem'.pending = o /\ mem'.count = Count(o) /\ mem'.state = mem.state
          /\ pc' = "mail" <=> Count(o) >= FailsBefore
      BY <2>4, ProbeEffect
    <3>5. Count(o) \in Nat
      BY <1>3 DEF Count
    <3> HIDE DEF Count, o
    <3>6. pc' = "mail" => streak'.n = FailsBefore
      BY <1>3, <3>3, <3>4, <3>5
    <3> QED
      BY <1>1, <1>2, <2>4, <3>3, <3>4, <3>6 DEF BookCounts, Announcing, o
  <2> QED
    BY <2>2, <2>3, <2>4
<1>7. BookSince'
  <2>1. mem.state # OK /\ lastGood # 0 => mem.since = lastGood
    BY <1>1 DEF Books, BookSince, Announcing
  <2> QED
    BY <1>1, <1>2, <2>1, ProbeEffect DEF BookSince, Announcing
<1>8. BookBeats'
  BY <1>1, ProbeEffect DEF Books, BookBeats, Day
<1> QED
  BY <1>4, <1>5, <1>6, <1>7, <1>8 DEF Books

LEMMA WholeMail ==
  ASSUME TypeInv, Books, SendChange, faults' = faults PROVE Books'
<1>1. /\ pc = "mail" /\ pc' = "record" /\ told' = observed
      /\ UNCHANGED <<mem, disk, observed, clock, beaten, rebeats, streak, lastGood>>
  <2>1. faults \in Nat
    BY DEF TypeInv, TypeOK
  <2> QED
    BY <2>1 DEF SendChange, Fault, beats, seen
<1>2. Book = mem /\ Book' = mem
  BY <1>1 DEF Book
<1> QED
  BY <1>1, <1>2 DEF Books, BookSaved, BookTold, BookGood, BookCounts, BookSince,
                    BookBeats, Announcing, Day

LEMMA WholeRecord ==
  ASSUME TypeInv, ChangeOK, Books, Record PROVE Books'
<1>1. /\ pc = "record" /\ pc' = "beat" /\ Book = mem /\ Book' = mem'
      /\ UNCHANGED <<disk, observed, clock, told, beaten, rebeats, streak, lastGood>>
  BY RecordEffect DEF Book, history, mailed, beats, seen
<1>2. BookSaved' /\ BookTold' /\ BookGood'
  BY <1>1, RecordEffect DEF Books, BookSaved, BookTold, BookGood
<1>3. BookCounts'
  BY <1>1, RecordEffect DEF Books, BookCounts, Announcing
<1>4. BookSince'
  <2>1. observed # OK /\ mem.state # OK /\ lastGood # 0 => mem.since = lastGood
    BY <1>1 DEF Books, BookSince, Announcing
  <2>2. mem.lastOk = lastGood
    BY <1>1 DEF Books, BookGood
  <2> QED
    BY <1>1, <2>1, <2>2, RecordEffect DEF BookSince, Announcing
<1>5. BookBeats'
  BY <1>1, RecordEffect DEF Books, BookBeats, Day
<1> QED
  BY <1>2, <1>3, <1>4, <1>5 DEF Books

LEMMA WholeBeat ==
  ASSUME TypeInv, Books, SkipBeat \/ SendBeat, faults' = faults PROVE Books'
<1>1. /\ pc = "beat" /\ pc' \in {"save", "mark"}
      /\ UNCHANGED <<mem, disk, observed, clock, told, streak, lastGood>>
  BY DEF SkipBeat, SendBeat, history, mailed, seen
<1>2. Book = mem /\ Book' = mem
  BY <1>1 DEF Book
<1>3. BookSaved' /\ BookTold' /\ BookGood' /\ BookCounts' /\ BookSince'
  BY <1>1, <1>2 DEF Books, BookSaved, BookTold, BookGood, BookCounts, BookSince,
                    Announcing
<1> DEFINE late == clock % DayLen >= BeatAt
<1>4. /\ rebeats = 0
      /\ Day(clock) \in beaten <=> mem.beat = Day(clock) + 1
  BY <1>1, <1>2 DEF Books, BookBeats
<1>5. CASE SkipBeat
  <2>1. /\ pc' = "save" /\ UNCHANGED <<beaten, rebeats>>
        /\ late => mem.beat = Day(clock) + 1
    BY <1>5 DEF SkipBeat, BeatDue, history, beats
  <2> QED
    BY <1>1, <1>2, <1>3, <1>4, <2>1 DEF Books, BookBeats, Day
<1>6. CASE SendBeat
  <2>1. faults \in Nat
    BY DEF TypeInv, TypeOK
  <2>2. /\ pc' = "mark" /\ mem.beat # Day(clock) + 1
        /\ beaten' = beaten \cup {Day(clock)}
        /\ rebeats' = IF Day(clock) \in beaten THEN rebeats + 1 ELSE rebeats
    BY <1>6, <2>1 DEF SendBeat, BeatDue, Fault
  <2> QED
    BY <1>1, <1>2, <1>3, <1>4, <2>2 DEF Books, BookBeats, Day
<1> QED
  BY <1>5, <1>6

LEMMA WholeMark ==
  ASSUME TypeInv, Books, MarkDay PROVE Books'
<1>1. /\ pc = "mark" /\ pc' = "save" /\ Book = mem /\ Book' = mem'
      /\ UNCHANGED <<disk, observed, clock, told, beaten, rebeats, streak, lastGood>>
  BY MarkEffect DEF Book, history, mailed, beats, seen
<1>2. BookSaved' /\ BookTold' /\ BookGood' /\ BookCounts' /\ BookSince'
  BY <1>1, MarkEffect DEF Books, BookSaved, BookTold, BookGood, BookCounts, BookSince,
                          Announcing
<1>3. BookBeats'
  BY <1>1, MarkEffect DEF Books, BookBeats, Day
<1> QED
  BY <1>2, <1>3 DEF Books

LEMMA WholeSave ==
  ASSUME TypeInv, Books, Save, faults' = faults PROVE Books'
<1>1. /\ pc = "save" /\ pc' = "sleep" /\ disk' = mem
      /\ UNCHANGED <<mem, observed, clock, told, beaten, rebeats, streak, lastGood>>
  <2>1. faults \in Nat
    BY DEF TypeInv, TypeOK
  <2> QED
    BY <2>1 DEF Save, Fault, history, mailed, beats, seen
<1>2. Book = mem /\ Book' = mem
  BY <1>1 DEF Book
<1> QED
  BY <1>1, <1>2 DEF Books, BookSaved, BookTold, BookGood, BookCounts, BookSince,
                    BookBeats, Announcing, Day

LEMMA WholeCrash ==
  ASSUME TypeInv, Books, Crash, pc \in {"probe", "sleep"} PROVE Books'
<1>1. /\ pc' = "dead"
      /\ UNCHANGED <<disk, observed, clock, told, beaten, rebeats, streak, lastGood>>
  BY DEF Crash, mailed, beats, seen
<1>2. Book = mem /\ Book' = mem
  BY <1>1 DEF Books, BookSaved, Book
<1> QED
  BY <1>1, <1>2 DEF Books, BookSaved, BookTold, BookGood, BookCounts, BookSince,
                    BookBeats, Announcing, Day

LEMMA WholeWake ==
  ASSUME TypeInv, Books, Sleep \/ Start, faults' = faults PROVE Books'
<1>1. /\ pc \in {"sleep", "dead"} /\ pc' = "probe"
      /\ mem' = Book /\ Book' = Book
      /\ UNCHANGED <<disk, observed, told, beaten, rebeats, streak, lastGood>>
  <2>1. faults \in Nat
    BY DEF TypeInv, TypeOK
  <2> QED
    BY <2>1 DEF Sleep, Start, Fault, Book, history, mailed, beats, seen
<1>2. mem' = disk
  BY <1>1 DEF Books, BookSaved, Book
<1>3. BookSaved' /\ BookTold' /\ BookGood' /\ BookCounts' /\ BookSince'
  BY <1>1, <1>2 DEF Books, BookSaved, BookTold, BookGood, BookCounts, BookSince,
                    Announcing
<1>4. Book.beat \in 0..Day(clock) + 1
  BY DEF Book, TypeInv, TypeOK, Watches
<1>5. \/ Day(clock)' = Day(clock)
      \/ Day(clock)' \notin beaten /\ Book.beat # Day(clock)' + 1
  BY <1>4, DayPasses, ClockMoves
<1>6. BookBeats'
  BY <1>1, <1>5 DEF Books, BookBeats
<1> QED
  BY <1>3, <1>6 DEF Books

LEMMA WholeStep ==
  ASSUME TypeInv, ChangeOK, WholeInv, Next PROVE WholeInv'
<1> SUFFICES ASSUME Whole' PROVE Books'
  BY DEF WholeInv
<1>1. Books /\ faults' = faults /\ (Crash => pc \in {"probe", "sleep"})
  BY WholeBefore DEF WholeInv
<1>2. CASE ProbeRaises
  <2>1. faults \in Nat
    BY DEF TypeInv, TypeOK
  <2> QED
    BY <1>1, <1>2, <2>1 DEF ProbeRaises, Fault
<1> QED
  BY <1>1, <1>2, WholeProbe, WholeMail, WholeRecord, WholeBeat, WholeMark, WholeSave,
     WholeCrash, WholeWake DEF Next

-----------------------------------------------------------------------------
(* The invariant, and what it says of the mails.                           *)
LEMMA InitWatch == Init => WatchInv
<1> SUFFICES ASSUME Init PROVE WatchInv
  OBVIOUS
<1>1. TypeInv
  BY InitType
<1>2. ChangeOK /\ RepeatsOK /\ CallsOK
  BY ConstantTypes
     DEF Init, ChangeOK, RepeatsOK, CallsOK, Announcing, Unused, Unbeat, Fresh
<1>3. SpanOK(mem) /\ SpanOK(disk)
  BY DEF Init, SpanOK, Fresh, Lost
<1>4. Book = Fresh
  BY DEF Init, Book
<1>5. Books
  <2>1. BookSaved /\ BookTold /\ BookGood /\ BookCounts /\ BookSince
    BY <1>4 DEF Init, Fresh, BookSaved, BookTold, BookGood, BookCounts, BookSince,
                Announcing
  <2>2. Day(clock) \in Nat
    BY DayNat DEF Init
  <2>3. BookBeats
    BY <1>4, <2>2 DEF Init, Fresh, BookBeats
  <2> QED
    BY <2>1, <2>3 DEF Books
<1> QED
  BY <1>1, <1>2, <1>3, <1>5 DEF WatchInv, MailInv, WholeInv, Books

LEMMA WatchStep == WatchInv /\ [Next]_vars => WatchInv'
<1> SUFFICES ASSUME WatchInv, [Next]_vars PROVE WatchInv'
  OBVIOUS
<1>1. CASE Next
  BY <1>1, TypeStep, ChangeStep, RepeatsStep, SpanStep, CallsStep, WholeStep
     DEF WatchInv, MailInv
<1>2. CASE UNCHANGED vars
  <2>1. TypeInv' /\ ChangeOK'
    BY <1>2 DEF vars, WatchInv, MailInv, TypeInv, TypeOK, Watches, ChangeOK, Day
  <2>2. RepeatsOK'
    BY <1>2 DEF vars, WatchInv, MailInv, RepeatsOK, Unused, Unbeat, Day
  <2>3. SpanOK(mem)' /\ SpanOK(disk)' /\ CallsOK'
    BY <1>2 DEF vars, WatchInv, MailInv, SpanOK, CallsOK
  <2>4. WholeInv'
    BY <1>2 DEF vars, WatchInv, WholeInv, Whole, Books, BookSaved, BookTold, BookGood,
                BookCounts, BookSince, BookBeats, Book, Announcing, Day
  <2> QED
    BY <2>1, <2>2, <2>3, <2>4 DEF WatchInv, MailInv
<1> QED
  BY <1>1, <1>2

LEMMA WatchImplies == WatchInv => MailsAreTrue /\ RepeatsAreRestarts
<1> SUFFICES ASSUME WatchInv PROVE MailsAreTrue /\ RepeatsAreRestarts
  OBVIOUS
<1>1. TypeInv /\ TypeOK
  BY DEF WatchInv, MailInv, TypeInv
<1>2. RepeatsAreRestarts
  BY DEF WatchInv, MailInv, RepeatsOK, RepeatsAreRestarts
<1>3. Whole => Books
  BY DEF WatchInv, WholeInv
<1>4. AlarmIsConfirmed
  <2> SUFFICES ASSUME Whole, pc = "mail", observed # OK
               PROVE  streak = [of |-> observed, n |-> FailsBefore]
    BY DEF AlarmIsConfirmed
  <2>1. streak.of = observed /\ streak.n = FailsBefore
    BY <1>3 DEF Books, BookCounts, Announcing
  <2> QED
    BY <1>1, <2>1 DEF TypeOK
<1>5. DownMeansCallsFail
  <2> SUFFICES ASSUME Whole, pc = "mail", observed = DOWN, HasHttp
               PROVE  callFails = FailsBefore
    BY DEF DownMeansCallsFail
  <2>1. streak.of = DOWN /\ streak.n = FailsBefore
    BY <1>3 DEF Books, BookCounts, Announcing, OK, DOWN
  <2>2. FailsBefore <= callFails
    BY <2>1 DEF WatchInv, MailInv, CallsOK
  <2> QED
    BY <1>1, <2>2, ConstantTypes DEF TypeOK
<1>6. ReaderKnows
  <2> SUFFICES ASSUME Whole, pc = "sleep"
               PROVE  /\ told = mem.state
                      /\ streak.n = FailsBefore \/ streak.of = OK => mem.state = streak.of
    BY DEF ReaderKnows
  <2>1. told = mem.state
    BY <1>3 DEF Books, BookTold, Book
  <2>2. streak.of # mem.state => streak.of # OK /\ mem.count = streak.n
    BY <1>3 DEF Books, BookCounts, Book, Announcing
  <2>3. mem.count < FailsBefore /\ mem.count \in Nat /\ FailsBefore \in Nat
    BY <1>1, ConstantTypes DEF TypeInv, TypeOK, Watches, Announcing
  <2> QED
    BY <2>1, <2>2, <2>3
<1>7. OutageStartsAtLastGood
  BY <1>3 DEF Books, BookSince, Book, Announcing, OutageStartsAtLastGood
<1>8. OutageNeverShortened
  BY DEF WatchInv, MailInv, SpanOK, OutageNeverShortened
<1>9. OneHeartbeatADay
  BY <1>3 DEF Books, BookBeats, OneHeartbeatADay
<1> QED
  BY <1>1, <1>2, <1>4, <1>5, <1>6, <1>7, <1>8, <1>9 DEF MailsAreTrue

LEMMA WatchAlways == Spec => []WatchInv
  BY InitWatch, WatchStep, PTL DEF Spec

(* MailsAreTrue: what the reader is told.  An alarm follows FailsBefore     *)
(* equal probes, DOWN as many failed calls; after a tick the last mail, the *)
(* record and the probes agree; an outage starts at the last good probe,    *)
(* never later; each day has one heartbeat.  For every WATCH_FAILS_BEFORE,  *)
(* heartbeat hour and choice of probes (`tick`, `commit`, `heartbeat`).     *)
THEOREM ReaderIsToldTheTruth == Spec => []MailsAreTrue
  BY WatchAlways, WatchImplies, PTL

(* RepeatsAreRestarts: wherever the container is stopped, however mails and *)
(* saves fail, a mail that says again what the last one said, or a second   *)
(* heartbeat of a day, is paid for by a stop of the process.                *)
THEOREM RepeatsNeedRestarts == Spec => []RepeatsAreRestarts
  BY WatchAlways, WatchImplies, PTL

=============================================================================
