---------------------------- MODULE GatewayWatch ----------------------------
(***************************************************************************)
(* scripts/watch_gateway.py: a process that probes the gateway at a fixed  *)
(* pace and mails a change of state.  What it knows is a small record, in  *)
(* memory during a tick and in a JSON file after it; a mail that left      *)
(* cannot be taken back.  A crash loses the record in memory and the       *)
(* container starts again from the file.                                   *)
(*                                                                         *)
(* One tick of the loop is: probe, (mail, record the change), (heartbeat,  *)
(* mark the day), save, sleep.  Time is the number of ticks; a day is      *)
(* DayLen of them.  Wording of the mails and SMTP are left out: a mail is  *)
(* the state it announces, and it arrives or is lost.                      *)
(***************************************************************************)
EXTENDS Naturals, FiniteSets

CONSTANTS
  FailsBefore,  \* WATCH_FAILS_BEFORE: equal bad probes before a mail
  HasHttp,      \* WATCH_HTTP names a target
  HasStatus,    \* WATCH_STATUS_URL is set
  DayLen,       \* ticks in a day
  BeatAt,       \* first tick of a day after WATCH_HEARTBEAT_HOUR; DayLen: "off"
  MaxClock,     \* bound on time
  CrashAt,      \* the steps at which the container may be stopped
  MaxCrashes,   \* bound on how often
  Faults,       \* what may go wrong, of AllFaults
  MaxFaults     \* bound on how often

OK       == "reachable"
DEGRADED == "degraded"
DOWN     == "unavailable"
BLIND    == "status_unreadable"
States   == {OK, DEGRADED, DOWN, BLIND}
None     == ""

\* mail: SMTP refuses the mail; save: the volume refuses the file; disk: the
\* file is unreadable at a start; garbled: a target's answer is not HTTP, which
\* is neither of the exceptions probe_http catches.
AllFaults == {"mail", "save", "disk", "garbled"}
Steps == {"dead", "probe", "mail", "record", "beat", "mark", "save", "sleep"}

ASSUME WatchAssumption ==
  /\ FailsBefore \in Nat \ {0}          \* max(1, int(env(...)))
  /\ HasHttp \in BOOLEAN /\ HasStatus \in BOOLEAN
  /\ HasHttp \/ HasStatus               \* build_config exits otherwise
  /\ DayLen \in Nat \ {0} /\ BeatAt \in 0..DayLen
  /\ MaxClock \in Nat \ {0}
  /\ CrashAt \subseteq Steps \ {"dead"} /\ MaxCrashes \in Nat
  /\ Faults \subseteq AllFaults /\ MaxFaults \in Nat

VARIABLES
  pc,       \* the next step of the process
  mem,      \* `state` in memory
  disk,     \* WATCH_STATE_FILE
  observed, \* what this tick's probe says
  clock,    \* the tick
  crashes, faults, \* how often so far
  told,     \* history: the state of the last mail that arrived
  sent,     \* history: the state of the last mail handed to SMTP
  repeats,  \* history: mails that announced again what the last one had
  beaten,   \* history: days whose heartbeat mail arrived
  rebeats,  \* history: heartbeat mails for a day that had one
  streak,   \* history: the last observed state and how often in a row
  callFails, \* history: probes in a row in which a call through it failed
  lastGood, \* history: the tick of the last good probe, 0 before any
  torn      \* history: the container was stopped within a tick that had probed

vars == <<pc, mem, disk, observed, clock, crashes, faults, told, sent, repeats,
          beaten, rebeats, streak, callFails, lastGood, torn>>
history == <<told, sent, repeats, beaten, rebeats, streak, callFails,
             lastGood, torn>>
mailed  == <<told, sent, repeats>>
beats   == <<beaten, rebeats>>
seen    == <<streak, callFails, lastGood>>

Day(t)  == t \div DayLen
Least(a, b) == IF a <= b THEN a ELSE b

\* What load_state's `{}` means to the readers: every `state.get` default.
Fresh == [state |-> OK, pending |-> None, count |-> 0, since |-> 0,
          lastOk |-> 0, beat |-> 0]
Lost  == Fresh

\* No record is of the future.
Watches == [state : States, pending : States \cup {None}, count : 0..FailsBefore,
            since : 0..clock, lastOk : 0..clock, beat : 0..Day(clock) + 1]

TypeOK ==
  /\ pc \in Steps
  /\ mem \in Watches /\ disk \in Watches
  /\ observed \in States
  /\ clock \in 1..MaxClock
  /\ crashes \in 0..MaxCrashes /\ faults \in 0..MaxFaults
  /\ told \in States /\ sent \in States /\ repeats \in Nat
  /\ beaten \subseteq 0..Day(MaxClock) /\ rebeats \in Nat
  /\ streak \in [of : States, n : 0..FailsBefore]
  /\ callFails \in 0..FailsBefore
  /\ lastGood \in 0..clock /\ torn \in BOOLEAN

Init ==
  /\ pc = "dead"
  /\ mem = Lost /\ disk = Fresh
  /\ observed = OK
  /\ clock = 1 /\ crashes = 0 /\ faults = 0
  /\ told = OK /\ sent = OK /\ repeats = 0
  /\ beaten = {} /\ rebeats = 0
  /\ streak = [of |-> OK, n |-> 0] /\ callFails = 0
  /\ lastGood = 0 /\ torn = FALSE

Fault(kind) ==
  /\ kind \in Faults
  /\ faults < MaxFaults
  /\ faults' = faults + 1

-----------------------------------------------------------------------------
\* `decide`: the HTTP targets say whether the gateway is down, /api/status only
\* how much of it is.  httpOk: every target passed (all() of none is true);
\* status: what /api/status says, error: it could not be read.
Decide(httpOk, status, error) ==
  CASE ~httpOk                                      -> DOWN
    [] httpOk /\ error                              -> BLIND
    [] httpOk /\ ~error /\ status \in {None, OK}    -> OK
    [] httpOk /\ ~error /\ status \notin {None, OK} ->
         IF HasHttp THEN DEGRADED ELSE status

\* What the probes of one tick can return.
Probes == [httpOk : IF HasHttp THEN BOOLEAN ELSE {TRUE},
           status : IF HasStatus THEN {None, OK, DEGRADED, DOWN} ELSE {None},
           error  : IF HasStatus THEN BOOLEAN ELSE {FALSE}]
Answers == {p \in Probes : p.error => p.status = None}

Verdict(p) == Decide(p.httpOk, p.status, p.error)

\* Every history of what a probe found.
Note(o, p) ==
  /\ streak' = [of |-> o, n |-> IF streak.of = o THEN Least(streak.n + 1, FailsBefore)
                                                 ELSE 1]
  /\ callFails' = IF p.httpOk THEN 0 ELSE Least(callFails + 1, FailsBefore)
  /\ lastGood' = IF o = OK THEN clock ELSE lastGood

\* `tick` up to the call of `commit`: the same state again clears what was
\* pending, a good probe counts at once, a bad one when it is the FailsBefore-th
\* of its kind in a row.
Same(o, m) ==
  /\ o = mem.state
  /\ mem' = [m EXCEPT !.pending = None, !.count = 0]
  /\ pc' = "beat"

Better(o, m) ==
  /\ o # mem.state /\ o = OK
  /\ mem' = m
  /\ pc' = "mail"

Count(o) == IF mem.pending = o THEN mem.count + 1 ELSE 1

Worse_KeepsCounting(o, m) ==
  /\ o # mem.state /\ o # OK
  /\ LET n == mem.count + 1 IN
     /\ mem' = [m EXCEPT !.pending = o, !.count = Least(n, FailsBefore)]
     /\ pc' = IF n >= FailsBefore THEN "mail" ELSE "beat"

Worse(o, m) ==
  /\ o # mem.state /\ o # OK
  /\ mem' = [m EXCEPT !.pending = o, !.count = Count(o)]
  /\ pc' = IF Count(o) >= FailsBefore THEN "mail" ELSE "beat"

Probe(p) ==
  /\ pc = "probe"
  /\ LET o == Verdict(p)
         m == [mem EXCEPT !.lastOk = IF o = OK THEN clock ELSE @]
     IN /\ observed' = o
        /\ Same(o, m) \/ Better(o, m) \/ Worse(o, m)
        /\ Note(o, p)
  /\ UNCHANGED <<disk, clock, crashes, faults, mailed, beats, torn>>

\* An answer that is not HTTP leaves probe_http as an HTTPException; main's
\* except logs it and the tick ends there, before it looked at anything.
ProbeRaises ==
  /\ pc = "probe" /\ HasHttp
  /\ Fault("garbled")
  /\ pc' = "save"
  /\ UNCHANGED <<mem, disk, observed, clock, crashes, mailed, beats, streak,
                 callFails, lastGood, torn>>

-----------------------------------------------------------------------------
\* `commit`: the mail goes first, and send_mail returns whether or not it left.
SendChange ==
  /\ pc = "mail"
  /\ pc' = "record"
  /\ \/ told' = observed /\ UNCHANGED faults
     \/ Fault("mail") /\ UNCHANGED told
  /\ sent' = observed
  /\ repeats' = IF sent = observed THEN repeats + 1 ELSE repeats
  /\ UNCHANGED <<mem, disk, observed, clock, crashes, beats, seen, torn>>

\* Mutant: a change is recorded when its mail arrived.
Record_WhenTold ==
  /\ pc = "record"
  /\ mem' = IF told # observed THEN [mem EXCEPT !.pending = None, !.count = 0] ELSE
              [mem EXCEPT !.state = observed, !.pending = None, !.count = 0,
                 !.since = CASE observed = OK  -> 0
                             [] observed # OK /\ mem.state = OK -> IF mem.lastOk # 0 THEN mem.lastOk ELSE clock
                             [] OTHER          -> @]
  /\ pc' = "beat"
  /\ UNCHANGED <<disk, observed, clock, crashes, faults, history>>

Record ==
  /\ pc = "record"
  /\ mem' = [mem EXCEPT !.state = observed, !.pending = None, !.count = 0,
               !.since = CASE observed = OK  -> 0
                           [] observed # OK /\ mem.state = OK -> IF mem.lastOk # 0 THEN mem.lastOk
                                                                  ELSE clock
                           [] OTHER          -> @]
  /\ pc' = "beat"
  /\ UNCHANGED <<disk, observed, clock, crashes, faults, history>>

\* `heartbeat`: the first tick of the day past the hour.  Day 0 has the number
\* 1 in the record, 0 being the absent key.
BeatDue ==
  clock % DayLen >= BeatAt /\ mem.beat # Day(clock) + 1

SkipBeat ==
  /\ pc = "beat" /\ ~BeatDue
  /\ pc' = "save"
  /\ UNCHANGED <<mem, disk, observed, clock, crashes, faults, history>>

SendBeat ==
  /\ pc = "beat" /\ BeatDue
  /\ pc' = "mark"
  /\ \/ /\ beaten' = beaten \cup {Day(clock)}
        /\ rebeats' = IF Day(clock) \in beaten THEN rebeats + 1 ELSE rebeats
        /\ UNCHANGED faults
     \/ /\ Fault("mail")
        /\ UNCHANGED beats
  /\ UNCHANGED <<mem, disk, observed, clock, crashes, mailed, seen, torn>>

MarkDay ==
  /\ pc = "mark"
  /\ mem' = [mem EXCEPT !.beat = Day(clock) + 1]
  /\ pc' = "save"
  /\ UNCHANGED <<disk, observed, clock, crashes, faults, history>>

\* save_state: the file is replaced whole or, when the write fails, not at all.
Save ==
  /\ pc = "save"
  /\ \/ /\ disk' = mem
        /\ UNCHANGED faults
     \/ /\ Fault("save")
        /\ UNCHANGED disk
  /\ pc' = "sleep"
  /\ UNCHANGED <<mem, observed, clock, crashes, history>>

Sleep ==
  /\ pc = "sleep" /\ clock < MaxClock
  /\ clock' = clock + 1
  /\ pc' = "probe"
  /\ UNCHANGED <<mem, disk, observed, crashes, faults, history>>

-----------------------------------------------------------------------------
\* The container stops; `restart: unless-stopped` brings it back, now or a tick
\* later, and main loads the file.
Crash ==
  /\ pc \in CrashAt /\ crashes < MaxCrashes
  /\ crashes' = crashes + 1
  /\ mem' = Lost
  /\ pc' = "dead"
  /\ torn' = (torn \/ pc \notin {"probe", "sleep"})
  /\ UNCHANGED <<disk, observed, clock, faults, mailed, beats, seen>>

Start ==
  /\ pc = "dead"
  /\ \/ mem' = disk /\ UNCHANGED faults
     \/ mem' = Fresh /\ Fault("disk")
  /\ clock' \in {clock, Least(clock + 1, MaxClock)}
  /\ pc' = "probe"
  /\ UNCHANGED <<disk, observed, crashes, history>>

Next ==
  \/ \E p \in Answers : Probe(p)
  \/ ProbeRaises
  \/ SendChange
  \/ Record
  \/ SkipBeat
  \/ SendBeat
  \/ MarkDay
  \/ Save
  \/ Sleep
  \/ Crash
  \/ Start

Spec == Init /\ [][Next]_vars

-----------------------------------------------------------------------------
\* Every tick so far was whole: stopped between ticks or while it probed at most,
\* and without a fault.  What a tick cut short can do to the mails is bounded by
\* RepeatsAreRestarts and OutageNeverShortened.
Whole == ~torn /\ faults = 0

\* A bad state is mailed only when the last FailsBefore probes all saw it,
\* whichever process made them: no mail for a single slip, none for a state the
\* gateway has left (`tick`, pending and pending_count in the file).
AlarmIsConfirmed ==
  Whole /\ pc = "mail" /\ observed # OK => streak = [of |-> observed, n |-> FailsBefore]

\* After a tick the reader of the mails knows the state on record, and that is
\* the state the last FailsBefore probes agree on: an outage of many ticks is
\* one mail, a restart in the middle of it none.
ReaderKnows ==
  Whole /\ pc = "sleep" =>
    /\ told = mem.state
    /\ streak.n = FailsBefore \/ streak.of = OK => mem.state = streak.of

\* A mail is repeated, and a day's heartbeat too, at most once for every time
\* the process was stopped, whatever step it was stopped at.
RepeatsAreRestarts == repeats <= crashes /\ rebeats <= crashes

\* The start an outage is given is the last good probe before it: later, and the
\* reader would search the agents' logs in too short a span (`commit`, the comment
\* on `since`).  Before any good probe there is none to give.
OutageStartsAtLastGood ==
  Whole /\ pc = "sleep" /\ mem.state # OK /\ lastGood # 0 => mem.since = lastGood

\* ... and whatever a stop or a failed save loses makes the span longer, never
\* shorter, unless the file itself was lost.
OutageNeverShortened ==
  pc \notin {"dead", "record"} /\ mem.state # OK /\ mem.lastOk # 0
     => mem.since <= lastGood

\* Every day with a tick past the hour has its heartbeat, and only one.
OneHeartbeatADay ==
  Whole =>
    /\ rebeats = 0
    /\ pc = "sleep" /\ clock % DayLen >= BeatAt => Day(clock) \in beaten

\* "A call through the load balancer decides": DOWN is mailed only when such calls
\* failed in each of the last FailsBefore probes, whatever /api/status said.
DownMeansCallsFail ==
  Whole /\ pc = "mail" /\ observed = DOWN /\ HasHttp => callFails = FailsBefore

\* What the reader of the mails is told is so.
MailsAreTrue ==
  /\ TypeOK
  /\ AlarmIsConfirmed
  /\ DownMeansCallsFail
  /\ ReaderKnows
  /\ OutageStartsAtLastGood
  /\ OutageNeverShortened
  /\ OneHeartbeatADay

=============================================================================
