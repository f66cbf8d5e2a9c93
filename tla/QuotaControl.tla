---------------------------- MODULE QuotaControl ----------------------------
(***************************************************************************)
(* The budget of one virtual key, and the three programs that meet in it:  *)
(* the dashboard writes it into the key's metadata (backend/gateway.py,    *)
(* backend/main.py), the hook inside the gateway's instances refuses calls *)
(* once it is spent (docker/gateway/quota_hook.py), and the quota watch    *)
(* mails when a band of it is reached (scripts/watch_quota.py).            *)
(*                                                                         *)
(* None of them locks: the dashboard reads, merges and writes the whole    *)
(* metadata; an instance decides on a copy of the key that it may keep for *)
(* user_api_key_cache_ttl; a call's cost is booked after it was made.      *)
(* Money is a number of cents; the shape of the refusal is left out.       *)
(***************************************************************************)
EXTENDS Integers, Sequences, FiniteSets

CONSTANTS
  Instances,  \* litellm-1, litellm-2
  Admins,     \* holders of DASHBOARD_KEY, one request at a time each
  Amounts,    \* what parse_amount lets through
  Costs,      \* what a call costs
  TTL,        \* user_api_key_cache_ttl, in ticks
  MaxEdits,   \* bound on requests to change the budget
  MaxCalls,   \* bound on calls made through the gateway
  Faults,     \* what may go wrong, of AllFaults
  MaxFaults   \* bound on how often

None == -1

\* ack: a change of the key is not confirmed; list: the watch cannot read the
\* gateway; mail, save, stop: its mail, its state file or itself is lost.
AllFaults == {"ack", "list", "mail", "save", "stop"}

\* LADDER of watch_quota.py; `rose` compares the places in it.
Ok   == 0
B90  == 1
B100 == 2
Over == 3

ASSUME QuotaAssumption ==
  /\ Amounts \subseteq Nat               \* negative, NaN and infinite are refused
  /\ Costs \subseteq Nat \ {0}
  /\ TTL \in Nat \ {0}
  /\ MaxEdits \in Nat /\ MaxCalls \in Nat /\ MaxFaults \in Nat
  /\ Faults \subseteq AllFaults

VARIABLES
  key,      \* the key at the gateway: quota_usd, quota_log, spend
  cached,   \* per instance, the copy of quota and spend it decides on
  pending,  \* costs of calls made but not booked yet, as a sequence
  admin,    \* per admin, where the request stands and what it read
  watch,    \* the quota watch: its step, its reading, the band on record
  disk,     \* the band in its state file
  edits, calls, faults, \* how many so far
  lost,     \* history: mails, files and processes the watch has lost
  acked,    \* history: budget changes the dashboard confirmed
  overlaps, \* history: changes made while another request held what it had read
  overFor,  \* history: ticks for which the key has been spent
  underFor, \* history: ticks for which it has not
  told,     \* history: the band last mailed, lowered by the falls read since
  again     \* history: mails for a band the key had not left

vars == <<key, cached, pending, admin, watch, disk, edits, calls, faults, lost,
          acked, overlaps, overFor, underFor, told, again>>
dashboard == <<admin, edits, acked, overlaps>>
gateway   == <<cached, pending, calls>>
watcher   == <<watch, disk, lost, told, again>>
clocks    == <<overFor, underFor>>

Absent == [quota |-> None, spend |-> None, age |-> 0]
Idle   == [step |-> "idle", add |-> FALSE, amount |-> 0, base |-> None,
           quota |-> None, log |-> <<>>]
Blank  == [step |-> "dead", level |-> Ok, new |-> Ok, quota |-> None, spend |-> 0]
Quotas == {None} \cup Nat
Entry  == [from : Quotas, to : Nat, by : Admins, added : Quotas]

TypeOK ==
  /\ key \in [quota : Quotas, log : Seq(Entry), spend : Nat]
  /\ cached \in [Instances -> [quota : Quotas, spend : Nat \cup {None}, age : 0..TTL]]
  /\ pending \in Seq(Costs)
  /\ admin \in [Admins -> [step : {"idle", "base", "read", "write"}, add : BOOLEAN,
                           amount : Nat, base : Quotas, quota : Quotas, log : Seq(Entry)]]
  /\ watch \in [step : {"dead", "read", "mail", "save"},
                level : Ok..Over, new : Ok..Over, quota : Quotas, spend : Nat]
  /\ disk \in Ok..Over
  /\ edits \in 0..MaxEdits /\ calls \in 0..MaxCalls
  /\ faults \in 0..MaxFaults /\ lost \in 0..MaxFaults
  /\ acked \in Nat /\ overlaps \in Nat
  /\ overFor \in 0..TTL /\ underFor \in 0..TTL
  /\ told \in Ok..Over /\ again \in Nat

Init ==
  /\ key = [quota |-> None, log |-> <<>>, spend |-> 0]
  /\ cached = [i \in Instances |-> Absent]
  /\ pending = <<>>
  /\ admin = [a \in Admins |-> Idle]
  /\ watch = [Blank EXCEPT !.step = "read"]
  /\ disk = Ok
  /\ edits = 0 /\ calls = 0 /\ faults = 0 /\ lost = 0
  /\ acked = 0 /\ overlaps = 0
  /\ overFor = 0 /\ underFor = TTL
  /\ told = Ok /\ again = 0

Fault(kind) ==
  /\ kind \in Faults /\ faults < MaxFaults
  /\ faults' = faults + 1

\* A transaction of the watch that succeeds, and one that loses something.
Kept       == UNCHANGED <<faults, lost>>
Loss(kind) == Fault(kind) /\ lost' = lost + 1

-----------------------------------------------------------------------------
\* decide_action: no budget or a malformed one lets the call pass, else the rule
\* is "spent >= budget: the next call is refused".
Blocks(quota, spend) == quota # None /\ spend >= quota

Spent == Blocks(key.quota, key.spend)

\* The two clocks start again when the key changes sides.
Sides ==
  /\ overFor'  = IF Blocks(key'.quota, key'.spend) /\ Spent THEN overFor ELSE 0
  /\ underFor' = IF Blocks(key'.quota, key'.spend) \/ Spent THEN 0 ELSE underFor

-----------------------------------------------------------------------------
\* The dashboard.  POST /api/quota reads the key, merges and writes back;
\* POST /api/quota/top-up reads it once more before, for the sum.
AskSet(a, amount) ==
  /\ admin[a].step = "idle" /\ edits < MaxEdits
  /\ edits' = edits + 1
  /\ admin' = [admin EXCEPT ![a] = [Idle EXCEPT !.step = "read", !.amount = amount]]
  /\ UNCHANGED <<key, gateway, watcher, clocks, faults, acked, overlaps>>

AskTopUp(a, amount) ==
  /\ admin[a].step = "idle" /\ edits < MaxEdits
  /\ edits' = edits + 1
  /\ admin' = [admin EXCEPT ![a] = [Idle EXCEPT !.step = "base", !.amount = amount,
                                                !.add = TRUE]]
  /\ UNCHANGED <<key, gateway, watcher, clocks, faults, acked, overlaps>>

\* quota_top_up's own find_key: (quota_of(key) or 0.0) + added.
ReadBase(a) ==
  /\ admin[a].step = "base"
  /\ admin' = [admin EXCEPT ![a].step = "read", ![a].base = key.quota]
  /\ UNCHANGED <<key, gateway, watcher, clocks, faults, edits, acked, overlaps>>

\* set_quota's find_key: the metadata the merge starts from.
ReadKey(a) ==
  /\ admin[a].step = "read"
  /\ admin' = [admin EXCEPT ![a].step = "write", ![a].quota = key.quota,
                            ![a].log = key.log]
  /\ UNCHANGED <<key, gateway, watcher, clocks, faults, edits, acked, overlaps>>

NewQuota(r) ==
  IF r.add THEN r.amount + (IF r.base = None THEN 0 ELSE r.base) ELSE r.amount

\* _merge: the new budget and one more line of history.
Merged(a, r) ==
  LET line == [from |-> r.quota, to |-> NewQuota(r), by |-> a,
               added |-> IF r.add THEN r.amount ELSE None]
  IN [quota |-> line.to, log |-> Append(r.log, line)]

\* Request b has read of the budget what it will write from.
Holds(b) == admin[b].step = "write" \/ (admin[b].step = "read" /\ admin[b].add)

\* Only the history read again before the write: no line is lost, but they no
\* longer fit together.
Land_FreshLog(a) ==
  LET m == Merged(a, [admin[a] EXCEPT !.log = key.log]) IN
  /\ key' = [key EXCEPT !.quota = m.quota, !.log = m.log]
  /\ overlaps' = overlaps + (IF \E b \in Admins \ {a} : Holds(b) THEN 1 ELSE 0)

\* POST /key/update replaces the metadata, whatever came in between.
Land(a) ==
  LET m == Merged(a, admin[a]) IN
  /\ key' = [key EXCEPT !.quota = m.quota, !.log = m.log]
  /\ overlaps' = overlaps + (IF \E b \in Admins \ {a} : Holds(b) THEN 1 ELSE 0)

\* The answer may be lost after it did, or the call may fail before: the request
\* is answered 502 in both.
Write(a) ==
  /\ admin[a].step = "write"
  /\ admin' = [admin EXCEPT ![a] = Idle]
  /\ \/ Land(a) /\ acked' = acked + 1 /\ UNCHANGED faults
     \/ Land(a) /\ Fault("ack") /\ UNCHANGED acked
     \/ Fault("ack") /\ UNCHANGED <<key, overlaps, acked>>
  /\ Sides
  /\ UNCHANGED <<gateway, watcher, edits>>

-----------------------------------------------------------------------------
\* The gateway.  An instance reads the key when it holds no copy (LiteLLM).
Fetch(i) ==
  /\ cached[i] = Absent
  /\ cached' = [cached EXCEPT ![i] = [quota |-> key.quota, spend |-> key.spend, age |-> 0]]
  /\ UNCHANGED <<key, pending, calls, dashboard, watcher, clocks, faults>>

\* ... and may drop the copy before its time: a restart, /key/update on it.
Drop(i) ==
  /\ cached[i] # Absent
  /\ cached' = [cached EXCEPT ![i] = Absent]
  /\ UNCHANGED <<key, pending, calls, dashboard, watcher, clocks, faults>>

Admit_NoHook(i, cost) ==
  /\ cached[i] # Absent /\ calls < MaxCalls
  /\ calls' = calls + 1
  /\ pending' = Append(pending, cost)
  /\ UNCHANGED <<key, cached, dashboard, watcher, clocks, faults>>

\* async_pre_call_hook lets a call through; its cost is known when it is over.
Admit(i, cost) ==
  /\ cached[i] # Absent /\ calls < MaxCalls
  /\ ~Blocks(cached[i].quota, cached[i].spend)
  /\ calls' = calls + 1
  /\ pending' = Append(pending, cost)
  /\ UNCHANGED <<key, cached, dashboard, watcher, clocks, faults>>

\* ... or refuses it before it reaches the provider.
Refuse(i) ==
  /\ cached[i] # Absent /\ calls < MaxCalls
  /\ Blocks(cached[i].quota, cached[i].spend)
  /\ calls' = calls + 1
  /\ UNCHANGED <<key, cached, pending, dashboard, watcher, clocks, faults>>

\* LiteLLM adds the cost of a finished call to the key's spend.
Book ==
  /\ pending # <<>>
  /\ key' = [key EXCEPT !.spend = @ + Head(pending)]
  /\ pending' = Tail(pending)
  /\ Sides
  /\ UNCHANGED <<cached, calls, dashboard, watcher, faults>>

\* Time: copies age, and those of user_api_key_cache_ttl are gone.
Aged(c) ==
  IF c = Absent \/ c.age + 1 >= TTL THEN Absent ELSE [c EXCEPT !.age = @ + 1]

Later(n) == IF n < TTL THEN n + 1 ELSE TTL

Tick ==
  /\ cached' = [i \in Instances |-> Aged(cached[i])]
  /\ overFor'  = IF Spent THEN Later(overFor) ELSE 0
  /\ underFor' = IF Spent THEN 0 ELSE Later(underFor)
  /\ UNCHANGED <<key, pending, calls, dashboard, watcher, faults>>

-----------------------------------------------------------------------------
\* The quota watch.  level_of(spent / quota), and Ok when the budget is absent
\* or zero: rows_from_gateway divides only by a budget that is true.
LevelOf(quota, spend) ==
  CASE quota \in {None, 0}                                            -> Ok
    [] quota > 0 /\ 10 * spend < 9 * quota                            -> Ok
    [] quota > 0 /\ 9 * quota <= 10 * spend /\ spend < quota          -> B90
    [] quota > 0 /\ quota <= spend /\ 10 * spend < 11 * quota         -> B100
    [] quota > 0 /\ 11 * quota <= 10 * spend                          -> Over

\* tick: the bands come from the file, which only the watch writes.  A rise is
\* mailed, a fall is recorded in silence, the same band is left.
ReadSpend ==
  /\ watch.step = "read"
  /\ LET n == LevelOf(key.quota, key.spend) IN
     /\ watch' = [watch EXCEPT !.level = disk, !.new = n, !.quota = key.quota,
                    !.spend = key.spend, !.step = IF n > disk THEN "mail" ELSE "save"]
     /\ told' = IF n < told THEN n ELSE told
  /\ UNCHANGED <<key, gateway, dashboard, clocks, faults, disk, lost, again>>

\* The gateway cannot be read: the bands stay and the file is written as it was.
CannotRead ==
  /\ watch.step = "read"
  /\ Fault("list")
  /\ watch' = [watch EXCEPT !.step = "save", !.level = disk, !.new = disk]
  /\ UNCHANGED <<key, gateway, dashboard, clocks, disk, lost, told, again>>

SendMail ==
  /\ watch.step = "mail"
  /\ watch' = [watch EXCEPT !.step = "save"]
  /\ \/ /\ told' = watch.new
        /\ again' = IF told >= watch.new THEN again + 1 ELSE again
        /\ Kept
     \/ Loss("mail") /\ UNCHANGED <<told, again>>
  /\ UNCHANGED <<key, gateway, dashboard, clocks, disk>>

\* levels[alias] = new and save_state, which keeps the old file when it fails.
SaveLevel_OnlyRises ==
  /\ watch.step = "save"
  /\ watch' = [Blank EXCEPT !.step = "read"]
  /\ \/ disk' = (IF watch.new > disk THEN watch.new ELSE disk) /\ Kept
     \/ Loss("save") /\ UNCHANGED disk
  /\ UNCHANGED <<key, gateway, dashboard, clocks, told, again>>

SaveLevel ==
  /\ watch.step = "save"
  /\ watch' = [Blank EXCEPT !.step = "read"]
  /\ \/ disk' = watch.new /\ Kept
     \/ Loss("save") /\ UNCHANGED disk
  /\ UNCHANGED <<key, gateway, dashboard, clocks, told, again>>

StopWatch ==
  /\ watch.step # "dead"
  /\ Loss("stop")
  /\ watch' = Blank
  /\ UNCHANGED <<key, gateway, dashboard, clocks, disk, told, again>>

StartWatch ==
  /\ watch.step = "dead"
  /\ watch' = [watch EXCEPT !.step = "read"]
  /\ UNCHANGED <<key, gateway, dashboard, clocks, faults, disk, lost, told, again>>

-----------------------------------------------------------------------------
Edit(a) ==
  \/ \E n \in Amounts : AskSet(a, n) \/ AskTopUp(a, n)
  \/ ReadBase(a)
  \/ ReadKey(a)
  \/ Write(a)

Serve(i) ==
  \/ Fetch(i)
  \/ Drop(i)
  \/ \E c \in Costs : Admit(i, c)
  \/ Refuse(i)

Watch ==
  \/ ReadSpend
  \/ CannotRead
  \/ SendMail
  \/ SaveLevel
  \/ StopWatch
  \/ StartWatch

Next ==
  \/ \E a \in Admins : Edit(a)
  \/ \E i \in Instances : Serve(i)
  \/ Book
  \/ Tick
  \/ Watch

Spec == Init /\ [][Next]_vars

-----------------------------------------------------------------------------
\* However stale an instance's copy of the key may be, no call is let through
\* once the key has been spent for user_api_key_cache_ttl, and none is refused
\* once a top-up is that old: nothing has to be restarted (quota_hook.py, "the
\* spend may be up to that old").
VerdictsFollowTheKey ==
  [][/\ Len(pending') > Len(pending) => overFor < TTL
     /\ calls' > calls /\ pending' = pending => underFor < TTL]_vars

\* The history in the metadata tells one story of the budget, through lost answers,
\* stale reads and administrators who write over each other: every line starts
\* where the one before ended and the last one is the budget in force (_merge).
HistoryChains ==
  LET log == key.log IN
  /\ \A n \in 1..Len(log) :
        log[n].from = IF n = 1 THEN None ELSE log[n - 1].to
  /\ key.quota = IF log = <<>> THEN None ELSE log[Len(log)].to

\* A top-up raises the budget its line starts from by what was asked, though it
\* read that budget twice (quota_top_up, set_quota).
TopUpAdds ==
  \A n \in 1..Len(key.log) :
    LET line == key.log[n] IN
    line.added # None => line.to = line.added + (IF line.from = None THEN 0 ELSE line.from)

\* Every change the dashboard confirmed has its line, but for at most one each time
\* a change landed while another request held what it had read (set_quota).
NoLineLost == acked <= Len(key.log) + overlaps

\* What is lost when nothing locks the metadata: the history never contradicts
\* itself, top-ups add as long as no two requests met, and the confirmed lines
\* that are missing are no more than the meetings of two requests.
HistoryIsWhole == TypeOK /\ HistoryChains /\ (overlaps = 0 => TopUpAdds) /\ NoLineLost

\* When the watch has read that a budget above zero is spent, the reader of the
\* mails has been told so since the last fall it saw, unless the watch lost a mail,
\* its file or itself: no band is jumped over, and a top-up makes the next alarm
\* possible (tick, rose).
SpentIsTold ==
  watch.step = "save" /\ watch.quota > 0 /\ Blocks(watch.quota, watch.spend) /\ lost = 0
     => told >= B100

\* A band is mailed again without having been left only when one of them was lost.
RepeatsAreLosses == again <= lost

\* A spent budget is told, once.
SpentIsToldOnce == SpentIsTold /\ RepeatsAreLosses

=============================================================================
