------------------------------ MODULE Records ------------------------------
(***************************************************************************)
(* The record-keeping algorithms, each applied to every input of a set:    *)
(* the merges of collected files (FileMerge), the directory of people      *)
(* (OrgDirectory), the rows of the gateway's ledger (LedgerRows), the      *)
(* loads of files (SourceLoad), the rollups (UsageRollup), the answers of  *)
(* the dashboard (ReadApi), the audit of all of it (Audit), and beside them*)
(* the configuration rendered from profiles (ConnectionConfig).  A         *)
(* behaviour is one computation: alg says which, given is its input, out   *)
(* its result.                                                             *)
(* The properties say what a result must be without saying how it is made. *)
(***************************************************************************)
EXTENDS Integers, Sequences, FiniteSets, SequencesExt, FiniteSetsExt

CONSTANTS
    SingleUser, Pairs, Aggregates, Shared, Stop,   \* see OrgDirectory, FileMerge
    MonitoringCases, LatencyCases, BillingCases,   \* inputs of the merges
    DirectoryCases, LedgerCases,                   \* inputs of LoadOrg and LoadGateway
    RalliCases, ContractCases, ProviderCases, InvoiceCases, MeterCases,
    RollupCases, SpeedCases, MergedAgents, PageCases, ReconcileCases,
    Reserved, Gateway, Acts, ConnectionCases       \* see ConnectionConfig; sequences of Acts

VARIABLES alg, given, done, out
vars == <<alg, given, done, out>>

Merge == INSTANCE FileMerge
Org == INSTANCE OrgDirectory
Ledger == INSTANCE LedgerRows
Load == INSTANCE SourceLoad
Roll == INSTANCE UsageRollup
Api == INSTANCE Audit
Cfg == INSTANCE ConnectionConfig

CasesOf ==
  [monitoring |-> MonitoringCases, latency |-> LatencyCases, billing |-> BillingCases,
   directory |-> DirectoryCases, ledger |-> LedgerCases, ralli |-> RalliCases,
   contract |-> ContractCases, provider |-> ProviderCases, invoice |-> InvoiceCases,
   meter |-> MeterCases, rollup |-> RollupCases, speed |-> SpeedCases,
   page |-> PageCases, reconcile |-> ReconcileCases, connections |-> ConnectionCases]

Init ==
  /\ alg \in DOMAIN CasesOf
  /\ given \in CasesOf[alg]
  /\ done = FALSE
  /\ out = Stop

Compute(name, result) ==
  /\ alg = name /\ ~done
  /\ out' = result
  /\ done' = TRUE
  /\ UNCHANGED <<alg, given>>

-----------------------------------------------------------------------------
Empty == [fact |-> <<>>, seen |-> <<>>, next |-> 100, dropped |-> <<>>, ok |-> TRUE,
          catalogue |-> [models |-> <<>>, aliases |-> <<>>]]

\* The gateway's ledger is loaded when it is `first` lines long, and later whole.
LoadTwice(g) ==
  Ledger!LoadGateway(g.ledger, Ledger!LoadGateway(SubSeq(g.ledger, 1, g.first), Empty, g.world), g.world)

MergeFilesOfMonitoring == Compute("monitoring", Merge!MergeMonitoring(given.disk, given.names))
MergeFilesOfLatency == Compute("latency", Merge!MergeLatency(given.disk, given.byMethod))
MergeFilesOfBilling == Compute("billing", Merge!MergeBilling(given.files, given.map, given.agents))
LoadDirectory == Compute("directory", Org!LoadOrg(given))
LoadLedger == Compute("ledger", LoadTwice(given))
LoadCallLog ==
  Compute("ralli", Load!LoadRalli(given.calls, given.models, given.dir, given.told, given.allow, given.arrived, <<>>))
LoadUsageFile == Compute("contract", Load!LoadContract(given.rows, given.total, given.dir, given.models, <<>>))
LoadPulls == Compute("provider", Load!LoadProvider(given, [m \in {1} |-> m], FALSE, <<>>))
LoadInvoice == Compute("invoice", Load!LoadBilling(given.rows, given.cat, <<>>))
LoadMeter == Compute("meter", Load!LoadMonitoring(given.files, given.cat, <<>>))

BuildUsage ==
  Compute("rollup",
    LET with(daily) == [daily |-> daily, hourly |-> Roll!BuildHourly(given.later, daily.table, given.later, <<>>),
                        view |-> Roll!UsageResolved(daily.table)]
    IN with(Roll!BuildDaily(given.db, given.later, <<>>)))
BuildSpeed ==
  Compute("speed",
    LET full == Roll!BuildPerformance(given.db, given.db, [perf |-> <<>>, latency |-> <<>>, ok |-> TRUE])
        again == Roll!BuildGatewayOnly(given.db, full)
    IN [full |-> full, again |-> again, view |-> Roll!LatencyResolved(again.latency)])

\* A database whose builds have run, and what the dashboard and the audit make of it.
BuiltFrom(st) ==
  LET tables(daily, hourly, speed) ==
        [ok |-> daily.ok /\ hourly.ok,
         st |-> [daily |-> daily.table, hourly |-> hourly.table, perf |-> speed.perf,
                 latency |-> Roll!BuildGatewayOnly(st, speed).latency] @@ st]
      after(daily) ==
        tables(daily, Roll!BuildHourly(st, daily.table, st, <<>>),
               Roll!BuildPerformance(st, st, [perf |-> <<>>, latency |-> <<>>, ok |-> TRUE]))
  IN after(Roll!BuildDaily(st, st, <<>>))

ShowPage ==
  Compute("page",
    LET answers(built, st, usage, perf) ==
          [ok |-> built.ok, st |-> st, usage |-> usage, perf |-> perf, page |-> Api!BuildState(usage, perf, st),
           byAccount |-> Api!UsageByAccount(st, given.from, given.to),
           byHour |-> Api!UsageHourly(st, given.from, given.to),
           identities |-> Api!Identities(st, given.from, given.to),
           agents |-> Api!Agents(st), accounts |-> Api!Accounts(st), adoption |-> Api!Adoption(st),
           health |-> Api!Health(st), failing |-> Api!AuditTables(st)]
        asked(built) == answers(built, built.st, Api!Usage(built.st, given.from, given.to),
                                Api!Performance(built.st, given.from, given.to))
    IN asked(BuiltFrom(given.st)))
CompareWithOthers ==
  Compute("reconcile",
    [provider |-> Api!ProviderAgrees(given.calls, given.provider), cache |-> Api!CacheAgrees(given.calls, given.invoice),
     timezone |-> Api!TimezoneAgrees(given.meter, given.invoiced)])
\* What happens to the gateway in a case: a case is a sequence of numbers of Acts.
Steps == [n \in DOMAIN given |-> Acts[given[n]]]
DeployConnections == Compute("connections", Cfg!Career(Gateway, Steps))

Next ==
  \/ MergeFilesOfMonitoring \/ MergeFilesOfLatency \/ MergeFilesOfBilling
  \/ LoadDirectory \/ LoadLedger \/ LoadCallLog \/ LoadUsageFile \/ LoadPulls
  \/ LoadInvoice \/ LoadMeter \/ BuildUsage \/ BuildSpeed
  \/ ShowPage \/ CompareWithOthers \/ DeployConnections

Spec == Init /\ [][Next]_vars

-----------------------------------------------------------------------------
Result(name) == done /\ alg = name
Sum(S, value(_)) == FoldSet(LAMBDA x, n : n + value(x), 0, S)
SumSeq(s, value(_)) == FoldLeft(LAMBDA n, x : n + value(x), 0, s)

\* The pulls a merge of the monitoring files reads.
Pulled(g) == IF g.names = {} THEN {d \in DOMAIN g.disk : d.tail = "1m"} ELSE g.names

(***************************************************************************)
(* Overlapping pulls tell the same minutes again, and the numbers of the   *)
(* last minutes of a pull may still grow.  Whatever the order of pulls, of *)
(* files and of lines: a merged file has each key once with the largest    *)
(* number any pull that counts reported, no key is lost, pulls of other    *)
(* accounts do not count, and every key on which two lines differ is       *)
(* reported.  (merge_monitoring.py)                                        *)
(***************************************************************************)
MeterFilesMerged ==
  Result("monitoring") /\ out # Stop =>
    \A p \in DOMAIN out :
      LET read == UNION {Range(given.disk[d][p].lines) : d \in {e \in Pulled(given) : p \in DOMAIN given.disk[e]}}
          kept == out[p].lines
      IN /\ {l.key : l \in Range(kept)} = {l.key : l \in read}
         /\ Cardinality({l.key : l \in Range(kept)}) = Len(kept)
         /\ \A l \in Range(kept) : l.num = Max({r.num : r \in {x \in read : x.key = l.key}})
         /\ \A r, x \in read : r.key = x.key /\ r # x => \E c \in Range(out[p].clashes) : c.key = r.key

(***************************************************************************)
(* The daily histogram of a project is made of minutes, each counted once  *)
(* however many pulls report it and with all its samples, though pulls     *)
(* leave out the trailing zeros of their buckets; a percentile lies in the *)
(* bucket that holds the sample of that rank, and they are in order.       *)
(* (merge_latency_daily.py)                                                *)
(***************************************************************************)
LatencyMerged ==
  Result("latency") /\ out # Stop =>
    LET points == {x \in UNION {Range(given.disk[d]) : d \in {e \in DOMAIN given.disk : e.tail = "1m"}} : x.count # {}}
        row(x) == IF given.byMethod THEN <<x.day, x.project, x.method>> ELSE <<x.day, x.project>>
        most(k) == Max(UNION {x.count : x \in {y \in points : y.key = k}})
        below(counts, b) == SumSeq(SubSeq(counts, 1, b), LAMBDA c : c)
    IN /\ DOMAIN out = {row(x) : x \in points}
       /\ \A r \in DOMAIN out :
            /\ out[r].samples = Sum({x.key : x \in {y \in points : row(y) = r}}, most)
            /\ \A q \in {50, 95, 99} : \A v \in out[r].p[q] :
                 /\ 100 * below(out[r].counts, v.bucket - 1) < q * out[r].samples
                 /\ q * out[r].samples <= 100 * below(out[r].counts, v.bucket)
            /\ \A v \in out[r].p[50], w \in out[r].p[95], x \in out[r].p[99] :
                 v.bucket <= w.bucket /\ w.bucket <= x.bucket

(***************************************************************************)
(* An invoice file is taken for the project its name says.  If there is a  *)
(* result at all, it is the rows of every file, each once under its own    *)
(* project, no two files stand for one project, and output tokens whose    *)
(* name also says "input" are output.  (merge_billing.py, rules.py)        *)
(***************************************************************************)
BillingMerged ==
  Result("billing") /\ out # Stop =>
    LET from(f) == SelectSeq(out, LAMBDA d : d.project = given.map[f])
        bare(d) == [day |-> d.day, sku |-> d.sku, words |-> d.words, cost |-> d.cost]
        times(s, x) == Len(SelectSeq(s, LAMBDA d : bare(d) = bare(x)))
    IN /\ \A f, g \in DOMAIN given.files : given.map[f] = given.map[g] => f = g
       /\ Len(out) = SumSeq(SetToSeq(DOMAIN given.files), LAMBDA f : Len(given.files[f]))
       /\ \A f \in DOMAIN given.files : \A x \in Range(given.files[f]) :
            times(from(f), x) = times(given.files[f], x)
       /\ \A d \in Range(out) :
            /\ d.kind # {}
            /\ d.kind = {"input"} <=> d.words \cap {"cached", "output"} = {}

(***************************************************************************)
(* No merge loses, doubles or mixes up what the collected files say: the   *)
(* three statements above.                                                 *)
(***************************************************************************)
MergesKeepEverything == MeterFilesMerged /\ LatencyMerged /\ BillingMerged

(***************************************************************************)
(* People are gathered from directories and logs that spell names and ids  *)
(* differently.  Every caller of the log has a row, every row the account  *)
(* of its name, whichever spelling; the account's unit is one that a row   *)
(* of the name says, a real one if any row has a real one, and no real     *)
(* unit that lies deeper; an account switched off anywhere is off; and     *)
(* names nobody owns, or that no directory lists, are shared.  Every agent *)
(* has the one seat that the builds ask for, on a unit of its own, and no  *)
(* person has a seat's number.  (load_org.py, build_usage_daily.py)        *)
(***************************************************************************)
DirectoryResolved ==
  Result("directory") /\ out # Stop =>
    LET rows == Range(out.people)
        of(u) == {p \in rows : Org!Norm(p.name) = u}
        level(u) == (CHOOSE v \in out.units : v.id = u).level
    IN /\ \A c \in Range(given.calls) : \A u \in c.user : \E p \in rows : p.agent = Org!Ralli /\ p.id = u
       /\ \A p \in rows : Org!Norm(p.name) \in DOMAIN out.accounts
       /\ \A u \in DOMAIN out.accounts :
            LET a == out.accounts[u] IN
            /\ a.unit \in {p.unit : p \in of(u)}
            /\ \A p \in of(u) : p.unit > 0 => a.unit > 0 /\ level(a.unit) >= level(p.unit)
            /\ a.enabled = {TRUE} => \A p \in of(u) : FALSE \notin p.enabled
            /\ a.shared <=> u \in Shared \/ \A p \in of(u) : p.foundIn = "log"
            /\ a.conflict <=> \E p, q \in of(u) : p.unit > 0 /\ q.unit > 0 /\ p.unit # q.unit
       /\ Roll!AnchorsOK([agents |-> {Org!TlaContract, Org!Ralli} \cup SingleUser, accounts |-> out.seats])
       /\ \A s \in out.seats : \E v \in out.units : v.id = s.unit /\ v.agent = s.agent /\ v.technical
       /\ Cardinality(Range(out.numbers) \cup {s.id : s \in out.seats})
            = Cardinality(DOMAIN out.accounts) + Cardinality(out.seats)

(***************************************************************************)
(* Every line of the gateway's ledger is a row of fact_call or dropped for *)
(* one reason, and what the whole-ledger comparison skips in SQL is just   *)
(* what the loop drops, so a ledger that no one else writes reconciles; a  *)
(* call is only ever put on the account of someone its own agent knows,    *)
(* two callers of a registered agent never share an account, and the       *)
(* second load of a line moves it nowhere.                                 *)
(* (load_gateway.py, connect.py, gateway_registry.py)                      *)
(***************************************************************************)
LedgerLoaded ==
  Result("ledger") =>
    LET w == given.world
        listed(r) == {p.account : p \in {q \in w.people : /\ q.agent = r.agent /\ q.listed
                                            /\ r.user # {} /\ q.name % 10 \in {u % 10 : u \in r.user}}}
        seats(r) == {a.id : a \in {b \in w.accounts : b.agent = r.agent /\ b.kind \in {"service_account", "whole_agent"}}}
        seen(r) == {out.seen[k].account : k \in {j \in DOMAIN out.seen : j[1] = r.agent /\ j[2] \in r.user}}
        rows == Range(out.fact)
    IN \/ Ledger!DirectoryConflicts(w.people, w.accounts)
       \/ /\ {l.id : l \in Range(given.ledger)} = DOMAIN out.fact \cup {d.id : d \in Range(out.dropped)}
          /\ \A d \in Range(out.dropped) : d.id \notin DOMAIN out.fact
          /\ out.ok
          /\ \A r \in rows : r.account \in listed(r) \cup seats(r) \cup seen(r)
          /\ \A j, k \in DOMAIN out.seen : out.seen[j].account = out.seen[k].account => j = k
          /\ \A r \in rows : Ledger!LoadGateway(given.ledger, out, w).fact[r.id] = r
          /\ Ledger!LoadGateway(given.ledger, out, w).seen = out.seen

(***************************************************************************)
(* A load that reports success holds its file: of the call log every call  *)
(* and no other program's rows; of the usage file, for each day, account   *)
(* and model, the sum of its rows, missing only where every row is missing;*)
(* of the provider's pulls, the largest number a pull gives, so that one   *)
(* more pull never takes away; of the invoice every row; of the meter      *)
(* every row, with some in the view and some outside it.  A load that      *)
(* fails leaves the whole file or nothing, never a part.  (db/load_*.py)   *)
(***************************************************************************)
FilesLoaded ==
  /\ Result("ralli") =>
       LET lost == Cardinality({i \in DOMAIN out.table : out.table[i].unit = given.dir.nowhere})
       IN IF out.ok
          THEN /\ [i \in DOMAIN out.table |-> out.table[i].id] = [i \in DOMAIN given.calls |-> given.calls[i].id]
               /\ given.allow \/ given.told = {lost}
          ELSE \A r \in Range(out.table) : r.source # "app"
  /\ Result("contract") => IF ~out.ok THEN out.table = <<>> ELSE
       \A i \in DOMAIN out.table :
         LET t == out.table[i]
             from == SelectSeq(given.rows, LAMBDA r : /\ r.day = t.day /\ r.model = t.raw
                                                      /\ Load!AccountOf(r, given.dir) = t.account)
         IN /\ t.tokens = {} <=> \A r \in Range(from) : r.tokens = {}
            /\ Load!OrZero(t.tokens) = SumSeq(from, LAMBDA r : Load!OrZero(r.tokens))
            /\ Load!OrZero(t.calls) = SumSeq(from, LAMBDA r : Load!OrZero(r.calls))
            /\ \A j \in DOMAIN out.table : j # i => <<out.table[j].day, out.table[j].account, out.table[j].raw>>
                                                      # <<t.day, t.account, t.raw>>
  /\ Result("provider") /\ out.ok =>
       \A n \in 1 .. Len(given) - 1 :
         LET fewer == Load!LoadProvider(SubSeq(given, 1, n), [m \in {1} |-> m], FALSE, <<>>) IN
         fewer.ok => \A k \in DOMAIN fewer.table :
           /\ k \in DOMAIN out.table
           /\ \A v \in fewer.table[k].requests : \E x \in out.table[k].requests : x >= v
           /\ \A v \in fewer.table[k].output : \E x \in out.table[k].output : x >= v
  /\ Result("invoice") => /\ Len(out.table) \in {0, Len(given.rows)}
                          /\ SumSeq(out.table, LAMBDA r : r.cost) \in {0, SumSeq(given.rows, LAMBDA r : r.cost)}
                          /\ out.ok => Len(out.table) = Len(given.rows)
  /\ Result("meter") =>
       LET all == SumSeq(SetToSeq(DOMAIN given.files), LAMBDA p : Len(given.files[p])) IN
       /\ Len(out.table) \in {0, all}
       /\ out.ok => /\ Len(out.table) = all
                    /\ \E r \in Range(out.table) : r.service = "ai"
                    /\ \E r \in Range(out.table) : r.service # "ai"

\* Both of it: of the gateway's ledger and of the files.
LoadsComplete == LedgerLoaded /\ FilesLoaded

(***************************************************************************)
(* When both rollups are accepted they agree on every agent, model and     *)
(* account by the day, though each cuts fractions in its own place and     *)
(* only their totals are compared; failed and cached calls are in neither. *)
(* What the view shows of a day is what one single source reported, parts  *)
(* and total alike, and no reported day is missing from it.  Latencies of  *)
(* two sources are never mixed, the exact ones are ordered, and the quick  *)
(* rebuild changes nothing but the gateway's.                              *)
(***************************************************************************)
HoursMakeDays(daily, hourly) ==
  \A k \in {j \in DOMAIN daily : j[5] \in {"gateway", "monitoring"}} :
    LET hours == {h \in DOMAIN hourly : /\ Roll!DayOf(h[1]) = k[1] /\ SubSeq(h, 2, 5) = SubSeq(k, 2, 5)}
    IN /\ Sum(hours, LAMBDA h : Roll!Null0(hourly[h].tokens)) = Roll!Null0(daily[k].tokens)
       /\ Sum(hours, LAMBDA h : Roll!Null0(hourly[h].calls)) = Roll!Null0(daily[k].calls)

ViewChoosesOne(daily, view) ==
  /\ \A k \in DOMAIN daily : <<k[1], k[2], k[3]>> \in DOMAIN view
  /\ \A key \in DOMAIN view :
       \E s \in {"gateway", "billing", "monitoring", "app"} :
         LET ks == SetToSeq({k \in DOMAIN daily : <<k[1], k[2], k[3]>> = key /\ k[5] = s})
             sum(column(_)) == Roll!SqlSum(ks, LAMBDA k : column(daily[k]))
         IN /\ view[key].tokens = sum(LAMBDA m : m.tokens) /\ view[key].in = sum(LAMBDA m : m.in)
            /\ view[key].out = sum(LAMBDA m : m.out) /\ view[key].cached = sum(LAMBDA m : m.cached)
            /\ \A k \in DOMAIN daily : daily[k].tokens # {} /\ <<k[1], k[2], k[3]>> = key => view[key].tokens # {}

RollupsAgree ==
  /\ Result("rollup") /\ out.daily.ok =>
       /\ out.hourly.ok /\ given.later = given.db => HoursMakeDays(out.daily.table, out.hourly.table)
       /\ Sum({k \in DOMAIN out.daily.table : k[5] = "gateway"}, LAMBDA k : Roll!Null0(out.daily.table[k].calls))
            = Len(SelectSeq(given.db.calls, LAMBDA r : r.source = "gateway" /\ r.model # {}
                                               /\ r.outcome = "success" /\ r.hit # {TRUE}))
       /\ ViewChoosesOne(out.daily.table, out.view)
  /\ Result("speed") =>
       /\ \A k \in DOMAIN out.full.latency : k[3] = "monitoring" =>
            k \in DOMAIN out.again.latency /\ out.again.latency[k] = out.full.latency[k]
       /\ \A k \in DOMAIN out.again.latency : LET m == out.again.latency[k] IN
            k[3] = "gateway" => \A a \in m.p50, b \in m.p95, c \in m.p99 : a <= b /\ b <= c
       /\ \A key \in DOMAIN out.view :
            LET k == key \o <<out.view[key].source>> IN
            k \in DOMAIN out.again.latency /\ out.view[key].p95 = out.again.latency[k].p95
              /\ out.view[key].p50 = out.again.latency[k].p50

(***************************************************************************)
(* The same calls are told in several ways: by agent and model, by         *)
(* account, by the hour, as coverage, as identities, and as rows of the    *)
(* page, where agents are merged, answers known for an agent's whole day   *)
(* are divided among its rows, and tokens and calls come from different    *)
(* sources.  Each way adds up to the same tokens, calls and failures, and  *)
(* a person who used an agent is counted once, as one it was given to or   *)
(* as an outsider.  (store.py, gateway_identities.py, migration 009,       *)
(* api.js)                                                                 *)
(***************************************************************************)
Added(S, value(_)) == Sum(S, LAMBDA x : Api!Null0(value(x)))

AccountsAddUp ==
  LET rows == DOMAIN out.usage
      place(i) == <<out.usage[i].day, out.usage[i].agent, out.usage[i].model>>
      accounts(p) == {k \in DOMAIN out.byAccount : <<k[1], out.byAccount[k].agent, k[3]>> = p}
      same(p, column(_)) == Added(accounts(p), LAMBDA k : column(out.byAccount[k]))
                              = Added({i \in rows : place(i) = p}, LAMBDA i : column(out.usage[i]))
  IN /\ \A i \in rows : same(place(i), LAMBDA m : m.tokens) /\ same(place(i), LAMBDA m : m.calls)
     /\ \A k \in DOMAIN out.byAccount : \E i \in rows : k \in accounts(place(i))
     /\ \A i \in rows : \E g \in out.agents : g.id = out.usage[i].agent

HoursAddUp ==
  \A s \in {"gateway", "monitoring"} :
    Added({k \in DOMAIN out.byHour : k[5] = s}, LAMBDA k : out.byHour[k].tokens)
      = Added({k \in DOMAIN out.st.daily : k[5] = s /\ k[1] \in given.from .. given.to}, LAMBDA k : out.st.daily[k].tokens)

PageAddsUp ==
  LET whole(i) == out.page[i].share[2]
      sameDay(i, j) == out.page[i].day = out.page[j].day /\ out.page[i].agent = out.page[j].agent
      told(i) == {k \in DOMAIN out.perf.codes : k[1] = out.page[i].day /\ out.perf.codes[k].agent = out.page[i].agent}
      answers(i, wanted(_)) == Added({k \in told(i) : wanted(Api!TheValue(k[4]))}, LAMBDA k : {out.perf.codes[k].calls})
      of(i) == {j \in DOMAIN out.page : sameDay(i, j)}
  IN \A i \in DOMAIN out.page :
       LET r == out.page[i] IN
       /\ out.usage[i].tokenSource # "app" => r.in + r.out + r.cached = Api!Null0(out.usage[i].tokens)
       /\ Sum(of(i), LAMBDA j : out.page[j].known) = answers(i, LAMBDA c : TRUE) * whole(i)
       /\ Sum(of(i), LAMBDA j : out.page[j].e4 + out.page[j].e5 + out.page[j].e429) = answers(i, LAMBDA c : c >= 400) * whole(i)

PeopleAddUp ==
  LET users(g) == {k[4] : k \in {j \in DOMAIN out.st.daily : j[2] = g /\ j[5] \in Api!KnowsUser}}
      persons(g) == {a.id : a \in {x \in out.st.accounts : x.id \in users(g) /\ x.kind = "real" /\ ~x.shared}}
  IN /\ \A g \in {x \in DOMAIN out.adoption : out.adoption[x].kind = "people"} :
          out.adoption[g].active = {Cardinality(persons(g)) - out.adoption[g].outside}
     /\ LET c == out.health.coverage IN c.service + c.people + c.opaque = out.health.total
     /\ \A g \in DOMAIN out.st.policies :
          Sum({x \in out.identities : x.agent = g}, LAMBDA x : x.tokens)
            = Sum({i \in DOMAIN out.usage : out.usage[i].agent = g}, LAMBDA i : Api!Null0(out.usage[i].tokens))

DashboardAddsUp == Result("page") /\ out.ok => AccountsAddUp /\ HoursAddUp /\ PageAddsUp /\ PeopleAddUp

\* What loads and builds accept passes the audit, and where it does not.
ViewsPassAudit(view, byAccount) ==
  LET served(k) == k[2] \in Api!ServiceAgents(out.st)
      kind(id) == (CHOOSE a \in out.st.accounts : a.id = id).kind
      personal(k) == kind(k[4]) \in {"real", "unattributed"}
      many == {g \in DOMAIN out.st.policies : out.st.policies[g] = "multiple"}
      gateway == SelectSeq(out.st.calls, LAMBDA r : r.source = "gateway")
  IN /\ "Coverage" \in out.failing <=>
          \E k \in DOMAIN view : view[k].tokenSource = "gateway" /\ ~served(k) /\ Api!Null0(view[k].tokens) # 0
     /\ out.failing \cap {"People", "Opaque"} # {} =>
          \E k \in DOMAIN byAccount : ~served(k) /\ byAccount[k].tokenSource \in Api!KnowsUser /\ ~personal(k)
     /\ "ServiceAccounts" \in out.failing => many # {}
     /\ "Resolve" \in out.failing => \E r \in Range(gateway) : kind(r.account) = "whole_agent"
     /\ "NoFailedCalls" \in out.failing => \E r \in Range(gateway) : r.hit = {TRUE} /\ r.tokens # {}
     /\ out.failing \subseteq {"Coverage", "People", "Opaque", "ServiceAccounts", "Resolve", "NoFailedCalls"}

TablesPassAudit ==
  ViewsPassAudit(Api!UsageResolved(out.st.daily), Api!UsageByAccountResolved(out.st.daily))

LedgerPassesAudit ==
  LET w == given.world
      late == [i \in {l.id : l \in Range(given.ledger)} |-> 1000]
      account == Api!RowAccounting(given.ledger, out.fact, w.codes, late, {})
  IN out.ok /\ ~Ledger!DirectoryConflicts(w.people, w.accounts) =>
       /\ account.lost = {d.id : d \in {x \in Range(out.dropped) : x.reason = "before start"}}
       /\ account.extra = {} /\ account.inFlight = {}
       /\ Api!Failing(Api!AuditDirectory(Range(out.fact), w.people, w.accounts, LAMBDA n : n % 10)) = {}

DirectoryPassesAudit ==
  Api!Failing(Api!AuditStructure(out.units, Range(out.people), out.accounts, Org!Norm)) = {}

\* One damage to tables that passed is faulted, a wrong count by the check of
\* that source and by no other check of a source.
TableDamageIsSeen ==
  LET st == out.st
      of == [gateway |-> "GatewayHours", monitoring |-> "MeterHours", app |-> "AppTokens", billing |-> "InvoiceTokens"]
      hoursOf == [of EXCEPT !.app = "AppHours"]
      sources == Range(of) \cup Range(hoursOf) \cup {"NoInvoiceHours"}
      faults(damaged) == Api!AuditTables(damaged)
      blamed(damaged) == faults(damaged) \cap sources
      more(k, column) == [st EXCEPT !.daily[k][column] = {Api!Null0(@) + 1}]
      without(hours) == [st EXCEPT !.hourly = Restrict(@, DOMAIN @ \ hours)]
      moved(k, a) == LET j == [k EXCEPT ![4] = a]
                     IN [st EXCEPT !.daily = j :> st.daily[k] @@ Restrict(@, DOMAIN @ \ {k})]
      rows(s) == {k \in DOMAIN st.daily : k[5] = s}
      hours(s) == {h \in DOMAIN st.hourly : h[5] = s}
      empty(h) == Api!Null0(st.hourly[h].tokens) = 0 /\ (h[5] = "app" \/ Api!Null0(st.hourly[h].calls) = 0)
      newest == Max({0} \cup {Roll!DayOf(h[1]) : h \in hours("gateway")})
      listed(g) == {p \in st.people : p.agent = g}
  IN /\ \A k \in DOMAIN st.daily : blamed(more(k, "tokens")) = {of[k[5]]}
     /\ \A k \in rows("gateway") \cup rows("monitoring") : blamed(more(k, "calls")) = {of[k[5]]}
     /\ \A k \in rows("billing") : "Cost" \in faults(more(k, "cost"))
     /\ \A h \in DOMAIN st.hourly : empty(h) \/ blamed(without({h})) = {hoursOf[h[5]]}
     /\ \A k \in rows("billing") : "NoInvoiceHours" \in faults([st EXCEPT !.hourly = [k EXCEPT ![1] = 0] :> st.daily[k] @@ @])
     /\ hours("gateway") # {} =>
          "HoursFresh" \in faults(without({h \in hours("gateway") : Roll!DayOf(h[1]) = newest}))
     /\ st.appDaily # <<>> => "AppKeys" \in faults([st EXCEPT !.appDaily = @ \o @])
     /\ \A k \in rows("gateway"), a \in {x.id : x \in {y \in st.accounts : y.kind = "whole_agent"}} :
          "Resolve" \in faults(moved(k, a))
     /\ \A k \in DOMAIN st.daily :
          "References" \in Api!Failing(Api!AuditReferences([st EXCEPT !.accounts = {a \in @ : a.id # k[4]}]))
     /\ \A a \in Api!SeatsOf(st.accounts) : listed(a.agent) = {} =>
          "Denominator" \in Api!Failing(Api!AuditAdoption([st EXCEPT !.accounts = @ \ {a}]))
     /\ \A i \in DOMAIN st.calls : "NoFuture" \in Api!Failing(Api!AuditDates([st EXCEPT !.calls[i].hour = 2 * (st.today + 2)]))

LedgerDamageIsSeen ==
  LET w == given.world
      limit == 3 * Api!RefreshInterval({}) + 60
      aged(n) == [i \in {l.id : l \in Range(given.ledger)} |-> n]
      account(fact, n) == Api!RowAccounting(given.ledger, fact, w.codes, aged(n), {})
      early == {d.id : d \in {x \in Range(out.dropped) : x.reason = "before start"}}
      dropped(i) == Restrict(out.fact, DOMAIN out.fact \ {i})
  IN out.ok /\ ~Ledger!DirectoryConflicts(w.people, w.accounts) =>
       /\ \A i \in DOMAIN out.fact : /\ account(dropped(i), limit + 1).lost = early \cup {i}
                                     /\ account(dropped(i), limit).inFlight = early \cup {i}
       /\ \A i \in ({99} \cup {d.id : d \in Range(out.dropped)}) \ early, r \in Range(out.fact) :
            account(i :> r @@ out.fact, limit).extra = {i}

DirectoryDamageIsSeen ==
  LET faults(units, accounts) == Api!Failing(Api!AuditStructure(units, Range(out.people), accounts, Org!Norm))
      changed(u, column, value) == (out.units \ {u}) \cup {[u EXCEPT ![column] = value]}
      said(n) == {p.unit : p \in {q \in Range(out.people) : Org!Norm(q.name) = n}}
  IN /\ \A u \in out.units : u.level > 0 => faults(changed(u, "level", u.level + 1), out.accounts) = {"LevelIsDepth"}
     /\ \A u, v \in out.units : u.id \in v.parent => "NoCycle" \in faults(changed(u, "parent", {v.id}), out.accounts)
     /\ \A n \in DOMAIN out.accounts, u \in out.units : u.id \notin said(n) =>
          "UnitFromSource" \in faults({}, [out.accounts EXCEPT ![n].unit = u.id])

ForgottenNamesAreSeen ==
  LET but(names, n) == Restrict(names, DOMAIN names \ {n})
      faults(meter, invoice, cat) == Api!Failing(Api!AuditNames(meter, invoice, cat))
      noMeasures == [measures |-> <<>>]
  IN /\ Result("meter") /\ out.ok => \A p \in DOMAIN given.files : \A r \in Range(given.files[p]) :
          "Metrics" \in faults(given.files[p], <<>>, [given.cat EXCEPT !.measures = but(@, r.metric)])
     /\ Result("invoice") /\ out.ok => \A r \in Range(given.rows) :
          /\ "Skus" \in faults(<<>>, given.rows, [given.cat EXCEPT !.kinds = but(@, r.sku)] @@ noMeasures)
          /\ "SkuModels" \in faults(<<>>, given.rows, [given.cat EXCEPT !.models = but(@, r.sku)] @@ noMeasures)

ComparisonsAreFair ==
  LET forget(rows, i, x) == [rows EXCEPT ![i][x] = {}]
      broken(calls, provider) == Api!ProviderAgrees(calls, provider).broken
      days == Api!SharedDays(given.calls, given.invoice)
      within(rows) == SelectSeq(rows, LAMBDA r : r.day \in days)
      metered(k, day(_)) == Sum({i \in DOMAIN given.meter : <<day(given.meter[i]), given.meter[i].project>> = k},
                                LAMBDA i : given.meter[i].tokens)
      invoiced(k) == Sum({i \in DOMAIN given.invoiced : <<given.invoiced[i].day, given.invoiced[i].project>> = k},
                         LAMBDA i : given.invoiced[i].tokens)
      asInvoiced(day(_)) == \A r \in Range(given.invoiced) : metered(<<r.day, r.project>>, day) = invoiced(<<r.day, r.project>>)
  IN /\ \A i \in DOMAIN given.provider, x \in Api!Axes :
          broken(given.calls, forget(given.provider, i, x)) \subseteq out.provider.broken
     /\ \A i \in DOMAIN given.calls, x \in {"in", "out"} :
          broken(forget(given.calls, i, x), given.provider) \subseteq out.provider.broken
     /\ \A n \in 0 .. Len(given.calls) : \A c \in broken(SubSeq(given.calls, 1, n), given.provider) :
          c \in out.provider.broken \/ c[2] \in Api!Unmeasured(given.calls, given.provider, c[1])
     /\ out.cache = Api!CacheAgrees(within(given.calls), within(given.invoice))
     /\ out.cache = "ok" => \E r \in Range(within(given.calls)) : r.cached # {}
     /\ ~out.timezone /\ asInvoiced(LAMBDA r : r.pacific) => \A r \in Range(given.invoiced) :
          LET k == <<r.day, r.project>> IN metered(k, LAMBDA m : m.day) \in {0, invoiced(k)}

(***************************************************************************)
(* The audit counts everything once more by queries of its own.  It and    *)
(* the programs agree: what the loads and builds accept it accepts, except *)
(* where it was not told of something the programs do, and those places    *)
(* are just these: tokens of the gateway outside service accounts, which   *)
(* it puts in two groups of coverage; accounts only the gateway has seen,  *)
(* which it puts in none; agents with many users, which have no service    *)
(* account; calls without a caller; and a day of cache hits only.  A line  *)
(* of the ledger it calls lost is one the load leaves out because it       *)
(* started too early, and no load leaves a listed person on the anchor.    *)
(* And it sees what it is for: a count changed in a daily row, an hour, a  *)
(* line of the ledger or an account gone, a row too many or in the future, *)
(* a unit misplaced, a name nobody has declared.  In the comparisons with  *)
(* others knowing less never makes it blame.  (scripts/audit_db.py)        *)
(***************************************************************************)
AuditAgrees ==
  /\ Result("page") /\ out.ok => TablesPassAudit /\ TableDamageIsSeen
  /\ Result("ledger") => LedgerPassesAudit /\ LedgerDamageIsSeen
  /\ Result("directory") /\ out # Stop => DirectoryPassesAudit /\ DirectoryDamageIsSeen
  /\ Result("meter") /\ out.ok => \A p \in DOMAIN given.files :
       Api!Failing(Api!AuditNames(given.files[p], <<>>, given.cat)) = {}
  /\ Result("invoice") /\ out.ok => Api!Failing(Api!AuditNames(<<>>, given.rows, given.cat @@ [measures |-> <<>>])) = {}
  /\ ForgottenNamesAreSeen
  /\ Result("reconcile") => ComparisonsAreFair

(***************************************************************************)
(* Administrators deploy profiles one after the other while somebody edits *)
(* the routes by hand and the gateway learns other models.  After a deploy *)
(* that was accepted: what others put into the file is there in its order; *)
(* an agent's tag leads to just the models of its profile; no route is     *)
(* there twice and none is left of a former revision; the registry and the *)
(* agents that get chat messages are as they say; each profile could       *)
(* be deployed once more, even by a gateway that lists no model any more,  *)
(* and nothing would change; and the model a verification calls is served  *)
(* by the route it names, unless it is one of a star's that the gateway    *)
(* was told to redirect.                                                   *)
(* (connection_config.py, Worker.preview)                                  *)
(***************************************************************************)
OfNobody(r) == \A i \in r.id : i[1] = 0

Foreign ==
  FoldLeft(LAMBDA kept, s :
             CASE s.kind = "add" /\ OfNobody(s.route) -> <<s.route>> \o kept
               [] s.kind = "drop" -> SelectSeq(kept, LAMBDA r : s.id \notin r.id)
               [] OTHER -> kept,
           Gateway.config.routes, Steps)

\* The gateway: a redirect first, then a route of that name, then a star.
Serving(name, tag) ==
  LET redirects == out.config.redirects
      called == IF name \in DOMAIN redirects THEN redirects[name] ELSE name
      tagged == {r \in Range(out.config.routes) : out.config.tagFiltering => tag \in r.tags}
      exact == {r \in tagged : r.name = called}
  IN IF exact # {} THEN exact
     ELSE {r \in tagged : r.name.rest = "*" /\ r.name.provider = called.provider}

RoutesAreExact ==
  Result("connections") /\ out.ok =>
    LET routes == out.config.routes
        catalog == Cfg!RoutableCatalog(out.costs, out.providers)
        tagged(c) == SelectSeq(routes, LAMBDA r : c \in r.tags)
        again(c) == Cfg!Deploy([out EXCEPT !.costs = {}], out.applied[c])
        tested(c, r) == Cfg!VerificationModel(out.applied[c], {r}, catalog)
    IN /\ SelectSeq(routes, OfNobody) = Foreign
       /\ \A i, j \in DOMAIN routes : routes[i].id \cap routes[j].id \cap out.owned # {} => i = j
       /\ \A r \in Range(routes) :
            OfNobody(r) \/ r.id \subseteq out.owned \/ \E s \in Range(Steps) : s.kind = "add" /\ s.route.id = r.id
       /\ \A c \in DOMAIN out.applied :
            LET p == out.applied[c] IN
            /\ Len(tagged(c)) = Len(p.models)
            /\ {[alias |-> r.name, upstream |-> r.model] : r \in Range(tagged(c))} = Range(p.models)
            /\ \A r \in Range(tagged(c)) : r.key = p.secret
            /\ out.registry[c].name = p.name /\ (c \in out.chat <=> p.quotaResponse = "chat")
            /\ again(c).ok /\ Range(again(c).config.routes) = Range(routes)
            /\ again(c).owned = out.owned /\ again(c).registry = out.registry
            /\ \A r \in catalog : LET v == tested(c, r) IN
                 v # Stop /\ (v.model = v.alias \/ v.model \notin DOMAIN out.config.redirects) =>
                   /\ Serving(v.model, c) # {}
                   /\ \A x \in Serving(v.model, c) : x.name = v.alias /\ x.tags = {c}
       /\ \A c \in DOMAIN Gateway.registry \ DOMAIN out.applied :
            out.registry[c] = Gateway.registry[c] /\ (c \in out.chat <=> c \in Gateway.chat)
=============================================================================
