------------------------------- MODULE Audit -------------------------------
(***************************************************************************)
(* scripts/audit_db.py: an account of the tables by queries of its own.    *)
(* A group of checks is a function from the name of a check to whether it  *)
(* holds; a check that has no row to look at is told apart in the report   *)
(* and fails nothing.  st is as in ReadApi, with the day it is "today"; the*)
(* ledger's lines are as in LedgerRows.  Left out are the checks that only *)
(* ever give a note, and of those that fail the ones about what these      *)
(* tables do not carry or cannot differ in: how many foreign keys there    *)
(* are, the names of service accounts, the raw model, the virtual key and  *)
(* the unit a gateway row must have, the method and the code of its        *)
(* answers, minutes inside an hour, two rows of one key in a table that is *)
(* a function of it, and whether the old view by person has rows.          *)
(***************************************************************************)
EXTENDS ReadApi

Failing(checks) == {c \in DOMAIN checks : ~checks[c]}

Total(rows, used(_), value(_)) == Null0(SqlSum(SelectSeq(rows, used), value))
TableTotal(table, source, column(_)) == Null0(TableSum(table, source, column))
IsGateway(r) == r.source = "gateway"

(***************************************************************************)
(* A. What a row names is there.  The tree of units: no unit above itself, *)
(* every level its depth (0 is the place of what belongs nowhere).  The    *)
(* unit of a person's account is one that a row of the directory says.     *)
(***************************************************************************)
AuditReferences(st) ==
  LET keys == DOMAIN st.daily \cup DOMAIN st.hourly
      rows == Range(st.calls) \cup Range(st.appDaily) \cup st.people
  IN [References |->
        /\ {k[4] : k \in keys} \cup {r.account : r \in rows} \subseteq {a.id : a \in st.accounts}
        /\ {k[2] : k \in keys \cup DOMAIN st.perf \cup DOMAIN st.latency} \subseteq st.agents
        /\ {r.agent : r \in rows \cup Range(st.billing) \cup Range(st.monitoring) \cup st.accounts \cup st.units} \subseteq st.agents]

Above(units, up) == {v.id : v \in {w \in units : \E u \in units : u.id \in up /\ w.id \in u.parent}}

Ancestors(units, id) ==
  LET climb[n \in 0 .. Cardinality(units)] == IF n = 0 THEN {id} ELSE Above(units, climb[n - 1])
  IN UNION {climb[n] : n \in 1 .. Cardinality(units)}

InCycle(units, id) == \E v \in Ancestors(units, id) : v \in Ancestors(units, v)

\* accounts: login name -> account, of people only.
AuditStructure(units, people, accounts, spelling(_)) ==
  [UnitFromSource |-> \A u \in DOMAIN accounts : \E p \in people : spelling(p.name) = u /\ p.unit = accounts[u].unit,
   NoCycle |-> \A u \in units : ~InCycle(units, u.id),
   LevelIsDepth |-> \A u \in units : ~InCycle(units, u.id) => u.level \in {0, 1 + Cardinality(Ancestors(units, u.id))}]

(***************************************************************************)
(* B. Money and tokens are the same at every layer.                        *)
(***************************************************************************)
AuditTotals(st, view) ==
  LET invoiced == {SubSeq(k, 1, 3) : k \in {j \in DOMAIN st.daily : j[5] = "billing"}}
      uninvoiced == SetToSeq({k \in DOMAIN st.daily : k[5] = "gateway" /\ SubSeq(k, 1, 3) \notin invoiced})
      modelled(r) == r.model # {}
  IN [Cost |-> Total(st.billing, LAMBDA r : TRUE, LAMBDA r : {r.cost}) + Null0(SqlSum(uninvoiced, LAMBDA k : st.daily[k].cost))
                 = Null0(SqlSum(SetToSeq(DOMAIN view), LAMBDA k : view[k].cost)),
      AppTokens |-> Total(st.calls, LAMBDA r : modelled(r) /\ r.source = "app", LAMBDA r : r.tokens)
                      + Total(st.appDaily, modelled, LAMBDA r : r.tokens) = TableTotal(st.daily, "app", LAMBDA m : m.tokens),
      InvoiceTokens |-> Total(st.billing, LAMBDA r : TRUE, LAMBDA r : {r.quantity}) = TableTotal(st.daily, "billing", LAMBDA m : m.tokens),
      Verbatim |-> \A k \in DOMAIN view : view[k].tokens = BySource(st.daily, k, view[k].tokenSource).tokens]

(***************************************************************************)
(* C. What the meter and the invoice name is in the catalogue, and a row   *)
(* is a limit exactly if the catalogue says so.                            *)
(***************************************************************************)
AuditNames(monitoring, invoice, cat) ==
  [Metrics |-> \A r \in Range(monitoring) : r.metric \in DOMAIN cat.measures,
   Skus |-> \A r \in Range(invoice) : r.sku \in DOMAIN cat.kinds,
   SkuModels |-> \A r \in Range(invoice) : r.sku \in DOMAIN cat.models,
   Limits |-> \A r \in Range(monitoring) : r.metric \in DOMAIN cat.measures =>
                r.metric.limit = (cat.measures[r.metric] = "quota_limit")]

(***************************************************************************)
(* D. What goes missing without a word: the three groups of coverage are   *)
(* counted afresh here, with the last one by the name of a source.         *)
(***************************************************************************)
AuditCoverage(st, view) ==
  LET c == Coverage(st, view)
      gap == TokensWhere(view, LAMBDA k : k[2] \notin ServiceAgents(st) /\ view[k].tokenSource # "app")
      undirected == {g \in st.agents : ListedFor(st, g) = {}}
  IN [Coverage |-> c.people + c.service + gap = TokensWhere(view, LAMBDA k : TRUE),
      ServiceAccounts |-> Cardinality({a \in st.accounts : a.kind = "service_account"}) = Cardinality(undirected)]

AuditGatewayRows(st) ==
  LET nobody == {a.id : a \in {x \in st.accounts : x.kind \in {"unattributed", "whole_agent"}}}
      table == TableTotal(st.daily, "gateway", LAMBDA m : m.tokens)
      succeeded(r) == IsGateway(r) /\ r.outcome = "success" /\ r.model # {}
      tokens(used(_)) == Total(st.calls, used, LAMBDA r : r.tokens)
      some == \E r \in Range(st.calls) : IsGateway(r)
  IN [Resolve |-> \A k \in DOMAIN st.daily : k[5] = "gateway" => k[4] \notin nobody,
      NoFailedCalls |-> some => table = tokens(succeeded),
      NoCacheHits |-> some => table = tokens(LAMBDA r : succeeded(r) /\ r.hit # {TRUE}),
      Outcomes |-> \A r \in Range(st.calls) : r.outcome \in {"success", "failure"},
      Durations |-> \A r \in Range(st.calls) : r.duration # {0}]

\* Clocks may be hours apart: tomorrow is not the future yet.
AuditDates(st) ==
  LET days == {k[1] : k \in DOMAIN st.daily} \cup {DayOf(k[1]) : k \in DOMAIN st.hourly} \cup {r.day : r \in Range(st.billing)}
                \cup {DayOf(r.hour) : r \in Range(st.calls) \cup Range(st.monitoring)}
  IN [NoFuture |-> \A d \in days : d <= st.today + 1]

(***************************************************************************)
(* E. Everybody who counts as using an agent was given it.                 *)
(***************************************************************************)
AuditAdoption(st) ==
  LET active(g) == (UsersOf(st, g) \cap ListedFor(st, g)) \ SharedIds(st)
      appKey(r) == <<r.day, r.agent, r.account, r.model>>
  IN [Denominator |-> \A g \in st.agents : ListedFor(st, g) # {} \/ \E a \in SeatsOf(st.accounts) : a.agent = g,
      NeverOver |-> \A g \in st.agents : Cardinality(active(g)) <= Cardinality(ListedFor(st, g) \ SharedIds(st)),
      AppKeys |-> Cardinality({appKey(r) : r \in Range(st.appDaily)}) = Len(st.appDaily)]

(***************************************************************************)
(* F. By the hour, source by source, and percentiles of two kinds.         *)
(***************************************************************************)
AuditHourly(st) ==
  LET same(s) == /\ TableTotal(st.hourly, s, LAMBDA m : m.tokens) = TableTotal(st.daily, s, LAMBDA m : m.tokens)
                 /\ TableTotal(st.hourly, s, LAMBDA m : m.calls) = TableTotal(st.daily, s, LAMBDA m : m.calls)
      of(s) == {k \in DOMAIN st.latency : k[3] = s}
  IN [GatewayHours |-> same("gateway"), MeterHours |-> same("monitoring"),
      AppHours |-> TableTotal(st.hourly, "app", LAMBDA m : m.tokens)
                     = Total(st.calls, LAMBDA r : r.source = "app" /\ r.model # {}, LAMBDA r : r.tokens),
      NoInvoiceHours |-> "billing" \notin SourcesOf(st.hourly),
      ExactHasNoBucket |-> \A k \in of("gateway") : st.latency[k].from = {} /\ st.latency[k].to = {},
      BucketKept |-> \A k \in of("monitoring") : st.latency[k].p95 # {} => st.latency[k].from # {},
      InBucket |-> \A k \in DOMAIN st.latency : LET m == st.latency[k] IN
                     /\ InOrder(m.p50, m.p95) /\ InOrder(m.p95, m.p99)
                     /\ InOrder(m.from, m.p95) /\ InOrder(m.p95, m.to)]

(***************************************************************************)
(* G. By account: the same totals, every agent, and the groups of health   *)
(* once more, by the kind of account.  The derived tables reach the newest *)
(* day of the rows they accept.                                            *)
(***************************************************************************)
AuditAccounts(st, view, byAccount) ==
  LET sum(table, column(_)) == Null0(SqlSum(SetToSeq(DOMAIN table), LAMBDA k : column(table[k])))
      kinds(K) == {a.id : a \in {x \in st.accounts : x.kind \in K}}
      held(K) == TokensWhere(byAccount, LAMBDA k : k[4] \in kinds(K))
  IN [Tokens |-> sum(byAccount, LAMBDA m : m.tokens) = sum(view, LAMBDA m : m.tokens),
      Calls |-> sum(byAccount, LAMBDA m : m.calls) = sum(view, LAMBDA m : m.calls),
      Agents |-> {k[2] : k \in DOMAIN byAccount} = {k[2] : k \in DOMAIN view},
      People |-> held({"real", "unattributed"}) = Coverage(st, view).people,
      Service |-> held({"service_account"}) = Coverage(st, view).service,
      Opaque |-> held({"whole_agent"}) = Coverage(st, view).opaque]

AuditFreshness(st) ==
  LET resolved == LatencyResolved(st.latency)
      newest(days) == IF days = {} THEN {} ELSE {Max(days)}
      upstream(used(_)) == newest({DayOf(r.hour) : r \in {x \in Range(st.calls) : IsGateway(x) /\ x.hit # {TRUE} /\ used(x)}})
      derived(table, at, day(_)) == newest({day(k[1]) : k \in {j \in DOMAIN table : j[at] = "gateway"}})
      fresh(up, down) == up # {} => down = up
  IN [OneLatency |-> DOMAIN resolved = {SubSeq(k, 1, 2) : k \in DOMAIN st.latency},
      WholeLatency |-> \A k \in DOMAIN resolved : resolved[k].p95 = {} <=> resolved[k].p50 = {},
      HoursFresh |-> fresh(upstream(LAMBDA r : r.outcome = "success" /\ r.model # {}), derived(st.hourly, 5, DayOf)),
      LatencyFresh |-> fresh(upstream(LAMBDA r : r.duration # {}), derived(st.latency, 3, SameDay))]

\* Calls of people their agent lists are not on the agent's anchor.
AuditDirectory(rows, people, accounts, spelling(_)) ==
  [OwnAccount |-> \A r \in rows : \A u \in r.user :
     (\E p \in people : p.agent = r.agent /\ p.listed /\ ~p.technical /\ spelling(p.name) = spelling(u))
       => ~\E a \in accounts : a.agent = r.agent /\ a.kind \in {"service_account", "whole_agent"} /\ a.id = r.account]

\* All that is asked of the tables of one database.
AuditViews(st, view, byAccount) ==
  Failing(AuditReferences(st)) \cup Failing(AuditTotals(st, view)) \cup Failing(AuditCoverage(st, view))
    \cup Failing(AuditGatewayRows(st)) \cup Failing(AuditDates(st)) \cup Failing(AuditAdoption(st)) \cup Failing(AuditHourly(st)) \cup Failing(AuditAccounts(st, view, byAccount))
    \cup Failing(AuditFreshness(st))
AuditTables(st) == AuditViews(st, UsageResolved(st.daily), UsageByAccountResolved(st.daily))

(***************************************************************************)
(* H. Cached tokens of the gateway against the invoice's, on the days both *)
(* report and only if the gateway measured any; one percent may differ.    *)
(***************************************************************************)
SharedDays(calls, others) == {r.day : r \in Range(calls)} \cap {r.day : r \in Range(others)}

CacheAgrees(calls, invoice) ==
  LET days == SharedDays(calls, invoice)
      on(rows) == SelectSeq(rows, LAMBDA r : r.day \in days)
      pairs == {<<r.day, r.agent>> : r \in Range(on(calls)) \cup Range(on(invoice))}
      of(rows, p) == Total(rows, LAMBDA r : <<r.day, r.agent>> = p, LAMBDA r : r.cached)
      gap(p) == of(calls, p) - of(invoice, p)
      larger(p) == Max({of(calls, p), of(invoice, p)})
  IN IF days = {} \/ \A r \in Range(on(calls)) : r.cached = {} THEN "not checked"
     ELSE IF \E p \in pairs : 100 * Max({gap(p), -gap(p)}) > larger(p) THEN "FAIL" ELSE "ok"

(***************************************************************************)
(* I. The ledger against the provider's own count, day by day on three     *)
(* axes.  An axis with a missing value is left out for that day; the       *)
(* ledger may not count more than the provider served.                     *)
(***************************************************************************)
Axes == {"requests", "in", "out"}

\* Variant: a number the provider does not give counts as 0.
Unmeasured_OursOnly(calls, provider, d) ==
  {x \in Axes : x # "requests" /\ \E r \in Range(calls) : r.day = d /\ r[x] = {}}

Unmeasured(calls, provider, d) ==
  {x \in Axes : \/ \E r \in Range(provider) : r.day = d /\ r[x] = {}
                \/ x # "requests" /\ \E r \in Range(calls) : r.day = d /\ r[x] = {}}

ProviderAgrees(calls, provider) ==
  LET asked(x, r) == IF x = "requests" THEN {1} ELSE r[x]
      ours(d, x) == Total(calls, LAMBDA r : r.day = d, LAMBDA r : asked(x, r))
      theirs(d, x) == Total(provider, LAMBDA r : r.day = d, LAMBDA r : r[x])
      compared == UNION {{<<d, x>> : x \in Axes \ Unmeasured(calls, provider, d)} : d \in SharedDays(calls, provider)}
  IN [compared |-> compared,
      broken |-> {c \in compared : ours(c[1], c[2]) > theirs(c[1], c[2])},
      short |-> {c \in compared : ours(c[1], c[2]) < theirs(c[1], c[2])}]

\* Days of the invoice are Pacific days: moved there, the meter must be nearer to it.
TimezoneAgrees(meter, invoice) ==
  LET local(r) == r.day
      pacific(r) == r.pacific
      edges == {pacific(r) : r \in Range(meter)}
      inner(d) == d > Min(edges) /\ d < Max(edges)
      keys(day(_)) == {<<day(r), r.project>> : r \in {m \in Range(meter) : inner(day(m))}}
      off(day(_), k) == Total(meter, LAMBDA r : <<day(r), r.project>> = k, LAMBDA r : {r.tokens})
                          - Total(invoice, LAMBDA r : <<r.day, r.project>> = k, LAMBDA r : {r.tokens})
      both(day(_)) == {k \in keys(day) : \E r \in Range(invoice) : <<r.day, r.project>> = k}
      gap(day(_)) == FoldSet(LAMBDA k, n : n + Max({off(day, k), -off(day, k)}), 0, both(day))
  IN edges = {} \/ both(pacific) = {} \/ gap(pacific) < gap(local)

(***************************************************************************)
(* J. Every line of the source ledger is loaded or left out for a reason.  *)
(* A line that could be loaded has the refresh interval, three times and a *)
(* minute, to arrive.                                                      *)
(***************************************************************************)
RefreshInterval(every) == IF every = {} THEN 300 ELSE TheValue(every)

RowAccounting(ledger, fact, codes, age, every) ==
  LET tags(l) == Len(SelectSeq(l.tags, LAMBDA t : t \in DOMAIN codes))
      loadable == {l.id : l \in {x \in Range(ledger) : ~x.copy /\ tags(x) = 1}}
      missing == loadable \ DOMAIN fact
      limit == 3 * RefreshInterval(every) + 60
  IN [lost |-> {i \in missing : age[i] > limit}, inFlight |-> {i \in missing : age[i] <= limit},
      extra |-> DOMAIN fact \ loadable]
==========================================================================
