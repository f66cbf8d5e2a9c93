---------------------------- MODULE UsageRollup ----------------------------
(***************************************************************************)
(* The tables the dashboard reads, computed from the fact tables:          *)
(* db/build_usage_daily.py, db/build_usage_hourly.py,                      *)
(* db/build_performance.py and the views usage_resolved (005) and          *)
(* latency_resolved (010).                                                 *)
(*                                                                         *)
(* db is what a build reads: the sequences billing, monitoring, calls      *)
(* (fact_call), appDaily and latencyFile (the merged CSV, {} when there is *)
(* none), and the sets accounts, agents and projects.  A build ends with   *)
(* an acceptance that reads the sources again: by then another program may *)
(* have committed, so it has a db of its own, "later".  Hours are numbers, *)
(* two to a day; a measure that is missing is {}; values of the meter are  *)
(* in tenths and are cut to whole numbers where the code calls int().      *)
(***************************************************************************)
EXTENDS Integers, Sequences, FiniteSets, SequencesExt, FiniteSetsExt

DayOf(hour) == hour \div 2
TheValue(S) == CHOOSE x \in S : TRUE
Null0(v) == IF v = {} THEN 0 ELSE TheValue(v)

\* SUM in SQL: what is missing does not count; nothing at all is missing.
SqlSum(rows, value(_)) ==
  LET given == SelectSeq(rows, LAMBDA r : value(r) # {})
  IN IF given = <<>> THEN {} ELSE {FoldLeft(LAMBDA n, r : n + TheValue(value(r)), 0, given)}

GroupBy(rows, key(_)) ==
  [k \in {key(r) : r \in Range(rows)} |-> SelectSeq(rows, LAMBDA r : key(r) = k)]

TableSum(table, source, column(_)) ==
  LET ks == SetToSeq({k \in DOMAIN table : k[5] = source})
  IN SqlSum(ks, LAMBDA k : column(table[k]))

\* The seat "whole agent" of every agent; none, or two, stop a build.
SeatsOf(accounts) == {a \in accounts : a.kind \in {"service_account", "whole_agent"}}
AnchorsOK(db) == /\ \A g \in db.agents : \E a \in SeatsOf(db.accounts) : a.agent = g
                 /\ \A a, b \in SeatsOf(db.accounts) : a.agent = b.agent => a = b
Anchor(db, agent) == (CHOOSE a \in SeatsOf(db.accounts) : a.agent = agent).id

Measures(calls, tokens, in, out, cached, cost) ==
  [calls |-> calls, tokens |-> tokens, in |-> in, out |-> out, cached |-> cached, cost |-> cost]

(***************************************************************************)
(* The four sources of fact_usage_daily; the key is <<day, agent, model,   *)
(* account, source>>, and a row without a model has no place in it.  when  *)
(* is the day or the hour a row falls into.                                *)
(***************************************************************************)
BillingRows(db) ==
  LET of(g, kind) == {FoldLeft(LAMBDA n, r : n + IF r.kind = kind THEN r.quantity ELSE 0, 0, g)}
      groups == GroupBy(db.billing, LAMBDA r : <<r.day, r.agent, r.model, Anchor(db, r.agent), "billing">>)
      line(g) == Measures({}, SqlSum(g, LAMBDA r : {r.quantity}), of(g, "input"), of(g, "output"),
                          of(g, "cached"), SqlSum(g, LAMBDA r : {r.cost}))
  IN [k \in DOMAIN groups |-> line(groups[k])]

\* monitoring_ai, by what the metric measures; the sums are cut, not the values.
MonitoringRows(db, when(_)) ==
  LET used == SelectSeq(db.monitoring, LAMBDA r : r.service = "ai" /\ r.model # {} /\ r.measures \in {"token", "calls"})
      groups == GroupBy(used, LAMBDA r : <<when(r), r.agent, TheValue(r.model), Anchor(db, r.agent), "monitoring">>)
      cut(g, measures, kinds) ==
        LET mine == SelectSeq(g, LAMBDA r : r.measures = measures /\ r.kind \in kinds)
        IN {n \div 10 : n \in SqlSum(mine, LAMBDA r : {r.value})}
      any == {"input", "output", "none"}
      line(g) == Measures(cut(g, "calls", any), cut(g, "token", any), cut(g, "token", {"input"}),
                          cut(g, "token", {"output"}), {}, {})
  IN [k \in DOMAIN groups |-> line(groups[k])]

CallRows(db, source, when(_), kept(_), priced) ==
  LET used == SelectSeq(db.calls, LAMBDA r : r.source = source /\ r.model # {} /\ kept(r))
      groups == GroupBy(used, LAMBDA r : <<when(r), r.agent, TheValue(r.model), r.account, source>>)
      line(g) == Measures({Len(g)}, SqlSum(g, LAMBDA r : r.tokens), SqlSum(g, LAMBDA r : r.in),
                          SqlSum(g, LAMBDA r : r.out), SqlSum(g, LAMBDA r : r.cached),
                          IF priced THEN SqlSum(g, LAMBDA r : r.cost) ELSE {})
  IN [k \in DOMAIN groups |-> line(groups[k])]

\* Variant: NOT cache_hit, which NULL does not pass.
Billable_NotHit(r) == r.outcome = "success" /\ r.hit = {FALSE}

\* A failed call and one served from the cache are not usage; an unknown hit is.
Billable(r) == r.outcome = "success" /\ r.hit # {TRUE}

AppDailyRows(db) ==
  LET used == SelectSeq(db.appDaily, LAMBDA r : r.model # {})
      groups == GroupBy(used, LAMBDA r : <<r.day, r.agent, TheValue(r.model), r.account, "app">>)
      line(g) == Measures(SqlSum(g, LAMBDA r : r.calls), SqlSum(g, LAMBDA r : r.tokens),
                          SqlSum(g, LAMBDA r : r.in), SqlSum(g, LAMBDA r : r.out), {}, {})
  IN [k \in DOMAIN groups |-> line(groups[k])]

DailyTable(db) ==
  LET day(r) == DayOf(r.hour)
  IN BillingRows(db) @@ MonitoringRows(db, day)
       @@ CallRows(db, "app", day, LAMBDA r : TRUE, FALSE) @@ AppDailyRows(db)
       @@ CallRows(db, "gateway", day, Billable, TRUE)

(***************************************************************************)
(* The acceptance of the daily table.                                      *)
(***************************************************************************)
TokensIn(rows, used(_)) == Null0(SqlSum(SelectSeq(rows, LAMBDA r : r.model # {} /\ used(r)), LAMBDA r : r.tokens))

SourcesOf(table) == {k[5] : k \in DOMAIN table}

Required(db) ==
  {s \in {"billing", "monitoring", "app"} :
     \/ s = "billing" /\ db.billing # <<>>
     \/ s = "monitoring" /\ db.monitoring # <<>>
     \/ s = "app" /\ (db.appDaily # <<>> \/ \E r \in Range(db.calls) : r.source = "app")}

\* What total and parts of the app's own records differ by.
SourceConflict(db) ==
  LET gap(rows) == Null0(SqlSum(rows, LAMBDA r : r.tokens)) - Null0(SqlSum(rows, LAMBDA r : r.in))
                     - Null0(SqlSum(rows, LAMBDA r : r.out))
  IN gap(SelectSeq(db.calls, LAMBDA r : r.source = "app" /\ r.model # {}))
     + gap(SelectSeq(db.appDaily, LAMBDA r : r.model # {}))

PartsAddUp(table, source, cachedToo, allowed) ==
  LET total(column(_)) == Null0(TableSum(table, source, column))
  IN total(LAMBDA m : m.tokens) - total(LAMBDA m : m.in) - total(LAMBDA m : m.out)
       - (IF cachedToo THEN total(LAMBDA m : m.cached) ELSE 0) = allowed

DailyAccepted(table, later) ==
  LET gateway == TableSum(table, "gateway", LAMBDA m : m.tokens)
  IN /\ Null0(TableSum(table, "billing", LAMBDA m : m.cost)) = Null0(SqlSum(later.billing, LAMBDA r : {r.cost}))
     /\ Null0(TableSum(table, "app", LAMBDA m : m.tokens))
          = TokensIn(later.calls, LAMBDA r : r.source = "app") + TokensIn(later.appDaily, LAMBDA r : TRUE)
     /\ Required(later) \subseteq SourcesOf(table)
     /\ gateway # {} => TheValue(gateway)
          = TokensIn(later.calls, LAMBDA r : r.source = "gateway" /\ r.outcome = "success")
     /\ PartsAddUp(table, "billing", TRUE, 0)
     /\ PartsAddUp(table, "monitoring", FALSE, 0)
     /\ PartsAddUp(table, "app", FALSE, SourceConflict(later))

BuildDaily(db, later, old) ==
  LET tried(table) == IF DailyAccepted(table, later) THEN [table |-> table, ok |-> TRUE] ELSE [table |-> old, ok |-> FALSE]
  IN IF AnchorsOK(db) THEN tried(DailyTable(db)) ELSE [table |-> old, ok |-> FALSE]

(***************************************************************************)
(* By the hour: no invoice, and of the apps only the one with single calls.*)
(* Committed before it is compared with the daily table of the moment.     *)
(***************************************************************************)
HourlyTable(db) ==
  LET hour(r) == r.hour
  IN CallRows(db, "app", hour, LAMBDA r : TRUE, FALSE)
       @@ CallRows(db, "gateway", hour, Billable, TRUE) @@ MonitoringRows(db, hour)

CompareWithDaily(hourly, daily, later) ==
  LET total(table, s, column(_)) == Null0(TableSum(table, s, column))
      app == SelectSeq(later.calls, LAMBDA r : r.source = "app" /\ r.model # {})
      same(s, column(_)) == total(hourly, s, column) = total(daily, s, column)
  IN /\ \A s \in {"gateway", "monitoring"} : same(s, LAMBDA m : m.tokens) /\ same(s, LAMBDA m : m.calls)
     /\ total(hourly, "app", LAMBDA m : m.tokens) = Null0(SqlSum(app, LAMBDA r : r.tokens))
     /\ total(hourly, "app", LAMBDA m : m.calls) = Len(app)

BuildHourly(db, daily, later, old) ==
  LET compared(table) == [table |-> table, ok |-> "billing" \notin SourcesOf(table) /\ CompareWithDaily(table, daily, later)]
  IN IF AnchorsOK(db) THEN compared(HourlyTable(db)) ELSE [table |-> old, ok |-> FALSE]

(***************************************************************************)
(* Performance: answers by code, and latencies of two kinds.  The meter's  *)
(* come merged from a file, the gateway's are exact: the q-th percentile   *)
(* of n ordered values lies q percent of the way from the first to the     *)
(* last, between two of them (in hundredths).                              *)
(***************************************************************************)
MinSamples == 10

PerfUsed(db) == SelectSeq(db.monitoring, LAMBDA r : r.measures = "calls" /\ r.service = "ai"
                                                    /\ r.method # {} /\ r.code # {})

CallCounts(db) ==
  LET groups == GroupBy(PerfUsed(db), LAMBDA r : <<DayOf(r.hour), r.agent, r.method, r.code>>)
  IN [k \in DOMAIN groups |-> TheValue(SqlSum(groups[k], LAMBDA r : {r.value})) \div 10]

PercentileCont(values, q) ==
  LET n == Len(values)
      ordered == SortSeq(values, LAMBDA a, b : a < b)
      at == q * (n - 1)
      i == 1 + at \div 100
      next == IF i < n THEN ordered[i + 1] ELSE ordered[i]
  IN ordered[i] * (100 - (at % 100)) + next * (at % 100)

GatewayLatency(db) ==
  LET timed == SelectSeq(db.calls, LAMBDA r : r.source = "gateway" /\ r.duration # {} /\ r.hit # {TRUE})
      groups == GroupBy(timed, LAMBDA r : <<DayOf(r.hour), r.agent, "gateway">>)
      line(g) == LET ms == [i \in DOMAIN g |-> TheValue(g[i].duration)]
                 IN [samples |-> Len(g), p50 |-> {PercentileCont(ms, 50)}, p95 |-> {PercentileCont(ms, 95)},
                     p99 |-> {PercentileCont(ms, 99)}, from |-> {}, to |-> {},
                     enough |-> Len(g) >= MinSamples]
  IN [k \in DOMAIN groups |-> line(groups[k])]

FileLatency(db) ==
  LET known == SelectSeq(TheValue(db.latencyFile), LAMBDA r : r.project \in DOMAIN db.projects)
      line(r) == [samples |-> r.samples, p50 |-> r.p50, p95 |-> r.p95, p99 |-> r.p99,
                  from |-> r.from, to |-> r.to, enough |-> r.samples >= MinSamples]
  IN [k \in {<<r.day, db.projects[r.project], "monitoring">> : r \in Range(known)} |->
        line(TheValue({r \in Range(known) : <<r.day, db.projects[r.project], "monitoring">> = k}))]

InOrder(a, b) == \A x \in a, y \in b : x <= y

LatencyAccepted(table) ==
  /\ \E k \in DOMAIN table : k[3] = "monitoring"
  /\ \A k \in DOMAIN table : LET m == table[k] IN
       /\ k[3] = "gateway" => m.from = {} /\ m.to = {}
       /\ InOrder(m.from, m.p95) /\ (m.from # {} => InOrder(m.p95, m.to))
       /\ InOrder(m.p50, m.p95) /\ InOrder(m.p95, m.p99)

BuildPerformance(db, later, old) ==
  LET table == FileLatency(db) @@ GatewayLatency(db)
      rows == TheValue(db.latencyFile)
      keys == {<<r.day, r.project>> : r \in Range(rows)}
      calls(d) == Null0(SqlSum(PerfUsed(d), LAMBDA r : {r.value})) \div 10
  IN IF db.latencyFile = {} \/ Cardinality(keys) # Len(rows) THEN [old EXCEPT !.ok = FALSE]
     ELSE IF /\ \A r \in Range(rows) : r.project \in DOMAIN db.projects
             /\ DOMAIN CallCounts(db) # {}    \* the sum of no rows is NULL, which int() refuses
             /\ FoldLeft(LAMBDA n, k : n + CallCounts(db)[k], 0, SetToSeq(DOMAIN CallCounts(db))) = calls(later)
             /\ LatencyAccepted(table)
          THEN [perf |-> CallCounts(db), latency |-> table, ok |-> TRUE]
     ELSE [old EXCEPT !.ok = FALSE]

\* --gateway-only: the other source is left alone, or nothing is changed.
BuildGatewayOnly(db, old) ==
  LET others == [k \in {j \in DOMAIN old.latency : j[3] # "gateway"} |-> old.latency[k]]
  IN [old EXCEPT !.latency = others @@ GatewayLatency(db), !.ok = TRUE]

(***************************************************************************)
(* The views: one number for each day, agent and model, chosen and never   *)
(* mixed; the order for money differs from the order for tokens.           *)
(***************************************************************************)
BySource(daily, key, source) ==
  LET ks == SetToSeq({k \in DOMAIN daily : <<k[1], k[2], k[3]>> = key /\ k[5] = source})
      sum(column(_)) == SqlSum(ks, LAMBDA k : column(daily[k]))
  IN Measures(sum(LAMBDA m : m.calls), sum(LAMBDA m : m.tokens), sum(LAMBDA m : m.in), sum(LAMBDA m : m.out),
              sum(LAMBDA m : m.cached), sum(LAMBDA m : m.cost))

FirstWith(order, given(_)) ==
  LET having == SelectSeq(order, given) IN IF having = <<>> THEN "none" ELSE having[1]

UsageRow(of) ==
  LET t == FirstWith(<<"gateway", "billing", "monitoring", "app">>, LAMBDA s : of[s].tokens # {})
      c == FirstWith(<<"gateway", "monitoring", "app">>, LAMBDA s : of[s].calls # {})
      m == FirstWith(<<"billing", "gateway">>, LAMBDA s : of[s].cost # {})
      parts == IF t = "none" THEN of["app"] ELSE of[t]
  IN [tokens |-> parts.tokens, in |-> parts.in, out |-> parts.out, cached |-> parts.cached,
      cost |-> of[m].cost, calls |-> of[c].calls, tokenSource |-> t, callSource |-> c,
      estimated |-> of["billing"].tokens = {}]

UsageResolved(daily) ==
  [key \in {<<k[1], k[2], k[3]>> : k \in DOMAIN daily} |->
     UsageRow([s \in {"gateway", "billing", "monitoring", "app", "none"} |-> BySource(daily, key, s)])]

LatencyResolved(latency) ==
  [key \in {<<k[1], k[2]>> : k \in DOMAIN latency} |->
     LET m == key \o <<"monitoring">> IN
     IF m \in DOMAIN latency THEN [source |-> "monitoring"] @@ latency[m]
     ELSE [source |-> "gateway"] @@ latency[key \o <<"gateway">>]]
==========================================================================
