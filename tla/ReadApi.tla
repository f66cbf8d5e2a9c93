------------------------------ MODULE ReadApi ------------------------------
(***************************************************************************)
(* What the dashboard shows: the queries of backend/store.py and           *)
(* backend/gateway_identities.py over the tables of UsageRollup, the view  *)
(* usage_by_account_resolved (009), and the page that web/js/api.js makes  *)
(* of the answers.                                                         *)
(*                                                                         *)
(* st is the database: what a build reads (see UsageRollup), the tables    *)
(* daily, hourly, perf and latency, and                                    *)
(*   people     rows of dim_user [agent, account, foundIn, technical],     *)
(*   accounts   [id, kind, agent, shared],  units  [id, agent, level,      *)
(*   technical, placeholder],  budgets  [agent, month, usd],               *)
(*   policies   user mode of a registered agent,                           *)
(*   heartbeat  [readable, row]: row is {} for none, or {[age, every]}.    *)
(***************************************************************************)
EXTENDS UsageRollup

CONSTANT MergedAgents   \* agents shown as another one: source -> target

KnowsUser == {"app", "gateway"}   \* ref_source.knows_user

Before(a, b) == \E i \in DOMAIN a : a[i] < b[i] /\ \A j \in 1 .. i - 1 : a[j] = b[j]
Ordered(keys) == SetToSortSeq(keys, Before)

KeysOf(table, from, to, day(_)) == {k \in DOMAIN table : day(k[1]) \in from .. to}
SameDay(d) == d

AgentMerge(st) ==
  [a \in {s \in DOMAIN MergedAgents : {s, MergedAgents[s]} \subseteq st.agents} |-> MergedAgents[a]]
Shown(st, agent) == IF agent \in DOMAIN AgentMerge(st) THEN AgentMerge(st)[agent] ELSE agent

(***************************************************************************)
(* The catalogue.                                                          *)
(***************************************************************************)
Agents(st) ==
  LET latest(a) == {b \in st.budgets : b.agent = a /\ \A c \in st.budgets : c.agent = a => c.month <= b.month}
  IN {[id |-> a, budget |-> {b.usd : b \in latest(a)}] : a \in st.agents \ DOMAIN AgentMerge(st)}

ListedFor(st, agent) == {p.account : p \in {q \in st.people : q.agent = agent /\ q.foundIn = "directory"}}

\* People only; each with every agent that lists them, and always their own.
Accounts(st) ==
  LET listing(id) == {p.agent : p \in {q \in st.people : q.account = id /\ q.foundIn = "directory" /\ ~q.technical}}
  IN {[id |-> a.id, agent |-> a.agent, agents |-> listing(a.id) \cup {a.agent},
       inDirectory |-> \E g \in st.agents : a.id \in ListedFor(st, g)] :
        a \in {x \in st.accounts : x.kind = "real"}}

UsersOf(st, agent) == {k[4] : k \in {j \in DOMAIN st.daily : j[2] = agent /\ j[5] \in KnowsUser}}
SharedIds(st) == {a.id : a \in {x \in st.accounts : x.shared}}
RealIds(st) == {a.id : a \in {x \in st.accounts : x.kind = "real"}}

\* How many of the accounts an agent has ever made a request.
AdoptionRow(st, agent) ==
  LET listed == ListedFor(st, agent)
      given == listed \ SharedIds(st)
      outside == Cardinality((UsersOf(st, agent) \cap RealIds(st)) \ (listed \cup SharedIds(st)))
      row(kind, provisioned, active) == [kind |-> kind, provisioned |-> provisioned, active |-> active,
                                         outside |-> outside, shared |-> Cardinality(listed \cap SharedIds(st))]
  IN IF agent \in DOMAIN st.policies /\ st.policies[agent] = "multiple" THEN row("gateway_observed", {}, {})
     ELSE IF given # {} THEN row("people", {Cardinality(given)}, {Cardinality(UsersOf(st, agent) \cap given)})
     ELSE row("service", {1}, {IF \E k \in DOMAIN st.daily : k[2] = agent THEN 1 ELSE 0})

Adoption(st) == [g \in st.agents \ DOMAIN AgentMerge(st) |-> AdoptionRow(st, g)]

(***************************************************************************)
(* Usage.  The rows of a merged agent keep their place and change name.    *)
(***************************************************************************)
UsageOf(st, view, from, to) ==
  LET keys == Ordered(KeysOf(view, from, to, SameDay))
  IN [i \in DOMAIN keys |-> [day |-> keys[i][1], agent |-> Shown(st, keys[i][2]), model |-> keys[i][3]] @@ view[keys[i]]]

Usage(st, from, to) == UsageOf(st, UsageResolved(st.daily), from, to)

UsageHourly(st, from, to) ==
  [k \in KeysOf(st.hourly, from, to, DayOf) |-> [agent |-> Shown(st, k[2])] @@ st.hourly[k]]

\* Variant: both columns taken from the source chosen for the tokens.
UsageByAccountResolved_OneJoin(daily) ==
  LET view == UsageResolved(daily)
  IN [j \in {SubSeq(k, 1, 4) : k \in {x \in DOMAIN daily : x[5] = view[SubSeq(x, 1, 3)].tokenSource}} |->
        LET s == view[SubSeq(j, 1, 3)].tokenSource
        IN [tokens |-> daily[Append(j, s)].tokens, calls |-> daily[Append(j, s)].calls,
            in |-> daily[Append(j, s)].in, out |-> daily[Append(j, s)].out,
            cached |-> daily[Append(j, s)].cached, tokenSource |-> s, callSource |-> s]]

\* Tokens from the source chosen for tokens, calls from the one chosen for calls, joined outer.
AccountRows(daily, view) ==
  LET chosen(k) == view[SubSeq(k, 1, 3)]
      row(j) == LET t == Append(j, chosen(j).tokenSource)
                    c == Append(j, chosen(j).callSource)
                    given(k, value(_)) == IF k \in DOMAIN daily THEN value(daily[k]) ELSE {}
                IN [tokens |-> given(t, LAMBDA m : m.tokens), in |-> given(t, LAMBDA m : m.in),
                    out |-> given(t, LAMBDA m : m.out), cached |-> given(t, LAMBDA m : m.cached),
                    calls |-> given(c, LAMBDA m : m.calls),
                    tokenSource |-> IF t \in DOMAIN daily THEN t[5] ELSE "none",
                    callSource |-> IF c \in DOMAIN daily THEN c[5] ELSE "none"]
      joined == {SubSeq(k, 1, 4) : k \in {x \in DOMAIN daily : x[5] \in {chosen(x).tokenSource, chosen(x).callSource}}}
  IN [j \in joined |-> row(j)]

UsageByAccountResolved(daily) == AccountRows(daily, UsageResolved(daily))

UsageByAccount(st, from, to) ==
  LET renamed(view) == [k \in KeysOf(view, from, to, SameDay) |-> [agent |-> Shown(st, k[2])] @@ view[k]]
  IN renamed(UsageByAccountResolved(st.daily))

\* Codes add up over merged agents; percentiles do not: the row with more samples stays.
Performance(st, from, to) ==
  LET view == LatencyResolved(st.latency)
      rows == KeysOf(view, from, to, SameDay)
      kept(key) == LET mine == {k \in rows : <<k[1], Shown(st, k[2])>> = key}
                       most == {k \in mine : \A j \in mine : view[j].samples <= view[k].samples}
                   IN view[CHOOSE k \in most : \A j \in most : k[2] <= j[2]]
  IN [codes |-> [k \in KeysOf(st.perf, from, to, SameDay) |-> [agent |-> Shown(st, k[2]), calls |-> st.perf[k]]],
      latency |-> [key \in {<<k[1], Shown(st, k[2])>> : k \in rows} |-> kept(key)]]

(***************************************************************************)
(* health: what part of the tokens is someone's, and what to warn of.      *)
(***************************************************************************)
TokensWhere(view, chosen(_)) ==
  Null0(SqlSum(SetToSeq({k \in DOMAIN view : chosen(k)}), LAMBDA k : view[k].tokens))

ServiceAgents(st) == {a.agent : a \in {x \in st.accounts : x.kind = "service_account"}}

Coverage(st, view) ==
  LET served(k) == k[2] \in ServiceAgents(st)
      named(k) == view[k].tokenSource \in KnowsUser
  IN [service |-> TokensWhere(view, served),
      people |-> TokensWhere(view, LAMBDA k : ~served(k) /\ named(k)),
      opaque |-> TokensWhere(view, LAMBDA k : ~served(k) /\ ~named(k))]

StaleAfter(every) == 3 * (IF every = {} THEN 120 ELSE TheValue(every)) + 60

Heartbeat(st) ==
  CASE ~st.heartbeat.readable -> "gateway_heartbeat_unreadable"
    [] st.heartbeat.readable /\ st.heartbeat.row = {} -> "gateway_refresh_never_ran"
    [] OTHER -> LET beat == TheValue(st.heartbeat.row)
                IN IF beat.age > StaleAfter(beat.every) THEN "gateway_stale" ELSE "none"

HealthOf(st, view) ==
  LET total == TokensWhere(view, LAMBDA k : TRUE)
      any(code, wanted(_)) == IF \E k \in DOMAIN view : wanted(k) THEN {code} ELSE {}
  IN [total |-> total, coverage |-> Coverage(st, view),
      warnings |-> (IF total # 0 THEN {"user_coverage"} ELSE {})
                     \cup any("estimated_tokens", LAMBDA k : view[k].estimated)
                     \cup any("missing_tokens", LAMBDA k : view[k].tokens = {})
                     \cup ({Heartbeat(st)} \ {"none"})]

Health(st) == HealthOf(st, UsageResolved(st.daily))

\* The identities the gateway observed for registered agents, and their anchors.
IdentitiesIn(view, st, from, to) ==
  LET used(a) == {k \in KeysOf(view, from, to, SameDay) : k[2] = a.agent /\ k[4] = a.id}
      seen(a) == \E r \in Range(st.calls) : /\ r.source = "gateway" /\ r.agent = a.agent /\ r.account = a.id
                                            /\ DayOf(r.hour) \in from .. to
      sum(a, column(_)) == Null0(SqlSum(SetToSeq(used(a)), LAMBDA k : column(view[k])))
  IN {[account |-> a.id, agent |-> a.agent, calls |-> sum(a, LAMBDA m : m.calls), tokens |-> sum(a, LAMBDA m : m.tokens)] :
        a \in {x \in st.accounts : /\ x.agent \in DOMAIN st.policies
                                   /\ seen(x) \/ used(x) # {} \/ x.kind \in {"service_account", "whole_agent"}}}

Identities(st, from, to) == IdentitiesIn(UsageByAccountResolved(st.daily), st, from, to)

(***************************************************************************)
(* The page.  Answers and latencies are known for an agent and a day, rows *)
(* for a model: counts are divided by the calls of the rows, percentiles   *)
(* repeated.  A share is <<part, whole>>.                                  *)
(***************************************************************************)
PerfByAgent(perf) ==
  LET days == {<<k[1], perf.codes[k].agent>> : k \in DOMAIN perf.codes} \cup DOMAIN perf.latency
      answered(d, code(_)) == Null0(SqlSum(SetToSeq({k \in DOMAIN perf.codes : <<k[1], perf.codes[k].agent>> = d /\ code(TheValue(k[4]))}),
                                           LAMBDA k : {perf.codes[k].calls}))
      lat(d) == IF d \in DOMAIN perf.latency
                THEN [p95 |-> Null0(perf.latency[d].p95), enough |-> perf.latency[d].enough] ELSE [p95 |-> 0, enough |-> FALSE]
  IN [d \in days |-> [r |-> answered(d, LAMBDA c : TRUE), e429 |-> answered(d, LAMBDA c : c = 429),
                      e4 |-> answered(d, LAMBDA c : c \div 100 = 4 /\ c # 429),
                      e5 |-> answered(d, LAMBDA c : c \div 100 = 5)] @@ lat(d)]

\* The unit a row is filed under: the highest real one of the agent, else a technical one.
PrimaryUnit(st) ==
  LET of(g) == {u \in st.units : u.agent = g}
      real(g) == {u \in of(g) : ~u.technical}
      highest(S) == CHOOSE u \in S : \A v \in S : Before(<<u.level, u.id>>, <<v.level, v.id>>) \/ u = v
  IN [g \in {u.agent : u \in st.units} |->
        LET u == highest(IF real(g) # {} THEN real(g) ELSE of(g))
        IN [unit |-> u.id, name |-> IF u.technical /\ u.placeholder THEN "agent" ELSE "unit"]]

Share(usage, i, day) ==
  LET mine(j) == <<usage[j].day, usage[j].agent>> = day
      total == Null0(SqlSum(SelectSeq(usage, LAMBDA x : <<x.day, x.agent>> = day), LAMBDA x : x.calls))
  IN IF total > 0 THEN <<Null0(usage[i].calls), total>>
     ELSE <<IF \E j \in 1 .. i - 1 : mine(j) THEN 0 ELSE 1, 1>>

BuildState(usage, perf, st) ==
  LET byAgent == PerfByAgent(perf)
      unit == PrimaryUnit(st)
      row(i) ==
        LET x == usage[i]
            day == <<x.day, x.agent>>
            p == IF day \in DOMAIN byAgent THEN byAgent[day] ELSE [r |-> 0, e4 |-> 0, e5 |-> 0, e429 |-> 0, p95 |-> 0, enough |-> FALSE]
            s == Share(usage, i, day)
        IN [day |-> x.day, agent |-> x.agent, model |-> x.model, unit |-> IF x.agent \in DOMAIN unit THEN unit[x.agent] ELSE "none",
            in |-> Null0(x.in), out |-> Null0(x.out), cached |-> IF x.tokenSource = "billing" THEN Null0(x.cached) ELSE 0,
            calls |-> Null0(x.calls), cost |-> x.cost, share |-> s, failed |-> p.e4 + p.e5 + p.e429,
            e4 |-> p.e4 * s[1], e5 |-> p.e5 * s[1], e429 |-> p.e429 * s[1], known |-> p.r * s[1],
            lat |-> IF p.enough THEN p.p95 ELSE 0]
  IN [i \in DOMAIN usage |-> row(i)]
==========================================================================
