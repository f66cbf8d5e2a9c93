------------------------------ MODULE MCRecords ------------------------------
(* The inputs the run `records` tries: small sets in which spellings, pulls, *)
(* branches and sources overlap in every way their sizes allow.              *)
EXTENDS Records

MCPairs == {<<31, 21>>}

UpTo(S, n) == UNION {[1 .. k -> S] : k \in 0 .. n}
SomeOf(S, n) == UNION {[1 .. k -> S] : k \in 1 .. n}

\* Two pulls of production and one of another account, of one or two projects.
Day1 == [day |-> 1, tail |-> "1m"]
Day2 == [day |-> 2, tail |-> "1m"]
Other == [day |-> 2, tail |-> "1m-acct"]
MeterFiles == {[cols |-> 1, lines |-> s] : s \in SomeOf({[key |-> k, num |-> n, form |-> f] :
                  k \in {1, 2}, n \in {1, 2}, f \in {1}} \cup {[key |-> 1, num |-> 1, form |-> 2]}, 2)}
Odd == [cols |-> 2, lines |-> <<>>]
MCMonitoring ==
  {[disk |-> (Day1 :> (1 :> f)) @@ (Day2 :> (1 :> g)) @@ (Other :> (1 :> [cols |-> 1, lines |-> <<[key |-> 1, num |-> 9, form |-> 1]>>])),
    names |-> n] : f \in MeterFiles, g \in MeterFiles, n \in {{}, {Day1, Other}}}
  \cup {[disk |-> (Day1 :> (1 :> f)) @@ (Day2 :> (1 :> Odd)), names |-> {}] : f \in MeterFiles}
  \cup {[disk |-> (Day1 :> ((1 :> f) @@ (2 :> f))) @@ (Day2 :> (2 :> g)), names |-> {}] : f \in MeterFiles, g \in MeterFiles}

\* Minutes of one project by two methods, told by two pulls.
Histograms == {<<1>>, <<0, 2>>, <<0, 0, 0, 1>>, <<1, 1>>}
Point(k, b, o) == [key |-> k, day |-> 1, project |-> 1, method |-> k, count |-> {FoldLeft(LAMBDA n, x : n + x, 0, b)},
                   buckets |-> {b}, options |-> o]
Idle == [key |-> 3, day |-> 1, project |-> 1, method |-> 1, count |-> {}, buckets |-> {}, options |-> <<1, 2, 2>>]
Points == {<<>>} \cup {<<Point(1, b, <<1, 2, 2>>)>> : b \in Histograms}
                 \cup {<<Point(1, b, <<1, 2, 2>>), Idle, Point(2, c, <<1, 2, 2>>)>> : b \in Histograms, c \in Histograms}
MCLatency ==
  {[disk |-> (Day1 :> f) @@ (Day2 :> g) @@ (Other :> <<Point(1, <<9>>, <<1, 2, 2>>)>>), byMethod |-> m]
     : f \in Points, g \in Points, m \in BOOLEAN}
  \cup {[disk |-> (Day1 :> f) @@ (Day2 :> <<Point(2, <<1>>, <<2, 2, 2>>)>>), byMethod |-> FALSE] : f \in Points}

\* Invoices of two files, of one project or of two.
Invoiced(day, words, cost, list, commit, invoiced) ==
  [day |-> day, sku |-> 1, words |-> words, quantity |-> 1, cost |-> cost, list |-> list, commit |-> commit,
   other |-> 0, invoiced |-> invoiced]
InvoiceRows == {Invoiced(1, {"input"}, 14, 10, 0, 10), Invoiced(1, {"output", "input"}, 20, 20, 0, 20),
                Invoiced(2, {"cached", "input"}, 10, 30, 20, 10), Invoiced(2, {"input"}, 16, 10, 0, 10),
                Invoiced(2, {}, 10, 10, 0, 10)}
MCBilling ==
  {[files |-> (1 :> f) @@ (2 :> g), map |-> (1 :> 1) @@ (2 :> p), agents |-> {1, 2}]
     : f \in UpTo(InvoiceRows, 2), g \in UpTo(InvoiceRows, 1), p \in {1, 2}}
  \cup {[files |-> 1 :> f, map |-> m, agents |-> a]
     : f \in SomeOf(InvoiceRows, 1), m \in {1 :> 1, 2 :> 1}, a \in {{1}, {2}}}

\* Two trees with one unit in common, people who spell their names in two ways.
User(id, name, unit, mail, enabled) ==
  [id |-> id, name |-> name, unit |-> unit, mail |-> mail, enabled |-> enabled, role |-> {}]
RalliUnits == (1 :> [name |-> 21, parent |-> {}, ancestors |-> {}]) @@ (2 :> [name |-> 22, parent |-> {1}, ancestors |-> {<<1>>}])
Tree == {[id |-> 11, name |-> 31, parent |-> {}, depth |-> 1], [id |-> 12, name |-> 32, parent |-> {11}, depth |-> 2]}
Users == UpTo({User(51, 1, {2}, {1}, {TRUE}), User(52, 11, {1}, {}, {FALSE}), User(53, 2, {9}, {2}, {})}, 2)
Blocks == {<<>>, <<[unit |-> 12, members |-> <<User(61, 21, {}, {3}, {})>>]>>,
           <<[unit |-> 11, members |-> <<User(61, 1, {}, {}, {}), User(62, 3, {}, {}, {})>>]>>}
OptionRows == {<<>>, <<[id |-> 62, name |-> 4, unit |-> {}], [id |-> 63, name |-> 12, unit |-> {12}]>>}
CallLogs == {<<>>, <<[user |-> {1}, name |-> {}], [user |-> {}, name |-> {}]>>,
             <<[user |-> {71}, name |-> {}], [user |-> {71}, name |-> {11}]>>,
             <<[user |-> {51}, name |-> {1}], [user |-> {72}, name |-> {5}]>>}
Usages == {<<>>, <<[name |-> 11, user |-> {81}]>>, <<[name |-> 6, user |-> {82}], [name |-> 5, user |-> {}]>>}
Files(r, t, u, b, o, c, s) ==
  [ralli |-> r, tree |-> t, users |-> u, blocks |-> b, options |-> o, calls |-> c, usage |-> s]
MCDirectory ==
  {Files(RalliUnits, Tree, u, b, o, c, s) : u \in Users, b \in Blocks, o \in OptionRows, c \in CallLogs, s \in Usages}
  \cup {Files(r, t, <<>>, <<>>, <<>>, <<>>, <<>>) :
          r \in {RalliUnits, [RalliUnits EXCEPT ![1].parent = {2}], [RalliUnits EXCEPT ![2].ancestors = {<<>>}]},
          t \in {Tree, Tree \cup {[id |-> 13, name |-> 31, parent |-> {}, depth |-> 1]}}}

\* A legacy agent 1, a registered agent 2 with many users and 3 with one.
World(people) ==
  [codes |-> ("a" :> 1) @@ ("b" :> 2) @@ ("c" :> 3), people |-> people,
   policies |-> (2 :> [mode |-> "multiple", start |-> 2, service |-> 9]) @@ (3 :> [mode |-> "single", start |-> 1, service |-> 4]),
   accounts |-> {[id |-> 10, name |-> 8, kind |-> "whole_agent", agent |-> 1, unit |-> 1],
                 [id |-> 20, name |-> 9, kind |-> "whole_agent", agent |-> 2, unit |-> 2],
                 [id |-> 30, name |-> 4, kind |-> "service_account", agent |-> 3, unit |-> 3]}]
Member1 == [agent |-> 1, name |-> 1, account |-> 11, listed |-> TRUE, technical |-> FALSE]
Stranger == [agent |-> 5, name |-> 2, account |-> 12, listed |-> TRUE, technical |-> FALSE]
Logged1 == [agent |-> 1, name |-> 2, account |-> 12, listed |-> FALSE, technical |-> FALSE]
Line(id, day, user, tags, copy, outcome) ==
  [id |-> id, copy |-> copy, day |-> day, model |-> <<id % 2, "m">>, user |-> user, tags |-> tags,
   tokens |-> 2 ^ id, outcome |-> outcome]
LinesAt(id) ==
  {Line(id, d, u, <<"b">>, FALSE, "success") : d \in {1, 2}, u \in {{}, {1}, {11}, {-1}}}
  \cup {Line(id, 2, u, <<"a", "x">>, c, o) : u \in {{1}, {12}}, c \in BOOLEAN, o \in {"success", "failure"}}
  \cup {Line(id, 1, {14}, t, FALSE, "success") : t \in {<<"c">>, <<"x">>, <<"a", "b">>, <<"a", "a">>}}
MCLedger ==
  {[world |-> World(p), ledger |-> <<x, y>>, first |-> n] :
     p \in {{Member1, Stranger, Logged1}, {Member1, [Member1 EXCEPT !.name = 11, !.account = 12]}},
     x \in LinesAt(1), y \in LinesAt(2), n \in {0, 1, 2}}

\* A call log with people of the directory and without.
Call(id, fields, user, cached) ==
  [id |-> id, fields |-> fields, time |-> 20, user |-> user, model |-> 1, tokens |-> id, cached |-> cached]
CallsAt(id) == {Call(id, 8, {1}, {}), Call(id, 14, {9}, {0}), Call(id, 16, {}, {2}), Call(id, 9, {1}, {})}
Arrived == [id |-> 7, source |-> "gateway", unit |-> 1, tokens |-> 5, cached |-> {}, format |-> 0]
MCRalli ==
  {[calls |-> <<x, y>>, models |-> m, told |-> t, allow |-> a, arrived |-> r,
    dir |-> [account |-> 1 :> 11, unit |-> 1 :> 21, nobody |-> 10, nowhere |-> 20]] :
     x \in CallsAt(1), y \in CallsAt(2), m \in {1 :> 1, 2 :> 1}, t \in {{}, {0}, {1}, {2}}, a \in BOOLEAN,
     r \in {<<>>, <<Arrived>>}}

\* Usage rows of two listed and two unlisted people.
UsageRows ==
  {[day |-> 1, uid |-> u[1], name |-> u[2], model |-> m, calls |-> {1}, tokens |-> t] :
     u \in {<<{1}, 1>>, <<{}, 2>>, <<{8}, 1>>, <<{9}, 3>>}, m \in {{}, {"m"}, {"none"}}, t \in {{}, {2}}}
  \cup {[day |-> 1, uid |-> {}, name |-> 2, model |-> {"new"}, calls |-> {}, tokens |-> {2}]}
MCContract ==
  {[rows |-> r, total |-> n, models |-> "m" :> 1,
    dir |-> [byUid |-> 1 :> 11, byName |-> (1 :> 11) @@ (2 :> 12), nobody |-> 10]] : r \in SomeOf(UsageRows, 2), n \in {1, 2}}

\* Pulls of a quota metric by two branches and of one without.
Told(end, alias, branch, value) ==
  [end |-> end, project |-> 1, model |-> 1, alias |-> alias, branch |-> branch, value |-> value]
PullPoints == {Told(2, "requests", b, v) : b \in {"PerDay", "PerMinute"}, v \in {0, 1, 2}}
              \cup {Told(e, "output", "", v) : e \in {1, 3}, v \in {1, 2}} \cup {Told(2, "limit", "", 9)}
SomePulls == {<<x>> : x \in PullPoints} \cup {<<x, y>> : x \in PullPoints, y \in {Told(2, "requests", "PerMinute", 1), Told(3, "output", "", 1)}}
MCProvider == UpTo(SomePulls, 2)

\* An invoice and a meter with names the catalogue lacks.
MCInvoice ==
  {[rows |-> r, cat |-> [kinds |-> (1 :> "input") @@ (2 :> "output"), models |-> 1 :> 1 @@ m, agents |-> 1 :> 1]] :
     r \in UpTo({[day |-> d, project |-> p, sku |-> k, cost |-> 3, quantity |-> 1] : d \in {1, 2}, p \in {1, 2}, k \in {1, 2}}, 2),
     m \in {<<>>, 2 :> 2}}
Metric(s, l) == [service |-> s, limit |-> l]
MeterRows == {[hour |-> 1, metric |-> x, model |-> m, service |-> s, value |-> 1] :
                x \in {Metric("ai", FALSE), Metric("ai", TRUE), Metric("drive", FALSE)}, m \in {{}, {1}, {2}}, s \in {{}, {"drive"}}}
MCMeter ==
  {[files |-> f, cat |-> [models |-> 1 :> 1, agents |-> (1 :> 1) @@ (2 :> 2),
                          measures |-> (Metric("ai", FALSE) :> "token") @@ (Metric("ai", TRUE) :> q) @@ (Metric("drive", FALSE) :> "calls")]] :
     f \in {1 :> r : r \in UpTo(MeterRows, 1)} \cup {(1 :> <<x>>) @@ (2 :> <<y>>) : x \in MeterRows, y \in MeterRows},
     q \in {"quota_limit", "token"}}

\* One day of two agents: the gateway and the meter see agent 1, the app agent 2.
Gate(hour, outcome, hit, tokens, duration) ==
  [source |-> "gateway", hour |-> hour, agent |-> 1, model |-> {1}, account |-> 10, tokens |-> {tokens}, in |-> {tokens},
   out |-> {0}, cached |-> {}, cost |-> {1}, outcome |-> outcome, hit |-> hit, duration |-> duration]
App(hour, account, tokens) ==
  [source |-> "app", hour |-> hour, agent |-> 2, model |-> {1}, account |-> account, tokens |-> {tokens}, in |-> {1}, out |-> {},
   cached |-> {}, cost |-> {}, outcome |-> "success", hit |-> {}, duration |-> {}]
Metered(hour, measures, kind, value) ==
  [hour |-> hour, agent |-> 1, model |-> {1}, service |-> "ai", measures |-> measures, kind |-> kind, value |-> value,
   method |-> {1}, code |-> {200}]
Bill(kind, quantity) == [day |-> 0, agent |-> 1, model |-> 1, kind |-> kind, quantity |-> quantity, cost |-> 3]
Seat(a, k) == [id |-> 10 * a, kind |-> k, agent |-> a]
Base(bill, meter, calls, app, file) ==
  [billing |-> bill, monitoring |-> meter, calls |-> calls, appDaily |-> app, latencyFile |-> file,
   accounts |-> {Seat(1, "whole_agent"), Seat(2, "service_account")}, agents |-> {1, 2}, projects |-> 1 :> 1]
Bills == {<<>>, <<Bill("input", 4)>>, <<Bill("input", 4), Bill("cached", 2)>>, <<Bill("cached", 2), Bill("output", 1)>>}
Meters == {<<>>} \cup {<<Metered(0, "token", "input", v), Metered(1, "token", "input", w), Metered(1, "calls", "none", 10)>> :
                         v \in {20, 26}, w \in {10, 14, 17}}
GateCalls == {Gate(h, o, t, 5, {}) : h \in {0, 2}, o \in {"success", "failure"}, t \in {{}, {TRUE}, {FALSE}}}
Calls == {<<>>, <<App(0, 21, 2), App(1, 21, 1)>>} \cup {<<g>> : g \in GateCalls} \cup {<<g, App(1, 22, 3), Gate(1, "success", {}, 3, {})>> : g \in GateCalls}
AppFiles == {<<>>, <<[day |-> 0, agent |-> 2, model |-> {1}, account |-> 23, calls |-> {2}, tokens |-> {7}, in |-> {4}, out |-> {3}]>>}
MCRollup ==
  {[db |-> Base(b, m, c, a, {}), later |-> IF x THEN Base(b, m, c \o <<Gate(0, "success", {}, 2, {})>>, a, {}) ELSE Base(b, m, c, a, {})] :
     b \in Bills, m \in Meters, c \in Calls, a \in AppFiles, x \in BOOLEAN}

Csv(day, from, p95, to, samples) ==
  [project |-> 1, day |-> day, samples |-> samples, p50 |-> {1}, p95 |-> {p95}, p99 |-> {4}, from |-> {from}, to |-> to]
Durations == {{}, {1}, {2}, {7}}
MCSpeed ==
  {[db |-> Base(<<>>, <<Metered(0, "calls", "none", v)>>,
               <<Gate(0, "success", {}, 1, d), Gate(0, "failure", {}, 1, e), Gate(1, "success", t, 1, f), Gate(2, "success", {}, 1, {3})>>, <<>>, x)] :
     v \in {10, 15}, d \in Durations, e \in Durations, f \in Durations, t \in {{}, {TRUE}},
     x \in {{}, {<<>>}, {<<Csv(0, 2, 3, {4}, 12)>>}, {<<Csv(0, 2, 3, {}, 3), Csv(3, 2, 3, {4}, 12)>>}, {<<Csv(0, 2, 5, {4}, 12)>>}}}
  \cup {[db |-> Base(<<>>, <<>>, <<Gate(0, "success", {}, 1, {2})>>, <<>>, {<<Csv(0, 2, 3, {4}, 12)>>})]}

\* Agent 1 is registered, 2 has a directory, 3 is shown as 2.
MCMerged == 3 :> 2
At(r, agent, account) == [r EXCEPT !.agent = agent, !.account = account]
Answered(agent, code, value) == [Metered(0, "calls", "none", value) EXCEPT !.agent = agent, !.code = {code}]
MeterOf(g) == <<[Metered(1, "token", "input", 20) EXCEPT !.agent = g], Answered(g, 200, 20), Answered(g, 429, 10), Answered(g, 503, 10)>>
Page(bill, meter, calls, app, file, mode, beat) ==
  [from |-> 0, to |-> 1,
   st |-> [today |-> 0, billing |-> bill, monitoring |-> meter, calls |-> calls, appDaily |-> app, latencyFile |-> file,
           agents |-> {1, 2, 3}, projects |-> (2 :> 2) @@ (3 :> 3), policies |-> 1 :> mode,
           accounts |-> {[id |-> a[1], kind |-> a[2], agent |-> a[3], shared |-> a[1] = 23] : a \in
              {<<10, IF mode = "multiple" THEN "whole_agent" ELSE "service_account", 1>>, <<11, "gateway_observed", 1>>,
               <<20, "whole_agent", 2>>, <<21, "real", 2>>, <<22, "real", 2>>, <<23, "real", 2>>, <<24, "real", 2>>,
               <<30, "service_account", 3>>}},
           people |-> {[agent |-> 2, account |-> a, foundIn |-> IF a = 24 THEN "log" ELSE "directory", technical |-> FALSE] :
                         a \in {21, 22, 23, 24}},
           units |-> {[id |-> 1, agent |-> 2, level |-> 0, technical |-> TRUE, placeholder |-> TRUE],
                      [id |-> 2, agent |-> 2, level |-> 2, technical |-> FALSE, placeholder |-> FALSE],
                      [id |-> 3, agent |-> 3, level |-> 1, technical |-> TRUE, placeholder |-> TRUE]},
           budgets |-> {[agent |-> 2, month |-> 1, usd |-> 10], [agent |-> 2, month |-> 2, usd |-> 20]},
           heartbeat |-> beat]]
Beats == {[readable |-> TRUE, row |-> {[age |-> n, every |-> e]}] : n \in {60, 420, 421}, e \in {{}, {120}, {300}}}
         \cup {[readable |-> FALSE, row |-> {}], [readable |-> TRUE, row |-> {}]}
BillOf(g) == [Bill("input", 4) EXCEPT !.agent = g]
PageCalls(mode) ==
  LET caller == IF mode = "multiple" THEN 11 ELSE 10 IN
  {<<>>, <<Gate(0, "success", {}, 5, {2}), At(Gate(2, "success", {FALSE}, 3, {4}), 1, caller)>>,
   <<At(App(0, 21, 2), 2, 21), At(App(2, 23, 1), 2, 23)>>,
   <<At(Gate(1, "success", {}, 5, {2}), 2, 21), At(Gate(0, "success", {}, 4, {9}), 3, 30), At(Gate(1, "failure", {}, 2, {}), 2, 22)>>,
   <<[At(App(0, 21, 1), 2, 21) EXCEPT !.tokens = {}, !.in = {}], At(App(0, 22, 1), 2, 22), At(Gate(0, "success", {}, 3, {}), 2, 24)>>,
   <<[At(App(1, 24, 1), 2, 24) EXCEPT !.tokens = {}, !.in = {}], At(Gate(0, "success", {TRUE}, 3, {}), 1, caller)>>}
Beating == [readable |-> TRUE, row |-> {[age |-> 60, every |-> {}]}]
MCPage ==
  UNION {{Page(b, m, c, a, f, mode, Beating) :
     b \in {<<>>, <<BillOf(2)>>, <<BillOf(2), BillOf(3), [BillOf(3) EXCEPT !.kind = "cached", !.day = 1]>>},
     m \in {<<>>, MeterOf(3), MeterOf(2) \o MeterOf(3)}, c \in PageCalls(mode), a \in AppFiles,
     f \in {{}, {<<[Csv(0, 2, 3, {4}, 12) EXCEPT !.project = 2], [Csv(0, 2, 3, {4}, 15) EXCEPT !.project = 3]>>}}} :
     mode \in {"single", "multiple"}}
  \cup {Page(<<BillOf(2)>>, MeterOf(3), <<>>, <<>>, {}, "single", h) : h \in Beats}

\* The ledger, the provider and the invoice of a day or two, with numbers that are missing.
Provided(day, requests, read, written) == [day |-> day, requests |-> requests, in |-> read, out |-> written]
Logged(day, read, written, cached) == [day |-> day, agent |-> 1, in |-> read, out |-> written, cached |-> cached]
Cached(day, n) == [day |-> day, agent |-> 1, cached |-> {n}]
MeterAt(day, pacific, n) == [day |-> day, pacific |-> pacific, project |-> 1, tokens |-> n]
Ends == <<MeterAt(1, 1, 1), MeterAt(5, 5, 1)>>
MCReconcile ==
  {[calls |-> c, provider |-> p, invoice |-> i, meter |-> <<>>, invoiced |-> <<>>] :
     c \in SomeOf({Logged(1, {2}, {1}, {}), Logged(1, {3}, {}, {100}), Logged(2, {}, {2}, {50})}, 2),
     p \in SomeOf({Provided(1, {1}, {3}, {1}), Provided(1, {}, {1}, {1}), Provided(2, {2}, {9}, {})}, 2),
     i \in {<<>>, <<Cached(1, 100)>>, <<Cached(1, 99), Cached(2, 49)>>}}
  \cup {[calls |-> <<>>, provider |-> <<>>, invoice |-> <<>>, meter |-> m \o Ends, invoiced |-> i] :
          m \in UpTo({MeterAt(2, 2, 1), MeterAt(3, 2, 2), MeterAt(3, 3, 4)}, 2),
          i \in UpTo({[day |-> d, project |-> 1, tokens |-> n] : d \in {2, 3}, n \in {1, 2, 3}}, 2)}

\* Two agents, whose profiles share an alias, and hands in the file beside them.
N(provider, rest) == [provider |-> provider, rest |-> rest]
Fast == N("", "fast")
Flash == N("gemini", "flash")
Gpt == N("openai", "gpt")
Wild == N("gemini", "*")
M(alias, upstream) == [alias |-> alias, upstream |-> upstream]
Draft(code, secret, models) ==
  [quotaResponse |-> IF secret = 1 THEN "chat" ELSE "batch", code |-> code, name |-> 10 + code, mode |-> "single", start |-> 1, active |-> TRUE, secret |-> secret,
   rpm |-> {}, tpm |-> {}, budget |-> [mode |-> "unlimited", usd |-> {}], models |-> models]
Drafts ==
  <<Draft(1, 1, <<M(Fast, Flash)>>), Draft(1, 1, <<M(Wild, Wild)>>), Draft(1, 1, <<M(Wild, Wild), M(Fast, Flash)>>),
    Draft(2, 1, <<M(Fast, Gpt)>>), Draft(2, 2, <<M(Wild, Wild)>>)>>
Faulty ==
  <<Draft(9, 1, <<M(Fast, Flash)>>), Draft(1, 1, <<>>), Draft(1, 3, <<M(Fast, Flash)>>), Draft(1, 1, <<M(Fast, Wild)>>),
    Draft(1, 1, <<M(Fast, N("", "flash"))>>), Draft(1, 1, <<M(Fast, N("gemini", "*-flash"))>>),
    Draft(1, 1, <<M(Fast, Flash), M(Fast, Gpt)>>), Draft(1, 1, <<M(Fast, N("gemini", "old"))>>),
    [Draft(1, 1, <<M(Fast, Flash)>>) EXCEPT !.rpm = {0}], [Draft(1, 1, <<M(Fast, Flash)>>) EXCEPT !.budget.mode = "finite"]>>
Handmade(id, tags) ==
  [name |-> Fast, model |-> Gpt, key |-> 1, rpm |-> {}, tpm |-> {}, tags |-> tags, id |-> id]
Cost(key, label, chat) == [key |-> key, label |-> label, chat |-> chat, formable |-> TRUE]
Costs == {Cost(Flash, "x", TRUE), Cost(N("", "pro"), "gemini", TRUE), Cost(Gpt, "x", TRUE), Cost(N("gemini", "draw"), "x", FALSE),
          Cost(N("vertex", "flash"), "x", TRUE)}
OfRoute == <<1, Fast>>
OfHand == <<0, Fast>>
Adds(id, tags) == [kind |-> "add", route |-> Handmade(id, tags)]
Drops(id) == [kind |-> "drop", id |-> id]
Tags(tags) == [kind |-> "tag", id |-> OfRoute, tags |-> tags]
Redirects(to) == [kind |-> "redirect", to |-> to]
Hands ==
  <<Adds({}, {}), Adds({}, {1}), Adds({OfHand}, {}), Adds({OfHand}, {1, 5}), Adds({OfRoute}, {}), Adds({OfRoute}, {1}),
    Drops(OfRoute), Drops(OfHand), Tags({}), Tags({2}), Redirects(Fast :> Fast), Redirects(Fast :> Gpt), Redirects(Flash :> Gpt),
    [kind |-> "catalogue", costs |-> {}], [kind |-> "filter", on |-> FALSE]>>
Deploys(s) == [n \in DOMAIN s |-> [kind |-> "deploy", draft |-> s[n]]]
MCGateway ==
  [config |-> [tagFiltering |-> TRUE, redirects |-> <<>>, routes |-> <<Handmade({}, {5})>>], owned |-> {}, applied |-> <<>>,
   costs |-> Costs, providers |-> {"gemini", "openai", "unused"}, secrets |-> {1, 2}, ok |-> TRUE,
   legacyChat |-> {2, 5}, chat |-> {2, 5},
   registry |-> 5 :> [name |-> 15, mode |-> "multiple", start |-> 1, active |-> TRUE]]
MCActs == Deploys(Drafts) \o Hands \o Deploys(Faulty)
Good == DOMAIN Drafts
ByHand == {Len(Drafts) + n : n \in DOMAIN Hands}
MCConnections ==
  {Append(s, d) : s \in UpTo(Good \cup ByHand, 2), d \in Good}
  \cup {<<a>> \o s \o <<d>> : a \in Good, s \in UpTo(ByHand, 2), d \in Good}
  \cup {<<d>> : d \in DOMAIN MCActs}
=============================================================================
