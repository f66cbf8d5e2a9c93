---------------------------- MODULE SourceLoad ----------------------------
(***************************************************************************)
(* The loads of collected files into fact tables: db/load_billing.py,      *)
(* db/load_monitoring.py, db/load_ralli.py, db/load_tla_contract.py and    *)
(* db/load_provider.py.  A load is a function of its files, the catalogue  *)
(* and the table as it was; it returns the table as committed and whether  *)
(* the acceptance passed ([table, ok]).  A load that stops or rolls back   *)
(* keeps the table.                                                        *)
(*                                                                         *)
(* Names are small values; a field that may be missing is a set, {} when   *)
(* it is.  A table is a sequence of rows unless its key matters.           *)
(***************************************************************************)
EXTENDS Integers, Sequences, FiniteSets, SequencesExt, FiniteSetsExt

SumOf(rows, value(_)) == FoldLeft(LAMBDA n, r : n + value(r), 0, rows)
Each(rows, f(_)) == [i \in DOMAIN rows |-> f(rows[i])]
Member(S) == CHOOSE x \in S : TRUE
OrZero(v) == IF v = {} THEN 0 ELSE Member(v)
Refused(old) == [table |-> old, ok |-> FALSE]
Distinct(rows, key(_)) == \A i, j \in DOMAIN rows : key(rows[i]) = key(rows[j]) => i = j

(***************************************************************************)
(* load_billing.  cat: [kinds, models: SKU -> value, agents: project ->    *)
(* agent].  The primary key refuses a repeated (day, project, SKU); the    *)
(* table is committed before it is compared with the file.                 *)
(***************************************************************************)
LoadBilling(rows, cat, old) ==
  LET known(r) == /\ r.sku \in DOMAIN cat.kinds /\ r.sku \in DOMAIN cat.models
                  /\ r.project \in DOMAIN cat.agents
      record(r) == [day |-> r.day, project |-> r.project, sku |-> r.sku, cost |-> r.cost,
                    quantity |-> r.quantity, agent |-> cat.agents[r.project],
                    model |-> cat.models[r.sku], kind |-> cat.kinds[r.sku]]
      records == Each(rows, record)
  IN IF \E i \in DOMAIN rows : ~known(rows[i]) THEN Refused(old)
     ELSE IF ~Distinct(rows, LAMBDA r : <<r.day, r.project, r.sku>>) THEN Refused(old)
     ELSE [table |-> records, ok |-> rows # <<>>]

(***************************************************************************)
(* load_monitoring.  files: project -> rows.  What a metric measures comes *)
(* from the catalogue, and its name must agree.  Empty names of a service  *)
(* are read off the metric.  Committed before the acceptance: the service  *)
(* filter of the view must let some rows through, and not all.             *)
(***************************************************************************)
GuessService(r) == IF r.service # {} THEN Member(r.service) ELSE r.metric.service

MonitoringKnown(r, project, cat) ==
  /\ r.model \subseteq DOMAIN cat.models
  /\ project \in DOMAIN cat.agents
  /\ r.metric \in DOMAIN cat.measures
  /\ (cat.measures[r.metric] = "quota_limit") = r.metric.limit

MonitoringRow(r, project, cat) ==
  [hour |-> r.hour, agent |-> cat.agents[project], project |-> project, metric |-> r.metric,
   model |-> {cat.models[m] : m \in r.model}, service |-> GuessService(r),
   limit |-> cat.measures[r.metric] = "quota_limit", value |-> r.value]

\* The view monitoring_ai.
MonitoringAI(table) == SelectSeq(table, LAMBDA r : r.service = "ai")

LoadMonitoring(files, cat, old) ==
  LET projects == SetToSortSeq(DOMAIN files, LAMBDA a, b : a < b)
      table == FlattenSeq([p \in DOMAIN projects |->
                 Each(files[projects[p]], LAMBDA r : MonitoringRow(r, projects[p], cat))])
      clean == Len(MonitoringAI(table))
  IN IF DOMAIN files = {} \/ \E p \in DOMAIN files : \E i \in DOMAIN files[p] :
                               ~MonitoringKnown(files[p][i], p, cat)
     THEN Refused(old)
     ELSE [table |-> table,
           ok |-> /\ {table[i].project : i \in DOMAIN table} = DOMAIN files
                  /\ clean > 0 /\ clean < Len(table)]

(***************************************************************************)
(* load_ralli.  A call is [id, fields, time, user, model, tokens, cached]; *)
(* the number of fields tells its format.  dir: [account, unit: user ->    *)
(* value, nobody, nowhere].  The whole of fact_call is deleted and counted,*)
(* whoever its rows belong to: arrived are the rows other loads committed  *)
(* while this one ran.  told is the number of calls the app itself could   *)
(* not attribute ({} when its report has no such line).                    *)
(***************************************************************************)
Formats == [n \in {8, 14, 16} |-> CASE n = 8 -> 1 [] n = 14 -> 2 [] n = 16 -> 3]

RalliRow(c, models, dir) ==
  LET of(f, none) == IF c.user # {} /\ Member(c.user) \in DOMAIN f THEN f[Member(c.user)] ELSE none
  IN [id |-> c.id, source |-> "app", hour |-> c.time + 7, user |-> c.user,
      account |-> of(dir.account, dir.nobody), unit |-> of(dir.unit, dir.nowhere),
      model |-> models[c.model], tokens |-> c.tokens, cached |-> c.cached,
      format |-> Formats[c.fields]]

LoadRalli(calls, models, dir, told, allow, arrived, old) ==
  LET shaped(c) == c.fields \in DOMAIN Formats /\ c.model \in DOMAIN models
      rows == Each(calls, LAMBDA c : RalliRow(c, models, dir))
      seen == rows \o arrived
      lost == Len(SelectSeq(seen, LAMBDA r : r.unit = dir.nowhere))
      without(s) == Len(SelectSeq(s, LAMBDA r : r.cached = {}))
      formats(s) == [f \in {1, 2, 3} |-> Len(SelectSeq(s, LAMBDA r : r.format = f))]
      accepted == /\ Len(seen) = Len(calls)
                  /\ SumOf(seen, LAMBDA r : r.tokens) = SumOf(calls, LAMBDA c : c.tokens)
                  /\ without(seen) = without(calls)
                  /\ formats(seen) = formats(rows)
                  /\ told # {} /\ (lost = Member(told) \/ allow)
  IN IF \E i \in DOMAIN calls : ~shaped(calls[i]) THEN Refused(old)
     ELSE IF ~Distinct(calls, LAMBDA c : c.id) THEN Refused(old)
     ELSE IF accepted THEN [table |-> seen, ok |-> TRUE] ELSE Refused(old \o arrived)

(***************************************************************************)
(* load_tla_contract.  A row is [day, uid, name, model, calls, tokens]; a  *)
(* caller nobody lists falls to the unattributed account, and rows that    *)
(* meet on (day, account, model as the app names it) are added up, where   *)
(* nothing and nothing is nothing, not zero.                               *)
(***************************************************************************)
NotAModel == {"none"}

\* Variant: a value that is missing counts as zero.
AddUp_Zero(a, b) == {OrZero(a) + OrZero(b)}

AddUp(a, b) == IF a = {} /\ b = {} THEN {} ELSE {OrZero(a) + OrZero(b)}

AccountOf(r, dir) ==
  IF r.uid # {} /\ Member(r.uid) \in DOMAIN dir.byUid THEN dir.byUid[Member(r.uid)]
  ELSE IF r.name \in DOMAIN dir.byName THEN dir.byName[r.name] ELSE dir.nobody

MergeRow(out, r, dir, models) ==
  LET row == [day |-> r.day, account |-> AccountOf(r, dir), raw |-> r.model,
              model |-> {models[m] : m \in r.model \cap DOMAIN models},
              calls |-> r.calls, tokens |-> r.tokens]
      same == {i \in DOMAIN out : /\ out[i].day = row.day /\ out[i].account = row.account
                                  /\ out[i].raw = row.raw}
      i == Member(same)
  IN IF same = {} THEN Append(out, row)
     ELSE [out EXCEPT ![i].calls = AddUp(@, row.calls), ![i].tokens = AddUp(@, row.tokens)]

LoadContract(rows, total, dir, models, old) ==
  LET out == FoldLeft(LAMBDA o, r : MergeRow(o, r, dir, models), <<>>, rows)
      calls(s) == SumOf(s, LAMBDA r : OrZero(r.calls))
      tokens(s) == SumOf(s, LAMBDA r : OrZero(r.tokens))
  IN IF \E i \in DOMAIN rows : ~(rows[i].model \subseteq DOMAIN models \cup NotAModel) THEN Refused(old)
     ELSE IF calls(out) # calls(rows) \/ tokens(out) # tokens(rows) \/ calls(rows) # total THEN Refused(old)
     ELSE IF ~Distinct(out, LAMBDA r : <<r.day, r.account, r.raw>>) THEN Refused(old)
     ELSE [table |-> out, ok |-> TRUE]

(***************************************************************************)
(* load_provider.  A point is [end, project, model, alias, branch, value]: *)
(* end is the end of its interval in half days, so the point that ends a   *)
(* day belongs to it.  Within a pull the points of a key are added up, the *)
(* two branches of a quota metric must agree, and of several pulls the     *)
(* larger number counts.                                                   *)
(***************************************************************************)
VnDay(end) == (end - 1) \div 2

Measure(p) == CASE p.alias = "output" -> {"output"}
                [] p.alias = "input" -> {"input"}
                [] p.alias = "requests" -> {"requests"}
                [] OTHER -> {}                        \* quota limits, request counts of the API

PointKey(p) == <<VnDay(p.end), p.project, p.model, Member(Measure(p))>>
Counted(p) == Measure(p) # {} /\ p.value # 0

BranchTotals(pull) ==
  LET used == SelectSeq(pull, Counted)
  IN [k \in {<<PointKey(p), p.branch>> : p \in Range(used)} |->
        SumOf(SelectSeq(used, LAMBDA p : <<PointKey(p), p.branch>> = k), LAMBDA p : p.value)]

BranchesAgree(totals) ==
  \A k \in DOMAIN totals : <<k[1], "PerDay">> \in DOMAIN totals /\ <<k[1], "PerMinute">> \in DOMAIN totals
    => totals[<<k[1], "PerDay">>] = totals[<<k[1], "PerMinute">>]

\* A branch, the one by day first, stands before the points without one.
PickBranch(totals) ==
  LET has(k, b) == <<k, b>> \in DOMAIN totals
  IN [k \in {x[1] : x \in DOMAIN totals} |->
        IF has(k, "PerDay") THEN totals[<<k, "PerDay">>]
        ELSE IF has(k, "PerMinute") THEN totals[<<k, "PerMinute">>] ELSE totals[<<k, "">>]]

KeepLarger(result, pull) ==
  LET picked == PickBranch(BranchTotals(pull))
  IN [k \in DOMAIN result \cup DOMAIN picked |->
        IF k \notin DOMAIN result THEN picked[k]
        ELSE IF k \notin DOMAIN picked \/ result[k] >= picked[k] THEN result[k] ELSE picked[k]]

\* pulls: the pulls that name an account, oldest first; table: (day, project, model) -> row.
LoadProvider(pulls, models, optional, old) ==
  LET merged == FoldLeft(KeepLarger, <<>>, pulls)
      rows == {<<k[1], k[2], k[3]>> : k \in DOMAIN merged}
      value(r, m) == IF <<r[1], r[2], r[3], m>> \in DOMAIN merged THEN {merged[<<r[1], r[2], r[3], m>>]} ELSE {}
      row(r) == [model |-> {models[m] : m \in {r[3]} \cap DOMAIN models}, requests |-> value(r, "requests"),
                 input |-> value(r, "input"), output |-> value(r, "output")]
  IN IF pulls = <<>> THEN [table |-> old, ok |-> optional]
     ELSE IF rows = {} \/ \E i \in DOMAIN pulls : ~BranchesAgree(BranchTotals(pulls[i])) THEN Refused(old)
     ELSE [table |-> [r \in rows |-> row(r)] @@ old, ok |-> TRUE]
==========================================================================
