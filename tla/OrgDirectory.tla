--------------------------- MODULE OrgDirectory ---------------------------
(***************************************************************************)
(* What db/load_org.py makes of the organisation files: two trees of       *)
(* units, the people of two directories and of the call logs, and one      *)
(* account for each login name.  LoadOrg returns Stop where the script     *)
(* stops or rolls back.                                                    *)
(*                                                                         *)
(* Names, ids and units are numbers: two spellings of a login name differ  *)
(* by a multiple of ten, and an id may be a name (old log records).  A     *)
(* field that may be missing is a set, {} for a missing one.  An agent's   *)
(* "not attributed" unit is its negative number, its technical one is      *)
(* Technical(agent).                                                       *)
(***************************************************************************)
EXTENDS Integers, Sequences, FiniteSets, SequencesExt, FiniteSetsExt
CONSTANTS SingleUser,  \* SINGLE_USER_AGENTS: agents that one service account runs
          Pairs,       \* CANONICAL_UNIT_PAIRS: <<contract name, ralli name>>
          Aggregates,  \* REPORT_AGGREGATE_UNITS: names of grouping levels
          Shared,      \* SHARED_IN_DIRECTORY: login names nobody owns
          Stop         \* what a script that stops leaves

TlaContract == 5
Ralli == 8

TheOnly(S) == CHOOSE x \in S : TRUE
Norm(name) == name % 10
Unattributed(agent) == -agent
IsUnattributed(unit) == unit < 0
Technical(agent) == 100 + agent
Rows(s) == {s[i] : i \in DOMAIN s}

\* The newest folder that has every required file; none: the script stops.
Latest(folders, required) ==
  LET full == {d \in DOMAIN folders : required \subseteq folders[d]}
  IN IF full = {} THEN Stop ELSE Max(full)

(***************************************************************************)
(* Units.  The first tree names parents, and for some units all ancestors; *)
(* the second is nested, each node with the depth it is found at.          *)
(***************************************************************************)
RECURSIVE Climb(_, _, _, _)
Climb(cur, seen, parent, path) ==
  LET c == TheOnly(cur) IN
  IF cur = {} THEN path
  ELSE IF c \in seen \/ c \notin DOMAIN parent THEN Stop
  ELSE Climb(parent[c], seen \cup {c}, parent, <<c>> \o path)

WalkUp(unit, parent) == Climb(parent[unit], {unit}, parent, <<>>)

\* ralli: id -> [name, parent, ancestors]; tree: set of [id, name, parent, depth].
CollectUnits(ralli, tree) ==
  LET parent == [u \in DOMAIN ralli |-> ralli[u].parent]
      walked(u) == WalkUp(u, parent)
      names(path) == [i \in DOMAIN path |-> ralli[path[i]].name]
      told(u) == SelectSeq(TheOnly(ralli[u].ancestors), LAMBDA a : a \in DOMAIN ralli)
      unclear(u) == \/ walked(u) = Stop
                    \/ ralli[u].ancestors # {} /\ names(told(u)) # names(walked(u))
  IN IF \E u \in DOMAIN ralli : unclear(u) THEN Stop
     ELSE {[id |-> u, agent |-> Ralli, name |-> ralli[u].name, parent |-> ralli[u].parent,
            level |-> Len(walked(u)) + 1, technical |-> FALSE] : u \in DOMAIN ralli}
       \cup {[id |-> n.id, agent |-> TlaContract, name |-> n.name, parent |-> n.parent,
              level |-> n.depth, technical |-> FALSE] : n \in tree}

AddedUnits ==
  {[id |-> Technical(a), agent |-> a, name |-> Technical(a), parent |-> {},
    level |-> 1, technical |-> TRUE] : a \in SingleUser}
  \cup {[id |-> Unattributed(a), agent |-> a, name |-> Unattributed(a), parent |-> {},
         level |-> 0, technical |-> TRUE] : a \in {TlaContract, Ralli}}

Named(units, agent, name) == {u.id : u \in {v \in units : v.agent = agent /\ v.name = name /\ ~v.technical}}

ResolveCanonical(units) ==
  LET sides == {<<TlaContract, p[1]>> : p \in Pairs} \cup {<<Ralli, p[2]>> : p \in Pairs}
  IN IF \E s \in sides : Cardinality(Named(units, s[1], s[2])) # 1 THEN Stop
     ELSE [u \in UNION {Named(units, TlaContract, p[1]) : p \in Pairs} |->
             LET p == CHOOSE q \in Pairs : u \in Named(units, TlaContract, q[1])
             IN TheOnly(Named(units, Ralli, p[2]))]

ResolveReportAggregates(units) ==
  IF \E n \in Aggregates : Cardinality(Named(units, Ralli, n)) # 1 THEN Stop
  ELSE UNION {Named(units, Ralli, n) : n \in Aggregates}

(***************************************************************************)
(* People, as rows of dim_user in the order the script appends them.       *)
(***************************************************************************)
Person(id, agent, name, mail, unit, enabled, role, in) ==
  [id |-> id, agent |-> agent, name |-> name, mail |-> mail, unit |-> unit,
   enabled |-> enabled, role |-> role, foundIn |-> in]

KnownUnit(unit, known, agent) ==
  IF unit # {} /\ unit \subseteq known THEN TheOnly(unit) ELSE Unattributed(agent)

\* The directory of the first agent, and the units' members of the second.
DirectoryOf(files, known) ==
  [i \in DOMAIN files.users |->
     LET x == files.users[i]
     IN Person(x.id, Ralli, x.name, x.mail, KnownUnit(x.unit, known, Ralli), x.enabled, x.role, "directory")]
  \o FlattenSeq([b \in DOMAIN files.blocks |->
       LET unit == KnownUnit({files.blocks[b].unit}, known, TlaContract)
           members == files.blocks[b].members
       IN [i \in DOMAIN members |->
             Person(members[i].id, TlaContract, members[i].name, members[i].mail, unit, {},
                    members[i].role, "directory")]])

\* Whoever belongs to no unit is only in the filter options, without a mail.
Options(files, known, people) ==
  LET existing == {d.id : d \in {p \in Rows(people) : p.agent = TlaContract}}
      missing == SelectSeq(files.options, LAMBDA r : r.id \notin existing)
  IN [i \in DOMAIN missing |->
        Person(missing[i].id, TlaContract, missing[i].name, {},
               KnownUnit(missing[i].unit, known, TlaContract), {}, {}, "directory")]

\* Ids of the call log that no directory has; any record may give the name.
FromCalls(files, people) ==
  LET already == {d.id : d \in {p \in Rows(people) : p.agent = Ralli}}
      strange == SelectSeq(files.calls, LAMBDA c : c.user # {} /\ ~(c.user \subseteq already))
      ids == {TheOnly(c.user) : c \in Rows(strange)}
      given(uid) == SelectSeq(strange, LAMBDA c : c.user = {uid} /\ c.name # {})
      display(uid) == IF given(uid) = <<>> THEN uid ELSE TheOnly(given(uid)[Len(given(uid))].name)
      listed(n) == SelectSeq(people, LAMBDA p : p.agent = Ralli /\ p.foundIn = "directory" /\ p.name = n)
      last(s) == s[Len(s)].unit
      unitOf(uid) == IF listed(uid) # <<>> THEN last(listed(uid))
                     ELSE IF listed(display(uid)) # <<>> THEN last(listed(display(uid)))
                     ELSE Unattributed(Ralli)
      order == SetToSortSeq(ids, LAMBDA a, b : a < b)
  IN [i \in DOMAIN order |->
        Person(order[i], Ralli, display(order[i]), {}, unitOf(order[i]), {}, {}, "log")]

\* Names of the contract usage that its directory lacks; the id, or the name for want of one.
FromUsage(files, people) ==
  LET mine == {p \in Rows(people) : p.agent = TlaContract}
      names == {Norm(p.name) : p \in mine}
      strange == SelectSeq(files.usage, LAMBDA r : Norm(r.name) \notin names)
      idOf(r) == IF r.user = {} THEN r.name ELSE TheOnly(r.user)
      ids == {idOf(r) : r \in Rows(strange)} \ {p.id : p \in mine}
      display(uid) == LET rs == SelectSeq(strange, LAMBDA r : idOf(r) = uid) IN rs[Len(rs)].name
      order == SetToSortSeq(ids, LAMBDA a, b : a < b)
  IN [i \in DOMAIN order |->
        Person(order[i], TlaContract, display(order[i]), {}, Unattributed(TlaContract), {}, {}, "log")]

People(files, known) ==
  LET directory == DirectoryOf(files, known)
      all == directory \o Options(files, known, directory)
  IN all \o FromCalls(files, all) \o FromUsage(files, all)

(***************************************************************************)
(* Accounts: one for each login name, numbered in the order of the names.  *)
(***************************************************************************)
\* Variant: only the names of the list are shared.
IsShared_Listed(name, inDirectory) == name \in Shared

IsShared(name, inDirectory) == name \in Shared \/ ~inDirectory

\* A real unit before none, the deepest, the smaller agent, the smaller id.
Preferred(d, e, level) ==
  LET a == <<IF IsUnattributed(d.unit) THEN 1 ELSE 0, -level[d.unit], d.agent, d.unit>>
      b == <<IF IsUnattributed(e.unit) THEN 1 ELSE 0, -level[e.unit], e.agent, e.unit>>
  IN a = b \/ \E i \in 1 .. 4 : a[i] < b[i] /\ \A j \in 1 .. i - 1 : a[j] = b[j]

Least(S) == IF S = {} THEN {} ELSE {Min(S)}

Account(u, group, level) ==
  LET chosen == CHOOSE d \in group : \A e \in group : Preferred(d, e, level)
      named == {d.unit : d \in {e \in group : ~IsUnattributed(e.unit)}}
      flags == UNION {d.enabled : d \in group}
  IN [name |-> u, mail |-> Least(UNION {d.mail : d \in group}), unit |-> chosen.unit,
      tree |-> chosen.agent, conflict |-> Cardinality(named) > 1,
      shared |-> IsShared(u, \E d \in group : d.foundIn = "directory"),
      role |-> Least(UNION {d.role : d \in group}),
      enabled |-> IF flags = {} THEN {} ELSE {FALSE \notin flags}]

Accounts(people, units) ==
  LET level == [u \in {v.id : v \in units} |-> (CHOOSE v \in units : v.id = u).level]
      names == {Norm(p.name) : p \in Rows(people)}
  IN [u \in names |-> Account(u, {p \in Rows(people) : Norm(p.name) = u}, level)]

AccountId(accounts, u) == Cardinality({v \in DOMAIN accounts : v <= u})

\* The seats of an agent in the usage table, numbered after the people; a
\* single-user agent's is a known service.
Seats(agents, people) ==
  {[id |-> people + 2 * Cardinality({b \in agents : b < a}) + IF s = "whole_agent" THEN 1 ELSE 2, agent |-> a,
    kind |-> IF s = "whole_agent" /\ a \in SingleUser THEN "service_account" ELSE s,
    unit |-> IF a \in SingleUser THEN Technical(a) ELSE Unattributed(a)]
     : a \in agents, s \in {"whole_agent", "unattributed"}}

(***************************************************************************)
(* The load.  Keys that repeat fail an INSERT; the acceptance looks for    *)
(* callers without a row and for units that no row of the account says.    *)
(***************************************************************************)
UniqueIn(rows, key(_)) == \A i, j \in DOMAIN rows : key(rows[i]) = key(rows[j]) => i = j

LoadOrg(files) ==
  LET collected == CollectUnits(files.ralli, files.tree)
      units == collected \cup AddedUnits
      known == {u.id : u \in units}
      people == People(files, known)
      accounts == Accounts(people, units)
      callers == UNION {c.user : c \in Rows(files.calls)}
  IN IF collected = Stop THEN Stop
     ELSE IF ResolveCanonical(units) = Stop \/ ResolveReportAggregates(units) = Stop THEN Stop
     ELSE IF \/ Cardinality(known) # Cardinality(units)
             \/ \E u \in units : ~(u.parent \subseteq {v.id : v \in {w \in units : w.level < u.level}})
             \/ ~UniqueIn(people, LAMBDA p : <<p.agent, p.id>>)
             \/ ~(callers \subseteq {p.id : p \in {q \in Rows(people) : q.agent = Ralli}})
          THEN Stop
     ELSE [units |-> units, canonical |-> ResolveCanonical(units),
           aggregates |-> ResolveReportAggregates(units), people |-> people, accounts |-> accounts,
           numbers |-> [u \in DOMAIN accounts |-> AccountId(accounts, u)],
           seats |-> Seats({TlaContract, Ralli} \cup SingleUser, Cardinality(DOMAIN accounts))]
==========================================================================
