---------------------------- MODULE LedgerRows ----------------------------
(***************************************************************************)
(* From rows of the gateway's ledger to rows of fact_call, as              *)
(* db/load_gateway.py maps them (build_rows, auto_register_models) with    *)
(* the look-ups of db/connect.py and the discovered identities of          *)
(* db/gateway_registry.py.  GatewayRefresh moves whole calls; this module  *)
(* says which calls become rows, under whose account, and what is left out.*)
(*                                                                         *)
(* A line of the ledger is [id, copy, day, model, user, tags, tokens,      *)
(* outcome]; a tag counts as often as it is repeated.  Names of callers    *)
(* are numbers that differ by a multiple of ten when only their spelling   *)
(* does; -1 and below are not valid identities, {} is the empty end_user.  *)
(***************************************************************************)
EXTENDS Integers, Sequences, FiniteSets, SequencesExt, FiniteSetsExt

TheCaller(user) == CHOOSE u \in user : TRUE
Spelling(u) == u % 10
ValidIdentity(u) == u >= 0
TokensOf(lines) == FoldLeft(LAMBDA n, x : n + x.tokens, 0, lines)

(***************************************************************************)
(* connect.py: the people of an agent's directory (log rows and technical  *)
(* ones are not admitted) and the service accounts.  Two accounts for one  *)
(* key stop the load.  people: [agent, name, account, listed, technical];  *)
(* accounts: [id, name, kind, agent, unit].                                *)
(***************************************************************************)
DirectoryPairs(people, accounts) ==
  {<<<<p.agent, Spelling(p.name)>>, p.account>> : p \in {q \in people : q.listed /\ ~q.technical}}
  \cup {<<<<a.agent, a.name>>, a.id>> : a \in {b \in accounts : b.kind = "service_account"}}

DirectoryConflicts(people, accounts) ==
  \E p, q \in DirectoryPairs(people, accounts) : p[1] = q[1] /\ p[2] # q[2]

DirectoryLookup(people, accounts) ==
  [key \in {p[1] : p \in DirectoryPairs(people, accounts)} |->
     (CHOOSE p \in DirectoryPairs(people, accounts) : p[1] = key)[2]]

AnchorLookup(accounts) ==
  LET seats == {a \in accounts : a.kind \in {"service_account", "whole_agent"}}
  IN [g \in {a.agent : a \in seats} |-> (CHOOSE a \in seats : a.agent = g).id]

UnitLookup(accounts) == [i \in {a.id : a \in accounts} |-> (CHOOSE a \in accounts : a.id = i).unit]

(***************************************************************************)
(* A successful call may bring a model nobody declared: it is registered   *)
(* under its own name, or as an alias of the model of that name.           *)
(* catalogue: [models: name -> id, aliases: raw name -> id]; a raw name is *)
(* <<provider, name>>.                                                     *)
(***************************************************************************)
AutoRegister(catalogue, ledger) ==
  LET unseen == {line.model : line \in {l \in Range(ledger) : l.outcome = "success"}}
                  \ DOMAIN catalogue.aliases
      one(cat, raw) ==
        LET fresh == raw[2] \notin DOMAIN cat.models
            id == IF fresh THEN 1 + Max({0} \cup Range(cat.models)) ELSE cat.models[raw[2]]
        IN [models |-> raw[2] :> id @@ cat.models, aliases |-> raw :> id @@ cat.aliases]
  IN FoldLeft(one, catalogue, SetToSortSeq(unseen, LAMBDA a, b : a[1] < b[1] \/ (a[1] = b[1] /\ a[2] < b[2])))

(***************************************************************************)
(* What becomes of a line.                                                 *)
(***************************************************************************)
ResolveAgent(line, codes) ==
  LET hits == SelectSeq(line.tags, LAMBDA t : t \in DOMAIN codes)
  IN IF Len(hits) = 1 THEN {codes[hits[1]]} ELSE {}

\* The reason a line is left out, or "none".
DropReason(line, ctx) ==
  LET agent == ResolveAgent(line, ctx.codes)
      hits == SelectSeq(line.tags, LAMBDA t : t \in DOMAIN ctx.codes)
      a == CHOOSE x \in agent : TRUE
  IN CASE line.copy -> "cache duplicate"
       [] ~line.copy /\ hits = <<>> -> "no tag"
       [] ~line.copy /\ Len(hits) > 1 -> "many tags"
       [] ~line.copy /\ agent # {} /\ a \in DOMAIN ctx.policies /\ line.day < ctx.policies[a].start ->
            "before start"
       [] OTHER -> "none"

(***************************************************************************)
(* discover: the account of a caller of a registered agent with many       *)
(* users, allocated at the first sight.  seen: <<agent, user>> ->          *)
(* [account, first, last].                                                 *)
(***************************************************************************)
Discover(seen, next, key, day) ==
  IF key \in DOMAIN seen
  THEN [seen EXCEPT ![key].first = IF day < @ THEN day ELSE @, ![key].last = IF day > @ THEN day ELSE @]
  ELSE key :> [account |-> next, first |-> day, last |-> day] @@ seen

Discovers(line, policy) ==
  /\ policy.mode = "multiple"
  /\ line.user # {} /\ ValidIdentity(TheCaller(line.user))
  /\ line.outcome \in {"success", "failure"}

\* The account found for the caller ({} for none): the caller must be listed for THIS agent.
Found(line, agent, seen, ctx) ==
  LET u == TheCaller(line.user)
      policy == ctx.policies[agent]
  IN IF line.user = {} THEN {}
     ELSE IF agent \notin DOMAIN ctx.policies
          THEN IF <<agent, Spelling(u)>> \in DOMAIN ctx.directory THEN {ctx.directory[<<agent, Spelling(u)>>]} ELSE {}
     ELSE IF policy.mode = "single"
          THEN IF ValidIdentity(u) /\ Spelling(u) = policy.service THEN {ctx.anchors[agent]} ELSE {}
     ELSE IF Discovers(line, policy) THEN {seen[<<agent, u>>].account} ELSE {}

(***************************************************************************)
(* build_rows: one pass over the ledger.  The result holds the rows, what  *)
(* was dropped and why, the identities seen and the counters that are not  *)
(* about dropping.                                                         *)
(***************************************************************************)
BuildRow(found, line, ctx) ==
  LET agent == CHOOSE a \in ResolveAgent(line, ctx.codes) : TRUE
      registered == agent \in DOMAIN ctx.policies
      seen == IF registered /\ Discovers(line, ctx.policies[agent])
              THEN Discover(found.seen, found.next, <<agent, TheCaller(line.user)>>, line.day)
              ELSE found.seen
      account == Found(line, agent, seen, ctx)
      fresh == Cardinality(DOMAIN seen) - Cardinality(DOMAIN found.seen)
      model == IF line.model \in DOMAIN ctx.aliases THEN {ctx.aliases[line.model]} ELSE {}
      owner == IF account = {} THEN ctx.anchors[agent] ELSE CHOOSE x \in account : TRUE
      row == [id |-> line.id, agent |-> agent, day |-> line.day, user |-> line.user, account |-> owner,
              unit |-> IF owner \in DOMAIN ctx.units THEN ctx.units[owner] ELSE agent,
              model |-> model, tokens |-> line.tokens, outcome |-> line.outcome]
  IN IF DropReason(line, ctx) # "none"
     THEN [found EXCEPT !.dropped = Append(@, [id |-> line.id, tokens |-> line.tokens,
                                               reason |-> DropReason(line, ctx)])]
     ELSE [found EXCEPT !.rows = Append(@, row), !.seen = seen, !.next = @ + fresh,
             !.undeclared = @ + IF model = {} /\ line.outcome # "failure" THEN 1 ELSE 0,
             !.unresolvable = @ + IF account = {} /\ line.user # {} THEN 1 ELSE 0]

BuildRows(ledger, ctx, seen, next) ==
  FoldLeft(LAMBDA found, line : BuildRow(found, line, ctx),
           [rows |-> <<>>, dropped |-> <<>>, seen |-> seen, next |-> next,
            undeclared |-> 0, unresolvable |-> 0], ledger)

(***************************************************************************)
(* INSERT ... ON CONFLICT (call_id) DO UPDATE: what the ledger says of a   *)
(* call is refreshed, what was resolved at its first load is kept, but for *)
(* the unit.  fact: call id -> row.                                        *)
(***************************************************************************)
Upsert(fact, rows) ==
  FoldLeft(LAMBDA f, r : IF r.id \in DOMAIN f
                         THEN [f EXCEPT ![r.id].outcome = r.outcome, ![r.id].unit = r.unit]
                         ELSE r.id :> r @@ f, fact, rows)

\* Variant: the comparison as it was before it counted the copies.
SkippedLines_NoCopies(ledger, ctx) ==
  SelectSeq(ledger, LAMBDA l : \/ Cardinality(ResolveAgent(l, ctx.codes)) # 1
                               \/ DropReason(l, ctx) = "before start")

(* The whole-ledger comparison counts what is skipped in SQL, apart from   *)
(* the loop above: copies, lines without exactly one tag of an agent, and  *)
(* what started before a registered agent reports.                         *)
SkippedLines(ledger, ctx) ==
  SelectSeq(ledger, LAMBDA l :
    LET hits == SelectSeq(l.tags, LAMBDA t : t \in DOMAIN ctx.codes)
        agent == ctx.codes[hits[1]]
    IN \/ l.copy \/ Len(hits) # 1
       \/ agent \in DOMAIN ctx.policies /\ l.day < ctx.policies[agent].start)

Reconciles(ledger, fact, ctx) ==
  LET skipped == SkippedLines(ledger, ctx)
      kept == SetToSeq({fact[i] : i \in DOMAIN fact})
  IN Cardinality(DOMAIN fact) + Len(skipped) = Len(ledger)
     /\ TokensOf(kept) + TokensOf(skipped) = TokensOf(ledger)

\* One load: what the tables are after it.
LoadGateway(ledger, old, world) ==
  LET catalogue == AutoRegister(old.catalogue, ledger)
      ctx == [codes |-> world.codes, policies |-> world.policies, aliases |-> catalogue.aliases,
              directory |-> DirectoryLookup(world.people, world.accounts),
              anchors |-> AnchorLookup(world.accounts), units |-> UnitLookup(world.accounts)]
      built == BuildRows(ledger, ctx, old.seen, old.next)
      fact == Upsert(old.fact, built.rows)
  IN IF DirectoryConflicts(world.people, world.accounts) THEN [old EXCEPT !.ok = FALSE]
     ELSE [fact |-> fact, seen |-> built.seen, next |-> built.next, catalogue |-> catalogue,
           dropped |-> built.dropped, ok |-> Reconciles(ledger, fact, ctx)]
==========================================================================
