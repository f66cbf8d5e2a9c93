-------------------------- MODULE ConnectionConfig --------------------------
(***************************************************************************)
(* How profiles become configuration: what the store accepts as a profile, *)
(* which models the gateway can route, what a preview refuses, the routes  *)
(* and the registry rendered from all applied profiles, and the model a    *)
(* verification calls (connection_config.py, Worker.preview).              *)
(*                                                                         *)
(* A model name is provider and rest, the provider "" for a name without a *)
(* slash.  A code is a number, 0 for routes of nobody; a missing value is  *)
(* the empty set.  The digest of a route's code and alias is the pair.     *)
(* Wording, types and spelling of fields are left to the parsers.          *)
(***************************************************************************)
EXTENDS Integers, Sequences, FiniteSets, SequencesExt, FiniteSetsExt

CONSTANTS
    Stop,       \* a value for every refusal
    Reserved    \* codes no profile may have (RESERVED_CODES)

Starred == {"*", "*-flash"}     \* the rests in which a star occurs
MaxModels == 20

IsWildcard(m) == m.upstream.rest = "*"

ConcreteAlias(p) ==
  LET concrete == SelectSeq(p.models, LAMBDA m : ~IsWildcard(m))
  IN IF concrete = <<>> THEN {} ELSE {Head(concrete).alias}

-----------------------------------------------------------------------------
(* What the store accepts. *)

ValidBudget(b) ==
  \/ b.mode = "unlimited" /\ b.usd = {}
  \/ b.mode = "finite" /\ Cardinality(b.usd) = 1 /\ \A n \in b.usd : n >= 0

\* A star stands for all models of one provider, under the same name.
ValidModel(m) ==
  /\ m.upstream.provider # "" /\ m.upstream.rest # ""
  /\ m.upstream.provider \notin Starred
  /\ m.upstream.rest \in Starred => m.upstream.rest = "*"
  /\ m.alias.rest \in Starred \/ IsWildcard(m) => m.alias = m.upstream

ValidateProfile(p) ==
  IF /\ p.code \notin Reserved
     /\ \A n \in p.rpm \cup p.tpm : n > 0
     /\ Len(p.models) \in 1 .. MaxModels
     /\ \A m \in Range(p.models) : ValidModel(m)
     /\ \A i, j \in DOMAIN p.models : p.models[i].alias = p.models[j].alias => i = j
     /\ ValidBudget(p.budget)
  THEN p ELSE Stop

-----------------------------------------------------------------------------
(* The catalogue of the gateway, and what a verification may call. *)

RoutableCatalog(costs, providers) ==
  LET name(e) == IF e.key.provider # "" THEN e.key ELSE [provider |-> e.label, rest |-> e.key.rest]
  IN {name(e) : e \in {x \in costs : x.chat /\ x.formable /\ name(x).provider \in providers}}

VerificationModel(p, requested, catalog) ==
  LET under(r) == SelectSeq(p.models, LAMBDA m : m.upstream.provider = r.provider)
      callable == {r \in requested \cap catalog : under(r) # <<>>}
  IN CASE ConcreteAlias(p) # {} ->
            LET alias == CHOOSE a \in ConcreteAlias(p) : TRUE IN [model |-> alias, alias |-> alias]
       [] ConcreteAlias(p) = {} /\ callable = {} -> Stop
       [] OTHER -> LET r == CHOOSE x \in callable : TRUE
                   IN [model |-> r, alias |-> Last(under(r)).alias]

-----------------------------------------------------------------------------
(* Rendering. *)

\* Variant: the digest is of the alias alone.
RouteId_AliasOnly(code, alias) == <<1, alias>>
RouteId(code, alias) == <<code, alias>>

RouteOf(p, m) ==
  [name |-> m.alias, model |-> m.upstream, key |-> p.secret, rpm |-> p.rpm, tpm |-> p.tpm,
   tags |-> {p.code}, id |-> {RouteId(p.code, m.alias)}]

Rendered(profiles) ==
  FlattenSeq([n \in DOMAIN profiles |->
    [k \in DOMAIN profiles[n].models |-> RouteOf(profiles[n], profiles[n].models[k])]])

Ids(routes) == UNION {r.id : r \in Range(routes)}

RenderRoutes(config, profiles, owned) ==
  LET unmanaged == SelectSeq(config.routes, LAMBDA r : r.id \cap owned = {})
      new == Rendered(profiles)
      redirected(name) == name \in DOMAIN config.redirects /\ config.redirects[name] # name
      times(i) == Len(SelectSeq(config.routes, LAMBDA r : i \in r.id))
  IN IF \/ ~config.tagFiltering
        \/ \E i \in owned : times(i) > 1
        \/ \E r \in Range(new) : redirected(r.name)
        \/ \E r \in Range(unmanaged) : r.tags \cap {p.code : p \in Range(profiles)} # {}
        \/ Ids(new) \cap (Ids(config.routes) \ owned) # {}
     THEN Stop
     ELSE [config |-> [config EXCEPT !.routes = unmanaged \o new], owned |-> Ids(new)]

RegistryRow(p) == [name |-> p.name, mode |-> p.mode, start |-> p.start, active |-> p.active]

RenderRegistry(rows, profiles) ==
  LET of(c) == SelectSeq(profiles, LAMBDA p : p.code = c)
  IN [c \in DOMAIN rows \cup {p.code : p \in Range(profiles)} |->
        IF of(c) = <<>> THEN rows[c] ELSE RegistryRow(Last(of(c)))]

\* The agents whose refusals by the quota are told as a message of a chat.
ChatTags(legacy, profiles) ==
  (legacy \ {p.code : p \in Range(profiles)})
    \cup {p.code : p \in {q \in Range(profiles) : q.quotaResponse = "chat"}}

-----------------------------------------------------------------------------
(* The preview of a draft beside what is applied, and the apply that adopts  *)
(* what it rendered.                                                         *)

Callable(w, m) ==
  LET catalog == RoutableCatalog(w.costs, w.providers)
  IN \/ m.upstream \in {r.model : r \in Range(w.config.routes)}
     \/ IF IsWildcard(m) THEN m.upstream.provider \in {n.provider : n \in catalog}
                         ELSE m.upstream \in catalog

Profiles(w, draft) ==
  LET others == SetToSortSeq(DOMAIN w.applied \ {draft.code}, <)
  IN [n \in DOMAIN others |-> w.applied[others[n]]] \o <<draft>>

Preview(w, draft) ==
  IF /\ \A m \in Range(draft.models) : Callable(w, m)
     /\ draft.secret \in w.secrets
  THEN RenderRoutes(w.config, Profiles(w, draft), w.owned)
  ELSE Stop

Deploy(w, draft) ==
  LET with(found) ==
        IF found = Stop THEN [w EXCEPT !.ok = FALSE]
        ELSE [w EXCEPT !.ok = TRUE, !.config = found.config, !.owned = found.owned,
                       !.applied = [c \in DOMAIN w.applied \cup {draft.code} |->
                                      IF c = draft.code THEN draft ELSE w.applied[c]],
                       !.registry = RenderRegistry(w.registry, Profiles(w, draft)),
                       !.chat = ChatTags(w.legacyChat, Profiles(w, draft))]
  IN with(IF ValidateProfile(draft) = Stop THEN Stop ELSE Preview(w, draft))

(* Somebody edits the routes by hand, or the gateway learns other models, and *)
(* the change is reconciled: the owned ids stay what they were.               *)
Reconcile(w, e) ==
  CASE e.kind = "add"  -> [w EXCEPT !.config.routes = <<e.route>> \o @]
    [] e.kind = "drop" -> [w EXCEPT !.config.routes = SelectSeq(@, LAMBDA r : e.id \notin r.id)]
    [] e.kind = "tag"  -> [w EXCEPT !.config.routes =
                             [n \in DOMAIN @ |-> IF e.id \in @[n].id THEN [@[n] EXCEPT !.tags = e.tags] ELSE @[n]]]
    [] e.kind = "filter" -> [w EXCEPT !.config.tagFiltering = e.on]
    [] e.kind = "redirect" -> [w EXCEPT !.config.redirects = e.to]
    [] e.kind = "catalogue" -> [w EXCEPT !.costs = e.costs]

Career(w, steps) ==
  FoldLeft(LAMBDA v, s : IF s.kind = "deploy" THEN Deploy(v, s.draft) ELSE Reconcile(v, s), w, steps)
=============================================================================
