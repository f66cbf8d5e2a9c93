------------------------------ MODULE SourcePull ------------------------------
(***************************************************************************)
(* Collecting the sources into data/: scripts/pull_web_apps.py,            *)
(* pull_tla_contract_usage.py and pull_monitoring.py, and how the loads    *)
(* choose a batch of what is there.                                        *)
(*                                                                         *)
(* The two applications take calls while they are read, so each answer     *)
(* shows them at the moment of the request: a file is the number of calls  *)
(* the server had then (0: no such file).  A pull writes one file after    *)
(* the other into the folder of a day, over what an earlier pull of that   *)
(* day left there; any request may fail and the program may be killed      *)
(* between two writes.  A required page stands for all that are fetched    *)
(* next to it and read by nobody; an optional page is left out.            *)
(***************************************************************************)
EXTENDS Naturals, Sequences, FiniteSets, FiniteSetsExt

CONSTANT Bounds
    \* bounds: a set of [served, days, faults, gateway: how many more calls,
    \* days, failures and gateway calls there are; runs: the operator's programs]

ASSUME BoundsAssumption ==
    \A b \in Bounds : {b.served, b.days, b.faults, b.gateway} \subseteq Nat

VARIABLES
    served,   \* calls the applications have taken
    today,    \* the date
    tree,     \* tree[t][d]: the files of the folder of day d (a folder that is there)
    torn,     \* days whose units-members.json lacks units
    pull,     \* the pull that runs, or how it ended
    left      \* what is left of the bounds

pullVars == <<served, today, tree, torn, pull, left>>

Projects == {"p", "q"}

FilesOf == [ralli |-> {"collections", "stats", "users", "raw"},
            tla |-> {"units", "members", "usage"},
            series |-> Projects]
Trees == DOMAIN FilesOf
NoFile(t) == [f \in FilesOf[t] |-> 0]
Heavy == {"raw"}

\* What a pull does, in order.  crosscheck and members follow their pages.
Items == [
    apps |-> <<<<"ralli", "collections">>, <<"ralli", "stats">>, <<"ralli", "users">>,
               <<"ralli", "raw">>, <<"ralli", "crosscheck">>,
               <<"tla", "units">>, <<"tla", "members">>>>,
    token |-> <<>>,
    usage |-> <<<<"tla", "days">>, <<"tla", "usage">>>>,
    series |-> <<<<"series", "p">>, <<"series", "q">>>>]
Kinds == DOMAIN Items

NoPull == [kind |-> "none", todo |-> <<>>, bad |-> FALSE, thin |-> FALSE, day |-> 1,
           seen |-> 0, code |-> "ok"]

PullInit ==
    /\ served = 1 /\ today = 1
    /\ \/ tree = [t \in Trees |-> <<>>]
       \/ tree = [t \in Trees |-> [d \in {1} |-> [f \in FilesOf[t] |-> 1]]]
    /\ torn = {}
    /\ pull = NoPull
    /\ left \in Bounds

-----------------------------------------------------------------------------
(* The world. *)

Use(what) == left[what] > 0 /\ left' = [left EXCEPT ![what] = @ - 1]

Grow ==
    /\ Use("served")
    /\ served' = served + 1
    /\ UNCHANGED <<today, tree, torn, pull>>

NewDay ==
    /\ Use("days")
    /\ today' = today + 1
    /\ UNCHANGED <<served, tree, torn, pull>>

-----------------------------------------------------------------------------
(* A pull. *)

Running == pull.code = "running"
Item == Head(pull.todo)
Folder(t, d) == IF d \in DOMAIN tree[t] THEN tree[t][d] ELSE NoFile(t)
With(folders, d, files) == [e \in DOMAIN folders \cup {d} |-> IF e = d THEN files ELSE folders[e]]
Put(t, d, f, v) == [tree EXCEPT ![t] = With(@, d, [Folder(t, d) EXCEPT ![f] = v])]
MakeFolder(t, d) == [tree EXCEPT ![t] = With(@, d, Folder(t, d))]
Done(item, bad) == [pull EXCEPT !.todo = Tail(@), !.bad = @ \/ bad]
Fault == Use("faults")
Exit(code) == pull' = [NoPull EXCEPT !.code = code]
Fails == Exit("failed")

StartPull(kind, thin) ==
    /\ ~Running
    /\ pull' = [NoPull EXCEPT !.kind = kind, !.thin = thin, !.day = today, !.todo = Items[kind],
                               !.code = "running"]
    /\ UNCHANGED <<served, today, tree, torn>>

(* get_token of every application, before anything else: a login refused in *)
(* each of its forms, or no account at all, ends the program.               *)
NoToken ==
    /\ Running /\ pull.todo = Items[pull.kind]
    /\ Fault /\ Fails
    /\ UNCHANGED <<served, today, tree, torn>>

IsPage == Item[1] # "series" /\ Item[2] \in FilesOf[Item[1]] \ {"members", "usage"}

\* Variant: a page that could not be fetched is not held against the pull.
FetchFails_Ignored ==
    /\ Running /\ pull.todo # <<>> /\ IsPage
    /\ Fault
    /\ pull' = Done(Item, FALSE)
    /\ tree' = MakeFolder(Item[1], pull.day)
    /\ UNCHANGED <<served, today, torn>>

(* pull_one_app: the folder is made, the page kept as it came; one that     *)
(* cannot be had after three attempts, is refused or is no JSON leaves the  *)
(* file of an earlier pull and fails the pull at its end.                   *)
FetchFails ==
    /\ Running /\ pull.todo # <<>> /\ IsPage
    /\ Fault
    /\ pull' = Done(Item, TRUE)
    /\ tree' = MakeFolder(Item[1], pull.day)
    /\ UNCHANGED <<served, today, torn>>

Fetch ==
    /\ Running /\ pull.todo # <<>> /\ IsPage
    /\ tree' = IF pull.thin /\ Item[2] \in Heavy THEN tree ELSE Put(Item[1], pull.day, Item[2], served)
    /\ pull' = Done(Item, FALSE)
    /\ UNCHANGED <<served, today, torn, left>>

(* pull_project: a project's series go to its file when all are there; a    *)
(* request that fails ends the program.                                     *)
FetchSeries ==
    /\ Running /\ pull.todo # <<>> /\ Item[1] = "series"
    /\ tree' = Put("series", pull.day, Item[2], served)
    /\ pull' = Done(Item, FALSE)
    /\ UNCHANGED <<served, today, torn, left>>

SeriesFails ==
    /\ Running /\ pull.todo # <<>> /\ Item[1] = "series"
    /\ Fault /\ Fails
    /\ tree' = MakeFolder("series", pull.day)
    /\ UNCHANGED <<served, today, torn>>

(* crosscheck_ralli: the export has the number of records the application   *)
(* declares.                                                                *)
CrossCheck ==
    /\ Running /\ pull.todo # <<>> /\ Item[2] = "crosscheck"
    /\ LET f == Folder("ralli", pull.day)
       IN  pull' = Done(Item, ~pull.thin /\ (f["raw"] = 0 \/ f["collections"] # f["raw"]))
    /\ UNCHANGED <<served, today, tree, torn, left>>

(* pull_tla_members: one request per unit of units.json; the list is        *)
(* written even when units are missing from it.                             *)
MembersOf(whole) ==
    /\ Running /\ pull.todo # <<>> /\ Item[2] = "members"
    /\ IF pull.thin THEN pull' = Done(Item, FALSE) /\ UNCHANGED <<tree, torn>>
       ELSE IF Folder("tla", pull.day)["units"] = 0
       THEN pull' = Done(Item, TRUE) /\ UNCHANGED <<tree, torn>>
       ELSE /\ tree' = Put("tla", pull.day, "members", served)
            /\ torn' = IF whole THEN torn \ {pull.day} ELSE torn \cup {pull.day}
            /\ pull' = Done(Item, ~whole)
    /\ UNCHANGED <<served, today>>

Members == (MembersOf(TRUE) /\ UNCHANGED left) \/ (MembersOf(FALSE) /\ Fault)

(* pull_tla_contract_usage: the totals of the days, then day by day and     *)
(* user by user.  The calls of the rows must be those of the totals, and    *)
(* only then a file is written, in the folder of the day it is written.     *)
UsageDays ==
    /\ Running /\ pull.todo # <<>> /\ Item[2] = "days"
    /\ pull' = [Done(Item, FALSE) EXCEPT !.seen = served]
    /\ UNCHANGED <<served, today, tree, torn, left>>

UsageRows ==
    /\ Running /\ pull.todo # <<>> /\ Item[2] = "usage"
    /\ IF served = pull.seen
       THEN tree' = Put("tla", today, "usage", served) /\ pull' = Done(Item, FALSE)
       ELSE tree' = tree /\ Fails
    /\ UNCHANGED <<served, today, torn, left>>

(* A required page or a cross-check that failed is exit code 1.             *)
EndPull ==
    /\ Running /\ pull.todo = <<>>
    /\ Exit(IF pull.bad THEN "failed" ELSE "ok")
    /\ UNCHANGED <<served, today, tree, torn, left>>

KillPull ==
    /\ Running /\ Fault /\ Fails
    /\ UNCHANGED <<served, today, tree, torn>>

PullStep == Fetch \/ FetchSeries \/ CrossCheck \/ Members \/ UsageDays \/ UsageRows \/ EndPull
PullFault == NoToken \/ FetchFails \/ SeriesFails \/ KillPull

-----------------------------------------------------------------------------
(* Which batch a load takes: 0 when there is none. *)

Newest(days) == IF days = {} THEN 0 ELSE Max(days)

(* load_org._latest and load_tla_contract._latest: the newest folder that   *)
(* has every file.                                                          *)
Latest(t, required) == Newest({d \in DOMAIN tree[t] : \A f \in required : tree[t][d][f] # 0})

(* load_ralli._latest_ralli: the newest folder.                             *)
LatestRalli == Newest(DOMAIN tree["ralli"])

OrgRalli == Latest("ralli", {"users", "raw"})
OrgTla == Latest("tla", {"units", "members"})
UsageFolder == Latest("tla", {"usage"})

=============================================================================
