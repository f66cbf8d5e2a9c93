--------------------------- MODULE ConnectionApply ---------------------------
(***************************************************************************)
(* What the deployment of connection profiles promises, without the files, *)
(* the database and the locks it is made of: an administrator asks for a   *)
(* combination of profiles to be served by every gateway instance, and     *)
(* each request ends in one of three ways.  It is applied, and every       *)
(* instance serves that combination; or it failed, and every instance      *)
(* serves what was served before; or it is stuck, says so, and a recovery  *)
(* makes it failed.  Nothing else makes an instance serve anything new.    *)
(*                                                                         *)
(* ConnectionDeploy, where all of this takes some twenty steps with a      *)
(* crash possible between any two, implements this module.                 *)
(***************************************************************************)
CONSTANTS
    Ops,        \* requests
    Sites,      \* gateway instances
    Mixes,      \* combinations of profiles
    None,       \* the combination with no profile, the first one
    Down,       \* serving[i] of an instance that does not run
    Changes(_)  \* what may be asked for while a combination is applied

VARIABLES
    applied,    \* the combination that is applied
    wish,       \* wish[o]: the combination request o asks for
    before,     \* before[o]: what o goes back to when it fails
    status,     \* status[o]
    serving     \* serving[i]: what instance i was last started with

vars == <<applied, wish, before, status, serving>>

Init ==
    /\ applied = None
    /\ wish = [o \in Ops |-> None]
    /\ before = [o \in Ops |-> None]
    /\ status = [o \in Ops |-> "none"]
    /\ serving = [i \in Sites |-> None]

All(mix) == \A i \in Sites : serving[i] = mix
Becomes(o, new) == status' = [status EXCEPT ![o] = new]

Request(o) ==
    /\ status[o] = "none"
    /\ Becomes(o, "waiting")
    /\ \E mix \in Changes(applied) : wish' = [wish EXCEPT ![o] = mix]
    /\ UNCHANGED <<applied, before, serving>>

\* It is not carried out: the world is not the one that was reviewed.
Refuse(o) ==
    /\ status[o] = "waiting"
    /\ Becomes(o, "failed")
    /\ UNCHANGED <<applied, wish, before, serving>>

\* The way back is fixed: to what is applied, unless that is not what is served.
Start(o) ==
    /\ status[o] = "waiting"
    /\ Becomes(o, "rolling")
    /\ \E mix \in Mixes :
         /\ All(applied) /\ (\A p \in Ops : status[p] # "stuck") => mix = applied
         /\ before' = [before EXCEPT ![o] = mix]
    /\ UNCHANGED <<applied, wish, serving>>

Restarted(i, mixes) == \E mix \in mixes \cup {Down} : serving' = [serving EXCEPT ![i] = mix]

Roll(o, i) ==
    /\ status[o] = "rolling"
    /\ Restarted(i, {wish[o], before[o]})
    /\ UNCHANGED <<applied, wish, before, status>>

RollBack(o, i) ==
    /\ status[o] = "stuck"
    /\ Restarted(i, {before[o]})
    /\ UNCHANGED <<applied, wish, before, status>>

Commit(o) ==
    /\ status[o] = "rolling" /\ All(wish[o])
    /\ Becomes(o, "applied")
    /\ applied' = wish[o]
    /\ UNCHANGED <<wish, before, serving>>

Fail(o) ==
    /\ status[o] \in {"rolling", "stuck"} /\ All(before[o])
    /\ Becomes(o, "failed")
    /\ UNCHANGED <<applied, wish, before, serving>>

\* The way back is blocked, perhaps while an instance was being restarted.
Stick(o) ==
    /\ status[o] = "rolling"
    /\ Becomes(o, "stuck")
    /\ UNCHANGED serving \/ \E i \in Sites : Restarted(i, {before[o]})
    /\ UNCHANGED <<applied, wish, before>>

Next == \E o \in Ops :
    \/ Request(o) \/ Refuse(o) \/ Start(o) \/ Commit(o) \/ Fail(o) \/ Stick(o)
    \/ \E i \in Sites : Roll(o, i) \/ RollBack(o, i)

Spec == Init /\ [][Next]_vars

=============================================================================
