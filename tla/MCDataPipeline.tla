---------------------------- MODULE MCDataPipeline ----------------------------
(* DataPipeline with a few short careers of the operator: updates that fail *)
(* and are made again, pulls by hand before an update or a rebuild, and     *)
(* rebuilds from any step and load_ralli alone next to the refresh loop.    *)
EXTENDS DataPipeline

Bound(programs, calls, days, faults, gateway) ==
    [runs |-> programs, served |-> calls, days |-> days, faults |-> faults, gateway |-> gateway]

MCBounds == {
    Bound(<<"update", "update">>, 1, 0, 1, 0),
    Bound(<<"apps", "update">>, 1, 1, 1, 0),
    Bound(<<"usage", "apps", "rebuild">>, 1, 1, 1, 0),
    Bound(<<"apps", "rebuild">>, 1, 0, 0, 1),
    Bound(<<"rebuild", "rebuild">>, 0, 0, 1, 1),
    Bound(<<"ralli", "ralli">>, 0, 0, 1, 2)}

===============================================================================
