-------------------------- MODULE MCConnectionDeploy --------------------------
(* Instances of ConnectionDeploy for TLC. *)
EXTENDS ConnectionDeploy

CONSTANTS a, b, s1, s2

(* Agent a moves to the second secret with its second draft; b shares the first. *)
MCSecretOf ==
    [c \in Codes |-> [r \in 1..MaxRev |-> IF c = a /\ r > 1 THEN s2 ELSE s1]]

(* Bound of deploy_edits: an edit and a crash of the worker both happen only   *)
(* in a behaviour with a single operation.                                     *)
OneUpset == edits + crashes <= 1 \/ lastOp <= 1
=============================================================================
