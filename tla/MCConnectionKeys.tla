--------------------------- MODULE MCConnectionKeys ---------------------------
(* ConnectionKeys with operations of every kind on one key, edited at the    *)
(* gateway, and with two keys that are issued and revoked together.          *)
EXTENDS ConnectionKeys

CONSTANTS a, b1, unlimited

MCBudgets == {unlimited, b1}

MCBounds == {
    [kinds |-> {"issue", "revoke", "budget", "recover"}, budgets |-> MCBudgets,
     keys |-> 1, edits |-> 0, crashes |-> 1],
    [kinds |-> {"issue", "budget", "recover"}, budgets |-> {b1},
     keys |-> 1, edits |-> 1, crashes |-> 0],
    [kinds |-> {"issue", "revoke"}, budgets |-> {},
     keys |-> 2, edits |-> 0, crashes |-> 1]}

===============================================================================
