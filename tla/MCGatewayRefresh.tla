--------------------------- MODULE MCGatewayRefresh ---------------------------
(* GatewayRefresh with an agent "old" that was always there and an agent    *)
(* "new" that is registered at some time, with reports from time 1 on.      *)
EXTENDS GatewayRefresh

MCStartOf == [c \in Codes |-> IF c \in Legacy THEN 0 ELSE 1]
MCTags    == {{}} \cup {{c} : c \in Codes}

=============================================================================
