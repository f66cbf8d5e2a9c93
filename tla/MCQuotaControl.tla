--------------------------- MODULE MCQuotaControl ---------------------------
(* QuotaControl with instances, and administrators, that are alike: no       *)
(* property names one of them.                                               *)
EXTENDS QuotaControl, TLC

Alike == Permutations(Instances) \cup Permutations(Admins)

=============================================================================
