------------------------------ MODULE MCReload ------------------------------
(* Instances of ReloadMerge.  The first two keep the deletes and the loads     *)
(* apart; the others let them meet and show what that does.                   *)
EXTENDS ReloadMerge, TLC

Businesses == Permutations(Tenants)

Together == {"load", "refresh", "switch", "otherScan", "fail",
             "unsavedSession"}
Alone == {"refresh", "delete", "rotate", "fail"}
Reloading == {"load", "delete"}
History == {"refresh", "refreshDuringLoad"}
=============================================================================
