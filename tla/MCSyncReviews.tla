------------------------------- MODULE MCSyncReviews -------------------------------
(* Two decisions on one review, queued in the order they were made. *)
EXTENDS SyncDrain, TLC

Decision(k, at) ==
  [op |-> "SAVE_UNKNOWN_SCAN", entity |-> "review", tenant |-> "b1", key |-> k,
   event |-> None, scan |-> FALSE, delta |-> 0, lane |-> FALSE, clock |-> at]

MCItem == 1 :> Decision("k1", 1) @@ 2 :> Decision("k2", 2)
MCItems == 1..2
Symmetry == Permutations(Passes)
=============================================================================
