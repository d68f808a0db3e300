------------------------------ MODULE MCSyncProducts ------------------------------
(* Product writes: two of one product and one of another in the concurrent lane. *)
EXTENDS SyncDrain, TLC

Prod(e, k, lane) ==
  [op |-> "SAVE_PRODUCT", entity |-> e, tenant |-> "b1", key |-> k,
   event |-> None, scan |-> FALSE, delta |-> 0, lane |-> lane, clock |-> 0]

MCItem == 1 :> Prod("A", "k1", TRUE) @@ 2 :> Prod("A", "k2", TRUE)
          @@ 3 :> Prod("B", "k3", TRUE)
MCItems == 1..3
Symmetry == Permutations(Passes)
=============================================================================
