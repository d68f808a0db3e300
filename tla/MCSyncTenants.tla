------------------------------- MODULE MCSyncTenants -------------------------------
(* Two businesses on one device: a product whose writes sit in both lanes, and a
   product of the other business. *)
EXTENDS SyncDrain, TLC

Prod(e, b, k, lane) ==
  [op |-> "SAVE_PRODUCT", entity |-> e, tenant |-> b, key |-> k,
   event |-> None, scan |-> FALSE, delta |-> 0, lane |-> lane, clock |-> 0]

MCItem == 1 :> Prod("A", "b1", "k1", TRUE) @@ 2 :> Prod("A", "b1", "k2", FALSE)
          @@ 3 :> Prod("C", "b2", "k3", TRUE)
MCItems == 1..3
Symmetry == Permutations(Passes)
=============================================================================
