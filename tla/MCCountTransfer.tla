-------------------------- MODULE MCCountTransfer ---------------------------
(* One verified product and an unknown code. *)
EXTENDS CountTransfer

Verified(codes, primary) ==
  [codes |-> codes, primary |-> primary, trusted |-> TRUE, provisional |-> FALSE,
   status |-> "active"]

OneProduct == <<Verified({"c1"}, "c1")>>
=============================================================================
