----------------------------- MODULE MCSyncLive -----------------------------
(* A product write for the concurrent lane, then a scan event. *)
EXTENDS SyncDrain, TLC

Write(op, e, k, lane) ==
  [op |-> op, entity |-> e, tenant |-> "b1", key |-> k,
   event |-> None, scan |-> FALSE, delta |-> 0, lane |-> lane, clock |-> 0]

MCItem == 1 :> Write("SAVE_PRODUCT", "A", "k1", TRUE)
          @@ 2 :> Write("SAVE_SCAN_EVENT", "ev1", "k2", FALSE)
MCItems == 1..2
=============================================================================
