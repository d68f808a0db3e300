---------------------------- MODULE MCSyncCounts ----------------------------
(* Counts: a scan, a new session, and the scan's event queued again under
   another key (a scan event that was repointed). *)
EXTENDS SyncDrain, TLC

Inc(k, ev, d) ==
  [op |-> "INCREMENT_COUNT", entity |-> "row1", tenant |-> "b1", key |-> k,
   event |-> ev, scan |-> TRUE, delta |-> d, lane |-> FALSE, clock |-> 0]

Session(k) ==
  [op |-> "SAVE_SESSION", entity |-> "s2", tenant |-> "b1", key |-> k,
   event |-> None, scan |-> FALSE, delta |-> 0, lane |-> FALSE, clock |-> 0]

MCItem == 1 :> Inc("k1", "ev1", 1) @@ 2 :> Session("k2") @@ 3 :> Inc("k3", "ev1", 5)
MCItems == 1..3
Symmetry == Permutations(Passes)
=============================================================================
