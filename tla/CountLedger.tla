---------------------------- MODULE CountLedger -----------------------------
(***************************************************************************)
(* What the sync layer promises of a count: a row is a total over events,  *)
(* and an event is posted to a row once or not at all.                     *)
(***************************************************************************)
EXTENDS Integers

CONSTANTS Rows, Events, Amounts

VARIABLES
  posted, \* the events each row holds
  total   \* the quantity of each row

Init ==
  /\ posted = {}
  /\ total = [r \in Rows |-> 0]

Post(r, e, amount) ==
  /\ <<r, e>> \notin posted
  /\ posted' = posted \cup {<<r, e>>}
  /\ total' = [total EXCEPT ![r] = @ + amount]

Next == \E r \in Rows, e \in Events, amount \in Amounts : Post(r, e, amount)

Spec == Init /\ [][Next]_<<posted, total>>
=============================================================================
