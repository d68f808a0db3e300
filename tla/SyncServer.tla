----------------------------- MODULE SyncServer -----------------------------
(***************************************************************************)
(* The cloud side of the durable queue: one Firestore transaction per      *)
(* queue item (FirebaseSyncTarget.apply).  The transaction reads the       *)
(* applied-key marker of the item, and only when there is none it writes   *)
(* the marker together with the entity.                                    *)
(***************************************************************************)
EXTENDS Integers, FiniteSets

CONSTANTS
  Items,    \* the queue items ever built, numbered in the order of creation
  Item,     \* what each item carries: see ItemType
  Keys,     \* idempotency keys
  Entities, \* documents: products, reviews, count rows (session_product), ...
  Events,   \* scan events
  Tenants,  \* businesses
  None      \* no marker, no document, nobody

Ops == {"INCREMENT_COUNT", "SAVE_PRODUCT", "SAVE_UNKNOWN_SCAN", "SAVE_SCAN_EVENT",
        "SAVE_SESSION"}

\* RESOLVE_ALIAS is written exactly as SAVE_SCAN_EVENT and SAVE_SESSION are
\* here: a document set under the marker, with no read of the old one.  The event
\* is the scanEventId of an increment's payload (a transfer has one of its own);
\* scan says whether the item itself carries it as its scanEventId.
ItemType == [op: Ops, entity: Entities, tenant: Tenants, key: Keys,
             event: Events \cup {None}, scan: BOOLEAN, delta: Int, lane: BOOLEAN, clock: Nat]

ASSUME ItemsAssumption == Items \subseteq Nat \ {0}
ASSUME ItemAssumption == Item \in [Items -> ItemType]
ASSUME NoneAssumption == None \notin Items /\ None \notin Tenants

\* A document belongs to a business, in the collection of its operation.
ASSUME EntityAssumption ==
  \A i, j \in Items : Item[i].entity = Item[j].entity =>
    Item[i].op = Item[j].op /\ Item[i].tenant = Item[j].tenant

ASSUME EventAssumption ==
  \A i \in Items : Item[i].op = "INCREMENT_COUNT" => Item[i].event \in Events

VARIABLES
  marker,  \* _appliedKeys: the item that wrote the marker of each key
  counted, \* the increments whose delta reached a count row
  qty,     \* countedQuantity of each count row
  doc      \* the item that last wrote each other document

serverVars == <<marker, counted, qty, doc>>

ServerTypeOK ==
  /\ marker \in [Keys -> Items \cup {None}]
  /\ counted \subseteq Items
  /\ qty \in [Entities -> Int]
  /\ doc \in [Entities -> Items \cup {None}]

ServerInit ==
  /\ marker = [k \in Keys |-> None]
  /\ counted = {}
  /\ qty = [e \in Entities |-> 0]
  /\ doc = [e \in Entities |-> None]

IsIncrement(i) == Item[i].op = "INCREMENT_COUNT"

\* The envelope stored in the marker: everything but the client's lane and id.
Envelope(i) == <<Item[i].op, Item[i].entity, Item[i].event, Item[i].delta, Item[i].clock>>

Unclaimed(i) == marker[Item[i].key] = None

\* The marker of the item's key was written by this very write.
Settled(i) == ~Unclaimed(i) /\ Envelope(marker[Item[i].key]) = Envelope(i)

\* Mutant: the event list of the row is not consulted.
EventListIgnored(i) == FALSE

\* scanEventIds of the count row already lists the item's event.
ScanEventAlreadyCounted(i) ==
  \E j \in counted : Item[j].entity = Item[i].entity /\ Item[j].event = Item[i].event

\* Mutant: no decision clock, the last write to land wins.
LastWriteWins(i) == FALSE

\* The review on the server carries a later decision than the item does.
StaleReviewDecision(i) ==
  /\ Item[i].op = "SAVE_UNKNOWN_SCAN"
  /\ doc[Item[i].entity] # None
  /\ Item[doc[Item[i].entity]].clock > Item[i].clock

\* Mutant: an event the row already holds still moves the quantity.
IncrementRepeats(i) ==
  /\ IsIncrement(i)
  /\ counted' = (IF ScanEventAlreadyCounted(i) THEN counted ELSE counted \cup {i})
  /\ qty' = [qty EXCEPT ![Item[i].entity] = @ + Item[i].delta]
  /\ UNCHANGED doc

Increment(i) ==
  /\ IsIncrement(i)
  /\ IF ScanEventAlreadyCounted(i)
     THEN UNCHANGED <<counted, qty>>
     ELSE /\ counted' = counted \cup {i}
          /\ qty' = [qty EXCEPT ![Item[i].entity] = @ + Item[i].delta]
  /\ UNCHANGED doc

SetDocument(i) ==
  /\ ~IsIncrement(i)
  /\ doc' = IF StaleReviewDecision(i) THEN doc ELSE [doc EXCEPT ![Item[i].entity] = i]
  /\ UNCHANGED <<counted, qty>>

\* The transaction body: the first claim of a key writes, any other leaves the
\* store alone.
Transact(i) ==
  \/ /\ Unclaimed(i)
     /\ marker' = [marker EXCEPT ![Item[i].key] = i]
     /\ Increment(i) \/ SetDocument(i)
  \/ /\ ~Unclaimed(i)
     /\ UNCHANGED serverVars

\* What the transaction answers: ok (first time or alreadyApplied), or the
\* non-retryable idempotency_conflict.
Verdict(i) == IF Unclaimed(i) \/ Settled(i) THEN "gotOk" ELSE "gotQuar"
=============================================================================
