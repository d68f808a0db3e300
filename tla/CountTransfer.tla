---------------------------- MODULE CountTransfer ---------------------------
(***************************************************************************)
(* The law of the counter, scan N = count N, while products are deleted,   *)
(* restored and sessions rotate.  Deleting a product moves its count rows  *)
(* to a provisional product minted for the purpose; undo moves them back   *)
(* and leaves what was scanned in between.  Both send increments of        *)
(* opposite sign through the durable queue, so the rows of the cloud       *)
(* follow those of the store, later and in any order: a failed increment   *)
(* does not hold back the ones behind it.                                  *)
(*                                                                         *)
(* Only count rows travel here: products and feed rows that are saved in   *)
(* the cloud too are the subject of SyncServer.                            *)
(***************************************************************************)
EXTENDS Integers, FiniteSets, Sequences, FiniteSetsExt

CONSTANTS
  Codes,       \* barcodes
  Catalogue,   \* the verified products the store starts with
  MaxScans, MaxProducts, MaxSessions, MaxRows,  \* bounds of the instance
  None,
  May          \* what the user of this instance does besides

Kinds == {"redelete", "lateundo"}
Keys == {"scan", "delete-out", "delete-in", "undo-out", "undo-in"} \X Nat
Marks == {"scan", "delete", "undo"} \X Nat  \* scanEventId of an increment

ASSUME CatalogueAssumption ==
  /\ Catalogue \in Seq([codes: SUBSET Codes, primary: Codes, trusted: {TRUE},
                        provisional: {FALSE}, status: {"active"}])
  /\ Len(Catalogue) <= MaxProducts
ASSUME BoundsAssumption ==
  {MaxScans, MaxProducts, MaxRows} \subseteq Nat /\ MaxSessions \in Nat \ {0}
ASSUME KindsAssumption == May \subseteq Kinds /\ None \notin Nat

VARIABLES
  session,   \* number of the current session
  scans,     \* physical scans so far; an event is the number of its scan
  products,  \* the products array; a product is its index
  made,      \* count rows made so far; a row keeps its number for life
  rows,      \* finalCounts
  feed,      \* scanFeed
  backup,    \* lastProductDeleteBackup
  queue,     \* the increments of pendingSyncQueue
  applied,   \* cloud: the increment that wrote the marker of its key
  cloud,     \* cloud: countedQuantity of each (session, product)
  refused    \* increments quarantined as idempotency_conflict

vars == <<session, scans, products, made, rows, feed, backup, queue, applied, cloud, refused>>
remote == <<applied, cloud, refused>>

Ids == 1..MaxProducts
Rows == [id: 1..MaxRows, session: 1..MaxSessions, product: Ids, qty: 0..MaxScans,
         events: SUBSET (1..MaxScans)]
FeedRows == [event: 1..MaxScans, session: 1..MaxSessions, code: Codes,
             product: Ids \cup {None}, delta: {0, 1}]
Increments == [key: Keys, session: 1..MaxSessions, product: Ids, mark: Marks, delta: Int]
Product == [codes: SUBSET Codes, primary: Codes, trusted: BOOLEAN, provisional: BOOLEAN,
            status: {"active", "archived", "removed"}]

TypeOK ==
  /\ session \in 1..MaxSessions /\ scans \in 0..MaxScans /\ made \in 0..MaxRows
  /\ products \in Seq(Product) /\ Len(products) <= MaxProducts
  /\ rows \subseteq Rows /\ feed \subseteq FeedRows
  /\ backup = None \/ (backup.rows \subseteq Rows /\ backup.feed \subseteq FeedRows)
  /\ \A S \in {queue, applied, refused} : S \subseteq Increments
  /\ cloud \in [(1..MaxSessions) \X Ids -> Int]

Init ==
  /\ session = 1 /\ scans = 0 /\ products = Catalogue /\ made = 0
  /\ rows = {} /\ feed = {} /\ backup = None /\ queue = {}
  /\ applied = {} /\ cloud = [c \in (1..MaxSessions) \X Ids |-> 0] /\ refused = {}

Total(S) == MapThenSumSet(LAMBDA r : r.qty, S)
Increment(kind, n, s, p, mark, d) ==
  [key |-> <<kind, n>>, session |-> s, product |-> p, mark |-> <<mark, n>>, delta |-> d]

-----------------------------------------------------------------------------
(* processScan *)

Known == {p \in DOMAIN products : products[p].status # "removed"}
Trusted(c) == {p \in Known : products[p].trusted /\ c \in products[p].codes}
Counted == {p \in Known : products[p].status = "active" /\ \E r \in rows : r.product = p}

\* The re-scan bridge: a provisional product that is counted and carries the code.
Bridge(c) == {p \in Counted : products[p].provisional /\ c \in products[p].codes}

\* Any counted product carries the code: ensureProvisionalCount has nothing to do.
AlreadyCounted(c) == {p \in Counted : c \in products[p].codes}

FeedRow(c, p, d) ==
  [event |-> scans + 1, session |-> session, code |-> c, product |-> p, delta |-> d]

\* incrementInventoryCount, with the increment it queues.
CountOn(c, p) ==
  LET mine == {r \in rows : r.product = p /\ r.session = session}
      e == scans + 1
  IN /\ IF mine # {}
        THEN LET r == CHOOSE r \in mine : TRUE
             IN /\ rows' = (rows \ {r}) \cup {[r EXCEPT !.qty = @ + 1, !.events = @ \cup {e}]}
                /\ UNCHANGED made
        ELSE /\ made < MaxRows /\ made' = made + 1
             /\ rows' = rows \cup {[id |-> made', session |-> session, product |-> p,
                                    qty |-> 1, events |-> {e}]}
     /\ feed' = feed \cup {FeedRow(c, p, 1)}
     /\ queue' = queue \cup {Increment("scan", e, session, p, "scan", 1)}

Provisional(c) == [codes |-> {c}, primary |-> c, trusted |-> FALSE, provisional |-> TRUE,
                   status |-> "active"]
Mint(c) == /\ Len(products) < MaxProducts
           /\ products' = Append(products, Provisional(c))

ScanKnown(c) ==
  /\ Cardinality(Trusted(c)) = 1
  /\ \E p \in Trusted(c) : CountOn(c, p)
  /\ UNCHANGED products

ScanBridged(c) ==
  /\ Cardinality(Trusted(c)) # 1 /\ Bridge(c) # {}
  /\ CountOn(c, Min(Bridge(c)))
  /\ UNCHANGED products

\* Nobody knows the code, or two products claim it.
ScanUnknown(c) ==
  /\ Cardinality(Trusted(c)) # 1 /\ Bridge(c) = {}
  /\ IF AlreadyCounted(c) # {}
     THEN /\ feed' = feed \cup {FeedRow(c, None, 0)}
          /\ UNCHANGED <<products, made, rows, queue>>
     ELSE Mint(c) /\ CountOn(c, Len(products) + 1)

Scan(c) ==
  /\ scans < MaxScans /\ scans' = scans + 1
  /\ ScanKnown(c) \/ ScanBridged(c) \/ ScanUnknown(c)
  /\ UNCHANGED <<session, backup, remote>>

-----------------------------------------------------------------------------
(* deleteProductsInternal and undoDeleteProduct *)

RowsOf(p) == {r \in rows : r.product = p}
FeedOf(p) == {f \in feed : f.product = p}
Carries(p) == Total(RowsOf(p)) > 0

\* The code the provisional product is filed under: that of the last scan.
CodeOf(p) ==
  IF FeedOf(p) # {} THEN (CHOOSE f \in FeedOf(p) : \A g \in FeedOf(p) : g.event <= f.event).code
  ELSE products[p].primary

\* Where the rows of p go; a product that counts nothing leaves none.
Heir(p) == IF Carries(p) THEN Len(products) + 1 ELSE None

\* Mutant: the rows of a deleted product are dropped (feed 124, counts 122).
RowsDropped(p) == rows \ RowsOf(p)
RowsAfterDelete(p) ==
  (rows \ RowsOf(p)) \cup
  {[r EXCEPT !.product = Heir(p)] : r \in {x \in RowsOf(p) : Carries(p)}}

\* The zero-out and re-add pair of each row.
DeleteIncrements(p) ==
  UNION {{Increment("delete-out", r.id, r.session, p, "delete", -r.qty),
          Increment("delete-in", r.id, r.session, Heir(p), "delete", r.qty)} :
         r \in {x \in RowsOf(p) : x.qty > 0}}

Archived(p) == [products[p] EXCEPT !.status = "archived", !.trusted = FALSE]

Delete(p) ==
  /\ p \in Known
  /\ \/ "redelete" \in May
     \/ /\ products[p].status = "active"
        /\ \A r \in RowsOf(p), i \in queue \cup applied : i.key # <<"delete-out", r.id>>
  /\ IF Carries(p)
     THEN /\ Len(products) < MaxProducts
          /\ products' = Append([products EXCEPT ![p] = Archived(p)], Provisional(CodeOf(p)))
     ELSE products' = [products EXCEPT ![p] = Archived(p)]
  /\ rows' = RowsAfterDelete(p)
  /\ feed' = (feed \ FeedOf(p)) \cup {[f EXCEPT !.product = Heir(p)] : f \in FeedOf(p)}
  /\ backup' = [of |-> p, product |-> products[p], rows |-> RowsOf(p), feed |-> FeedOf(p),
                minted |-> Heir(p)]
  /\ queue' = queue \cup DeleteIncrements(p)
  /\ UNCHANGED <<session, scans, made, remote>>

\* The live row that a row of the backup has become.
Live(r) == {x \in rows : x.id = r.id}

\* Mutants: nothing is carved off; the reversal reuses the keys of the delete;
\* the provisional row is emptied whatever was transferred.
NoSurplus == {}
UndoReusesKeys ==
  UNION {{Increment("delete-in", r.id, r.session, r.product, "delete", r.qty)} \cup
         {Increment("delete-out", r.id, r.session, x.product, "delete", -r.qty) :
            x \in {y \in Live(r) : y.product # r.product}} :
         r \in {b \in backup.rows : b.qty > 0}}
UndoEmptiesRow ==
  UNION {{Increment("undo-in", r.id, r.session, r.product, "undo", r.qty)} \cup
         {Increment("undo-out", r.id, r.session, x.product, "undo", -x.qty) :
            x \in {y \in Live(r) : y.product # r.product}} :
         r \in {b \in backup.rows : b.qty > 0}}

\* The reverse pair of each row; it is half a pair when the row is gone.
UndoIncrements ==
  UNION {{Increment("undo-in", r.id, r.session, r.product, "undo", r.qty)} \cup
         {Increment("undo-out", r.id, r.session, x.product, "undo", -r.qty) :
            x \in {y \in Live(r) : y.product # r.product}} :
         r \in {b \in backup.rows : b.qty > 0}}

\* What was scanned since stays with the provisional product, in a row of its own.
Surplus ==
  UNION {{[x EXCEPT !.qty = @ - r.qty, !.events = @ \ r.events] :
           x \in {y \in Live(r) : y.qty > r.qty}} : r \in backup.rows}

Undo ==
  /\ backup # None
  /\ "lateundo" \in May \/ \A r \in backup.rows : r.session = session
  /\ made + Cardinality(Surplus) <= MaxRows
  /\ made' = made + Cardinality(Surplus)
  /\ \E number \in {f \in [Surplus -> made+1..made'] : \A x, y \in Surplus : f[x] = f[y] => x = y} :
       rows' = {r \in rows : \A b \in backup.rows : b.id # r.id} \cup backup.rows
               \cup {[x EXCEPT !.id = number[x]] : x \in Surplus}
  /\ products' = [p \in DOMAIN products |->
       IF p = backup.of THEN backup.product
       ELSE IF p = backup.minted /\ \A r \in rows' : r.product # p
            THEN [products[p] EXCEPT !.status = "removed"] ELSE products[p]]
  /\ feed' = {f \in feed : \A b \in backup.feed : b.event # f.event}
             \cup {b \in backup.feed : \E f \in feed : b.event = f.event}
  /\ queue' = queue \cup UndoIncrements
  /\ backup' = None
  /\ UNCHANGED <<session, scans, remote>>

\* A new session: the feed is wiped and the rows of the one before are dropped
\* (they are archived); the queue and the backup stay.
Rotate ==
  /\ session < MaxSessions /\ session' = session + 1
  /\ feed' = {}
  /\ rows' = {r \in rows : r.session # session}
  /\ UNCHANGED <<scans, products, made, backup, queue, remote>>

-----------------------------------------------------------------------------
\* One increment reaches the cloud: the first of its key is applied, the same
\* again is a no-op, another under that key is refused; a row takes an event once.
Drain(i) ==
  /\ i \in queue /\ queue' = queue \ {i}
  /\ IF \E a \in applied : a.key = i.key
     THEN /\ refused' = (IF i \in applied THEN refused ELSE refused \cup {i})
          /\ UNCHANGED <<applied, cloud>>
     ELSE /\ applied' = applied \cup {i}
          /\ cloud' = IF \E a \in applied : <<a.session, a.product, a.mark>> = <<i.session, i.product, i.mark>>
                      THEN cloud ELSE [cloud EXCEPT ![<<i.session, i.product>>] = @ + i.delta]
          /\ UNCHANGED refused
  /\ UNCHANGED <<session, scans, products, made, rows, feed, backup>>

Next ==
  \/ \E c \in Codes : Scan(c)
  \/ \E p \in Ids : Delete(p)
  \/ Undo \/ Rotate
  \/ \E i \in queue : Drain(i)

Spec == Init /\ [][Next]_vars

-----------------------------------------------------------------------------
(* Properties *)

\* The top-level law: the current session counts exactly its physical scans,
\* whatever was deleted, restored or left behind.
ScanNCountN ==
  Total({r \in rows : r.session = session}) = Cardinality({f \in feed : f.session = session})

\* The books balance: replaying the feed of the session gives its rows, their
\* quantities and their events, and nothing else.
BooksBalance ==
  \A p \in Ids :
    LET replayed == {f \in feed : f.session = session /\ f.product = p}
        mine == {r \in rows : r.session = session /\ r.product = p}
    IN /\ Total(mine) = MapThenSumSet(LAMBDA f : f.delta, replayed)
       /\ UNION {r.events : r \in mine} = {f.event : f \in replayed}

\* Once the queue is drained, each row of the store is that of the cloud.
CloudAgrees ==
  queue = {} => \A r \in rows :
    cloud[<<r.session, r.product>>] =
      Total({x \in rows : x.session = r.session /\ x.product = r.product})

\* A transfer is net zero: with no transfer under way, a session adds up in the
\* cloud to the scans that arrived.
TransfersNetZero ==
  (\A i \in queue : i.key[1] = "scan") =>
    \A s \in 1..MaxSessions :
      MapThenSumSet(LAMBDA p : cloud[<<s, p>>], Ids) =
        Cardinality({a \in applied : a.session = s /\ a.key[1] = "scan"})
=============================================================================
