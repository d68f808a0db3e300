----------------------------- MODULE ReloadMerge ----------------------------
(***************************************************************************)
(* A page that holds unsynced scans reads its business back from the       *)
(* cloud.  There are two ways in: setBusinessContext loads the business of *)
(* a mount or of a switch, refreshFromCloud merges on the user's demand.   *)
(* Both await a snapshot, and scans, drains and other loads go on while    *)
(* they wait.  A second device writes to the same sessions.                *)
(*                                                                         *)
(* The queue has no passes here: SyncDrain justifies that an item lands    *)
(* once, later, in any order, and leaves the queue after it landed.        *)
(***************************************************************************)
EXTENDS Integers, FiniteSets, Sequences, FiniteSetsExt

CONSTANTS
  Tenants,
  MaxScans, MaxSessions, MaxProducts, MaxLoads, \* bounds of the instance
  None,
  May  \* what happens in this instance besides scanning and sending

Kinds == {"load", "refresh", "switch", "delete", "rotate", "otherScan",
          "fail", "landDuringLoad", "refreshDuringLoad", "unsavedSession"}

ASSUME BoundsAssumption == {MaxScans, MaxSessions, MaxProducts, MaxLoads} \subseteq Nat \ {0}
ASSUME MayAssumption == May \subseteq Kinds /\ None \notin Tenants \cup Nat

VARIABLES
  tenant,    \* businessId, None before the first setBusinessContext
  loaded,    \* businessDataLoaded
  session,   \* sessionId
  rows,      \* finalCounts: [qty, id] of each (session, product) that has a row
  feed,      \* scanFeed: the scans on screen
  archived,  \* products with status archived
  queue,     \* pendingSyncQueue
  landed,    \* items of the queue whose transaction has committed
  loads,     \* every load begun; the last one carries businessLoadGeneration
  others,    \* what the second device has still to send
  cloudRows, cloudFeed, cloudSessions, cloudArchived, \* the documents
  scans,     \* every physical scan: its session and whether it was made here
  owner,     \* the business of each session begun so far
  products   \* number of products made so far

vars == <<tenant, loaded, session, rows, feed, archived, queue, landed, loads, others,
          cloudRows, cloudFeed, cloudSessions, cloudArchived, scans, owner, products>>
cloud == <<cloudRows, cloudFeed, cloudSessions, cloudArchived>>
view == <<session, rows, feed, archived>>

Sessions == 1..MaxSessions
Products == 1..MaxProducts
Events == 1..MaxScans
RowKeys == Sessions \X Products

\* A row made here has an id of its own, one that was read the id of its document.
RowIds == Sessions \X Products \X {"made", "read"}
MadeId(k) == <<k[1], k[2], "made">>
ReadId(k) == <<k[1], k[2], "read">>

Row == [qty: Int, id: RowIds]

Item ==
  [op: {"SAVE_SCAN_EVENT"}, tenant: Tenants, session: Sessions, product: {None},
   event: Events, id: {None}, delta: {0}]
  \cup [op: {"SAVE_SESSION"}, tenant: Tenants, session: Sessions, product: {None},
        event: {None}, id: {None}, delta: {0}]
  \cup [op: {"SAVE_PRODUCT"}, tenant: Tenants, session: Sessions, product: Products,
        event: {None}, id: {None}, delta: {0}]
  \cup [op: {"INCREMENT_COUNT"}, tenant: Tenants, session: Sessions, product: Products,
        event: Events \cup {None}, id: RowIds, delta: Int]

\* A load that has read, or forgotten, rows for the keys D.
Load(D) == [kind: {"load", "refresh"}, tenant: Tenants, phase: {"asked", "rows", "read", "done"},
            rows: [D -> Int], feed: SUBSET Events, sessions: SUBSET Sessions,
            archived: SUBSET Products]

RowMap(f, V) == DOMAIN f \subseteq RowKeys /\ f \in [DOMAIN f -> V]

TypeOK ==
  /\ tenant \in Tenants \cup {None} /\ loaded \in BOOLEAN
  /\ session \in Sessions \cup {None} /\ RowMap(rows, Row)
  /\ feed \subseteq Events /\ archived \subseteq Products
  /\ queue \subseteq Item /\ landed \subseteq queue /\ others \subseteq Item
  /\ Len(loads) <= MaxLoads
  /\ \A l \in DOMAIN loads : RowMap(loads[l].rows, Int) /\ loads[l] \in Load(DOMAIN loads[l].rows)
  /\ RowMap(cloudRows, Int) /\ cloudFeed \subseteq Events
  /\ cloudSessions \subseteq Sessions /\ cloudArchived \subseteq Tenants \X Products
  /\ scans \in Seq([session: Sessions, here: BOOLEAN]) /\ Len(scans) <= MaxScans
  /\ owner \in Seq(Tenants) /\ Len(owner) <= MaxSessions
  /\ products \in Products

NoRows == [k \in {} |-> 0]

Init ==
  /\ tenant = None /\ loaded = FALSE /\ session = None
  /\ rows = NoRows /\ feed = {} /\ archived = {} /\ queue = {} /\ landed = {}
  /\ loads = <<>> /\ others = {}
  /\ cloudRows = NoRows /\ cloudFeed = {} /\ cloudSessions = {} /\ cloudArchived = {}
  /\ scans = <<>> /\ owner = <<>> /\ products = 1

-----------------------------------------------------------------------------
(* Items of the queue *)

EventItem(t, s, e) == [op |-> "SAVE_SCAN_EVENT", tenant |-> t, session |-> s, product |-> None,
                       event |-> e, id |-> None, delta |-> 0]
SessionItem(t, s) == [op |-> "SAVE_SESSION", tenant |-> t, session |-> s, product |-> None,
                      event |-> None, id |-> None, delta |-> 0]
ArchiveItem(t, s, p) == [op |-> "SAVE_PRODUCT", tenant |-> t, session |-> s, product |-> p,
                         event |-> None, id |-> None, delta |-> 0]
CountItem(t, k, id, e, d) == [op |-> "INCREMENT_COUNT", tenant |-> t, session |-> k[1],
                              product |-> k[2], event |-> e, id |-> id, delta |-> d]

\* Mutant: the quantity is taken off the old row and not put on the new one.
TakeOff(t, p, q, R) ==
  {CountItem(t, k, R[k].id, None, -R[k].qty)
   : k \in {k \in DOMAIN R : k[2] = p /\ R[k].qty > 0}}

\* The delete-transfer pair of each row of p that carries quantity.
TransferItems(t, p, q, R) ==
  UNION {{CountItem(t, k, R[k].id, None, -R[k].qty),
          CountItem(t, <<k[1], q>>, R[k].id, None, R[k].qty)}
         : k \in {k \in DOMAIN R : k[2] = p /\ R[k].qty > 0}}

Quantity(R, k) == IF k \in DOMAIN R THEN R[k] ELSE 0

\* One transaction of the target: a count row moves, or a document is set.
Land(i) ==
  LET k == <<i.session, i.product>>
  IN /\ cloudRows' = IF i.op # "INCREMENT_COUNT" THEN cloudRows
                     ELSE [c \in DOMAIN cloudRows \cup {k} |->
                            Quantity(cloudRows, c) + (IF c = k THEN i.delta ELSE 0)]
     /\ cloudFeed' = cloudFeed \cup (IF i.op = "SAVE_SCAN_EVENT" THEN {i.event} ELSE {})
     /\ cloudSessions' = cloudSessions \cup (IF i.op = "SAVE_SESSION" THEN {i.session} ELSE {})
     /\ cloudArchived' = cloudArchived \cup
                         (IF i.op = "SAVE_PRODUCT" THEN {<<i.tenant, i.product>>} ELSE {})

-----------------------------------------------------------------------------
(* Loads *)

Asked(k) == [kind |-> k, tenant |-> tenant', phase |-> "asked", rows |-> NoRows,
             feed |-> {}, sessions |-> {}, archived |-> {}]
Begin(k) == Len(loads) < MaxLoads /\ loads' = Append(loads, Asked(k))

\* Mutant: neither the generation nor the business is compared on return.
LiveAnyway(l) == TRUE

\* The load is the last one begun and its business is still the current one.
Live(l) == l = Len(loads) /\ loads[l].tenant = tenant

Waiting(l) == loads[l].phase \in {"asked", "rows", "read"}
Loading == \E l \in DOMAIN loads : Live(l) /\ Waiting(l)
HasRead == \E l \in DOMAIN loads : Live(l) /\ loads[l].phase \in {"rows", "read"}

Finished(l) == [loads EXCEPT ![l] = [@ EXCEPT !.phase = "done", !.rows = NoRows, !.feed = {},
                                              !.sessions = {}, !.archived = {}]]

\* The business's documents: sessions, products and counts together.
ReadRows(l) ==
  /\ loads[l].phase = "asked"
  /\ LET t == loads[l].tenant
         mine == {k \in DOMAIN cloudRows : owner[k[1]] = t}
         known == {s \in cloudSessions : owner[s] = t}
     IN loads' = [loads EXCEPT ![l] =
          [@ EXCEPT !.phase = IF known = {} THEN "read" ELSE "rows",
                    !.rows = [k \in mine |-> cloudRows[k]],
                    !.sessions = known,
                    !.archived = {p \in Products : <<t, p>> \in cloudArchived}]]
  /\ UNCHANGED <<tenant, loaded, view, queue, landed, others, cloud, scans, owner, products>>

\* The newest session: every session is still active here.
Restored(l) == Max(loads[l].sessions)

\* Then, in a second query, the scan events of the session to restore.
ReadFeed(l) ==
  /\ loads[l].phase = "rows"
  /\ loads' = [loads EXCEPT ![l] =
       [@ EXCEPT !.phase = "read",
                 !.feed = {e \in cloudFeed : scans[e].session = Restored(l)}]]
  /\ UNCHANGED <<tenant, loaded, view, queue, landed, others, cloud, scans, owner, products>>

\* Mutant: a failed load is only reported.
FailSilently(l) ==
  /\ "fail" \in May /\ loads[l].phase \in {"asked", "rows"}
  /\ loads' = Finished(l)
  /\ UNCHANGED <<tenant, loaded, view, queue, landed, others, cloud, scans, owner, products>>

FailRead(l) ==
  /\ "fail" \in May /\ loads[l].phase \in {"asked", "rows"}
  /\ loads' = Finished(l)
  /\ loaded' = (loaded \/ (Live(l) /\ loads[l].kind = "load"))
  /\ UNCHANGED <<tenant, view, queue, landed, others, cloud, scans, owner, products>>

Superseded(l) ==
  /\ loads[l].phase = "read" /\ ~Live(l)
  /\ loads' = Finished(l)
  /\ UNCHANGED <<tenant, loaded, view, queue, landed, others, cloud, scans, owner, products>>

-----------------------------------------------------------------------------
(* The merges *)

Mine == {i \in queue : i.tenant = tenant}
Increments == {i \in Mine : i.op = "INCREMENT_COUNT"}
KeyPending(k) == \E i \in Increments : <<i.session, i.product>> = k
RowPending(k) == k \in DOMAIN rows /\ \E i \in Increments : i.id \in {rows[k].id, ReadId(k)}
ProductPending(p) == \E i \in Mine : i.op = "SAVE_PRODUCT" /\ i.product = p
ScanPending(e) == \E i \in Mine : i.event = e

\* mergeReloadedProductsAndAliases
MergedArchive(l) == archived \cup {p \in loads[l].archived : ~ProductPending(p)}

Merged(R, l, taken) ==
  [k \in DOMAIN R \cup taken |->
     IF k \in taken THEN [qty |-> loads[l].rows[k], id |-> ReadId(k)] ELSE R[k]]

\* Mutant: unsynced increments do not hold the remote row back.
RemoteWins(k) == FALSE

\* Mutant: what is here is never replaced.
LocalWins(k) == k \in DOMAIN rows

\* refreshFromCloud: the remote row is skipped.
Kept(k) == KeyPending(k) \/ RowPending(k)

\* The product was archived before this merge, which is taken for a delete made
\* here.  (A merge only ever adds to the archive.)
DeletedHere(k) == k[2] \in archived

RefreshedRows(l) ==
  Merged(rows, l, {k \in DOMAIN loads[l].rows : ~Kept(k) /\ ~DeletedHere(k)})

MergeRefresh(l) ==
  /\ loads[l].kind = "refresh"
  /\ rows' = RefreshedRows(l)
  /\ UNCHANGED <<loaded, session, feed>>

\* setBusinessContext: here a remote row is skipped only if there is a local one.
KeptByLoad(k) == k \in DOMAIN rows /\ Kept(k)

\* Rows of the restored session and rows with unsynced work.
Seeded(l, k) ==
  \/ k[1] = Restored(l)
  \/ \E i \in Mine : i.session = k[1]
  \/ Kept(k)

LoadedRows(l) ==
  Merged([k \in {k \in DOMAIN rows : Seeded(l, k)} |-> rows[k]], l,
         {k \in DOMAIN loads[l].rows : k[1] = Restored(l) /\ ~KeptByLoad(k)})

\* Mutant: the remote feed replaces the local one.
RemoteFeed(l) == loads[l].feed

RestoredFeed(l) ==
  loads[l].feed \cup {e \in feed : scans[e].session = Restored(l) /\ ScanPending(e)}

MergeLoad(l) ==
  /\ loads[l].kind = "load"
  /\ loaded' = TRUE
  /\ IF loads[l].sessions = {}
     THEN UNCHANGED <<session, rows, feed>>
     ELSE session' = Restored(l) /\ rows' = LoadedRows(l) /\ feed' = RestoredFeed(l)

Merge(l) ==
  /\ loads[l].phase = "read" /\ Live(l)
  /\ MergeRefresh(l) \/ MergeLoad(l)
  /\ archived' = MergedArchive(l)
  /\ loads' = Finished(l)
  /\ UNCHANGED <<tenant, queue, landed, others, cloud, scans, owner, products>>

-----------------------------------------------------------------------------
(* This device *)

Wiped == session' = None /\ rows' = NoRows /\ feed' = {} /\ archived' = {}

\* A mount of the gate, or the choice of another business.
SetBusinessContext(t) ==
  /\ IF t = tenant THEN "load" \in May ELSE tenant = None \/ "switch" \in May
  /\ "unsavedSession" \in May \/ \A i \in queue : i.op = "SAVE_SESSION" => i.tenant # t
  /\ tenant' = t /\ loaded' = FALSE /\ Begin("load")
  /\ IF t = tenant THEN UNCHANGED view ELSE Wiped
  /\ UNCHANGED <<queue, landed, others, cloud, scans, owner, products>>

\* The Refresh button is behind the gate; the history page is not.
RefreshFromCloud ==
  /\ "refresh" \in May /\ tenant # None
  /\ loaded \/ "refreshDuringLoad" \in May
  /\ UNCHANGED tenant /\ Begin("refresh")
  /\ UNCHANGED <<loaded, view, queue, landed, others, cloud, scans, owner, products>>

NewSession ==
  /\ loaded /\ Len(owner) < MaxSessions
  /\ session = None \/ "rotate" \in May
  /\ owner' = Append(owner, tenant) /\ session' = Len(owner')
  /\ feed' = {}
  /\ rows' = [k \in {k \in DOMAIN rows : k[1] # session} |-> rows[k]]
  /\ queue' = queue \cup {SessionItem(tenant, session')}
  /\ UNCHANGED <<tenant, loaded, archived, landed, loads, others, cloud, scans, products>>

\* The catalogue's product, or what a delete left in its place.
Countable(p) == p \notin archived /\ (p = 1 \/ \E s \in Sessions : <<s, p>> \in DOMAIN rows)

Scan(p) ==
  LET k == <<session, p>>
      e == Len(scans) + 1
  IN /\ loaded /\ session # None /\ Countable(p) /\ Len(scans) < MaxScans
     /\ scans' = Append(scans, [session |-> session, here |-> TRUE])
     /\ feed' = feed \cup {e}
     /\ rows' = [c \in DOMAIN rows \cup {k} |->
                  IF c # k THEN rows[c]
                  ELSE IF k \in DOMAIN rows THEN [rows[k] EXCEPT !.qty = @ + 1]
                  ELSE [qty |-> 1, id |-> MadeId(k)]]
     /\ queue' = queue \cup {EventItem(tenant, session, e),
                             CountItem(tenant, k, rows'[k].id, e, 1)}
     /\ UNCHANGED <<tenant, loaded, session, archived, landed, loads, others, cloud, owner,
                    products>>

Of(R, p) == {k \in DOMAIN R : k[2] = p}

\* The rows move to the provisional that takes the place of p.
Delete(p) ==
  LET q == products + 1
  IN /\ "delete" \in May /\ loaded /\ session # None /\ p \notin archived
     /\ \E k \in Of(rows, p) : rows[k].qty > 0
     /\ q \in Products /\ products' = q
     /\ archived' = archived \cup {p}
     /\ rows' = [k \in (DOMAIN rows \ Of(rows, p)) \cup {<<k[1], q>> : k \in Of(rows, p)} |->
                  IF k \in DOMAIN rows THEN rows[k] ELSE rows[<<k[1], p>>]]
     /\ queue' = queue \cup {ArchiveItem(tenant, session, p)} \cup TransferItems(tenant, p, q, rows)
     /\ UNCHANGED <<tenant, loaded, session, feed, landed, loads, others, cloud, scans, owner>>

Send(i) ==
  /\ i.tenant = tenant /\ i \notin landed
  /\ "landDuringLoad" \in May \/ ~HasRead
  /\ landed' = landed \cup {i} /\ Land(i)
  /\ UNCHANGED <<tenant, loaded, view, queue, loads, others, scans, owner, products>>

Dequeue(i) ==
  /\ i \in landed
  /\ queue' = queue \ {i} /\ landed' = landed \ {i}
  /\ UNCHANGED <<tenant, loaded, view, loads, others, cloud, scans, owner, products>>

-----------------------------------------------------------------------------
(* The second device: its items land one by one, in any order *)

OtherScan(s) ==
  LET e == Len(scans) + 1
  IN /\ "otherScan" \in May /\ s \in cloudSessions /\ Len(scans) < MaxScans
     /\ <<owner[s], 1>> \notin cloudArchived
     /\ scans' = Append(scans, [session |-> s, here |-> FALSE])
     /\ others' = others \cup {EventItem(owner[s], s, e),
                               CountItem(owner[s], <<s, 1>>, MadeId(<<s, 1>>), e, 1)}
     /\ UNCHANGED <<tenant, loaded, view, queue, landed, loads, cloud, owner, products>>

OtherLands(i) ==
  /\ others' = others \ {i} /\ Land(i)
  /\ UNCHANGED <<tenant, loaded, view, queue, landed, loads, scans, owner, products>>

Next ==
  \/ \E t \in Tenants : SetBusinessContext(t)
  \/ RefreshFromCloud \/ NewSession
  \/ \E p \in Products : Scan(p) \/ Delete(p)
  \/ \E i \in queue : Send(i) \/ Dequeue(i)
  \/ \E s \in Sessions : OtherScan(s)
  \/ \E i \in others : OtherLands(i)
  \/ \E l \in DOMAIN loads :
       ReadRows(l) \/ ReadFeed(l) \/ FailRead(l) \/ Superseded(l) \/ Merge(l)

Spec == Init /\ [][Next]_vars

-----------------------------------------------------------------------------
(* Properties *)

Total(R, s) == MapThenSumSet(LAMBDA k : R[k], {k \in DOMAIN R : k[1] = s})
Shown == [k \in DOMAIN rows |-> rows[k].qty]
ScansOf(s) == {e \in DOMAIN scans : scans[e].here /\ scans[e].session = s}

\* Tenant isolation: nothing of another business is on screen, whatever load
\* comes back late (emptyTenantState, the checks after each await).
TenantOnly ==
  /\ session # None => owner[session] = tenant
  /\ \A k \in DOMAIN rows : owner[k[1]] = tenant
  /\ \A e \in feed : owner[scans[e].session] = tenant

\* scan N = count N over a reload: the counts of a session are never below the
\* scans made here that its feed shows.  Of a device that stays with its business:
\* what waits for another business cannot be sent.
Stayed == \A l \in DOMAIN loads : loads[l].tenant = tenant
CountsCoverFeed ==
  Stayed =>
    \A s \in Sessions : Total(Shown, s) >= Cardinality(feed \cap ScansOf(s))

\* The same with deletes, for a device alone: a refresh neither hides a scan of
\* the session nor counts it twice, under its old product and under its new one.
CountsAreScans ==
  /\ session # None => Total(Shown, session) = Cardinality(ScansOf(session))
  /\ \A s \in 1..Len(owner) : Total(Shown, s) <= Cardinality(ScansOf(s))

\* A merge never takes back a quantity on screen: an answer that a later load
\* has overtaken is dropped, unsynced increments are kept.
CountsNeverDrop ==
  [][\A k \in DOMAIN rows :
       tenant' = tenant /\ k[1] = session'
         => k \in DOMAIN rows' /\ rows'[k].qty >= rows[k].qty]_vars

\* A scan that is still to be saved stays on screen until the next session, over
\* any mount of the gate, if the session has been saved and is the newest of its
\* business: the one a load restores.
NewestSaved ==
  session \in cloudSessions /\ \A s \in 1..Len(owner) : owner[s] = tenant => s <= session
UnsyncedStaysOnScreen ==
  [][tenant' = tenant /\ owner' = owner /\ NewestSaved
       => \A e \in feed : ScanPending(e) => e \in feed']_vars

\* The gate opens: once no load is under way, the data counts as loaded.
LoadSettles == tenant # None /\ ~Loading => loaded

\* A merge of the present documents, with nothing left to send anywhere, shows
\* the count rows the cloud holds of the session, each with its quantity.
Settled == queue = {} /\ others = {}
Fresh(l) == \A k \in DOMAIN cloudRows :
              owner[k[1]] = tenant => k \in DOMAIN loads[l].rows /\ loads[l].rows[k] = cloudRows[k]
Converges ==
  [][\A l \in DOMAIN loads : Merge(l) /\ Settled /\ Fresh(l)
       => \A k \in DOMAIN cloudRows :
            k[1] = session' => k \in DOMAIN rows' /\ rows'[k].qty = cloudRows[k]]_vars
=============================================================================
