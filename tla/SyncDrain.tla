----------------------------- MODULE SyncDrain ------------------------------
(***************************************************************************)
(* The client side of the durable queue: items are enqueued with the local *)
(* count, drain passes send them to SyncServer, a watchdog abandons a pass *)
(* that lands nothing, and the whole state is persisted from time to time  *)
(* and read back after a reload.                                           *)
(*                                                                         *)
(* A pass is an asynchronous call of drainCloudOnce.  Several can run at   *)
(* once: the promise chain orders the passes of one chain, and the         *)
(* watchdog starts a new chain while the passes of the old one still run.  *)
(* JavaScript runs to completion: a pass acts until it awaits a            *)
(* transaction, and only then does the next event of the user, of a timer  *)
(* or of the network happen (Quiet).                                       *)
(***************************************************************************)
EXTENDS SyncServer

CONSTANTS
  Passes,  \* slots for concurrent calls of syncPendingCloud
  Slots,   \* PRODUCT_DRAIN_CONCURRENCY
  Chunk,   \* PROGRESS_FLUSH_CHUNK
  SyncedCap, \* SYNCED_SCAN_ID_CAP
  Lane,    \* owner of a transaction started by the product lane
  Orphan,  \* owner of a transaction nobody waits for any more
  May      \* the kinds of disturbance that happen in this instance

ASSUME SlotsAssumption == Slots \in Nat \ {0} /\ Chunk \in Nat \ {0}
ASSUME SyncedCapAssumption == SyncedCap \in Nat
ASSUME OwnersAssumption ==
  /\ Lane # Orphan /\ {Lane, Orphan} \cap Passes = {} /\ None \notin Passes

Kinds == {"fail", "deny", "timeout", "stale", "switch", "crash", "retry", "offline", "clear",
          "signout", "discard"}
ASSUME MayAssumption == May \subseteq Kinds

VARIABLES
  made,      \* number of items built so far
  recorded,  \* items this device has taken in, also those of archived sessions
  queue,     \* status of each item in pendingSyncQueue, "absent" if not there
  synced,    \* syncedScanEventIds
  dropped,   \* ghost: ids taken off that ledger on purpose, with the session or
             \* the business they were scanned under or beyond SyncedCap
  saved,     \* the persisted copy: see Snapshots
  business,  \* businessId, None for the placeholder of the signed-out store
  context,   \* "none" before setBusinessContext, "loading" until its load ends
  online,
  pc,        \* pass: "idle", "queued" on its chain, or "run"
  prev,      \* the pass it is chained behind
  force,     \* its force flag
  ctx,       \* the business it captured
  att,       \* its progress with each item
  acc,       \* its syncedIds accumulator
  tail,      \* last pass of drainChain
  active,    \* the pass that owns activeDrainToken
  latch,     \* drainStartedAt and lastProgressAt: "null", "fresh", "stale"
  wire,      \* transactions in flight: item and who waits for it
  phys       \* physicalProductApplies: "none", "open", "timedout"

local == <<made, recorded, queue, synced, dropped, saved, business, context, online>>
chain == <<pc, prev, force, tail, active, latch>>
work  == <<ctx, att, acc>>
net   == <<wire, phys>>
vars  == <<local, chain, work, net, serverVars>>

Waiting == {"open", "wait", "sent"}        \* the logical attempt is open
Got     == {"gotOk", "gotErr", "gotQuar"}  \* its result is there, not yet handled
Fresh   == {"ok", "err", "quar"}           \* handled, not yet flushed
Won     == {"ok", "won"}
Lost    == {"err", "quar", "lost", "stop"}
Marks   == {"out", "todo", "won", "lost", "stop"} \cup Waiting \cup Got \cup Fresh

Queued   == {"pending", "error", "quarantined"}
Statuses == Queued \cup {"absent"}

Snapshots == [recorded: SUBSET Items, queue: [Items -> Statuses], synced: SUBSET Events,
              dropped: SUBSET Events, business: Tenants \cup {None}]

TypeOK ==
  /\ ServerTypeOK
  /\ made \in Nat
  /\ recorded \subseteq Items
  /\ queue \in [Items -> Statuses]
  /\ synced \subseteq Events /\ dropped \subseteq Events
  /\ saved \in Snapshots
  /\ business \in Tenants \cup {None}
  /\ context \in {"none", "loading", "ready"}
  /\ online \in BOOLEAN
  /\ pc \in [Passes -> {"idle", "queued", "run"}]
  /\ prev \in [Passes -> Passes \cup {None}]
  /\ force \in [Passes -> BOOLEAN]
  /\ ctx \in [Passes -> Tenants \cup {None}]
  /\ att \in [Passes -> [Items -> Marks]]
  /\ acc \in [Passes -> SUBSET Events]
  /\ tail \in Passes \cup {None}
  /\ active \in Passes \cup {None}
  /\ latch \in {"null", "fresh", "stale"}
  /\ wire \subseteq Items \X (Passes \cup {Lane, Orphan})
  /\ phys \in [Items -> {"none", "open", "timedout"}]

NoItem == [i \in Items |-> "absent"]
NoWork == [i \in Items |-> "out"]
Blank  == [recorded |-> {}, queue |-> NoItem, synced |-> {}, dropped |-> {}, business |-> None]

Init ==
  /\ ServerInit
  /\ made = 0 /\ recorded = {} /\ queue = NoItem /\ synced = {} /\ dropped = {}
  /\ business \in Tenants /\ context = "ready"
  /\ saved = [Blank EXCEPT !.business = business]
  /\ online = TRUE
  /\ pc = [p \in Passes |-> "idle"]
  /\ prev = [p \in Passes |-> None]
  /\ force = [p \in Passes |-> FALSE]
  /\ ctx = [p \in Passes |-> None]
  /\ att = [p \in Passes |-> NoWork]
  /\ acc = [p \in Passes |-> {}]
  /\ tail = None /\ active = None /\ latch = "null"
  /\ wire = {} /\ phys = [i \in Items |-> "none"]

-----------------------------------------------------------------------------
(* Starting a drain *)

Pending == {i \in Items : queue[i] # "absent"}

\* syncPendingCloud: when the running pass has landed nothing for
\* STALE_DRAIN_MS the watchdog takes its token away and begins a new chain;
\* the call then chains a pass of its own.
SyncPending(p, forced) ==
  /\ pc[p] = "idle"
  /\ pc' = [pc EXCEPT ![p] = "queued"]
  /\ force' = [force EXCEPT ![p] = forced]
  /\ tail' = p
  /\ IF latch = "stale" /\ Pending' # {}
     THEN /\ prev' = [prev EXCEPT ![p] = None]
          /\ active' = None /\ latch' = "null"
     ELSE /\ prev' = [prev EXCEPT ![p] = tail]
          /\ UNCHANGED <<active, latch>>

\* STALE_DRAIN_MS go by and no item lands.
Stall ==
  /\ latch = "fresh" /\ latch' = "stale" /\ "stale" \in May
  /\ UNCHANGED <<local, pc, prev, force, tail, active, work, net, serverVars>>

\* enqueueAndSync: what the user did has its queue item and a drain.  Queue
\* order is the order of creation.
EnqueueAndSync(i, p) ==
  /\ i = made + 1 /\ business = Item[i].tenant
  /\ made' = i
  /\ recorded' = recorded \cup {i}
  /\ queue' = [queue EXCEPT ![i] = "pending"]
  /\ SyncPending(p, FALSE)
  /\ UNCHANGED <<saved, business, context, online, work, net, serverVars>>

\* A scan, a decision, a product edit, a change of the running session.
Enqueue(i, p) == EnqueueAndSync(i, p) /\ UNCHANGED <<synced, dropped>>

\* The ids of the session or business that is left go off the ledger.
ForgetSynced == synced' = {} /\ dropped' = dropped \cup synced

\* Mutant: the queue goes with the feed (1,000 of 4,000 scans lost, 2026-08-05).
StartSessionWipes(i, p) ==
  /\ Item[i].op = "SAVE_SESSION"
  /\ i = made + 1 /\ business = Item[i].tenant
  /\ made' = i
  /\ recorded' = recorded \cup {i}
  /\ queue' = [NoItem EXCEPT ![i] = "pending"]
  /\ SyncPending(p, FALSE)
  /\ ForgetSynced
  /\ UNCHANGED <<saved, business, context, online, work, net, serverVars>>

\* startSession: the feed and its synced ids go, the queue stays and drains on
\* under the new session.
StartSession(i, p) ==
  /\ Item[i].op = "SAVE_SESSION"
  /\ EnqueueAndSync(i, p)
  /\ ForgetSynced

\* The Retry button re-arms the quarantined items and drains; prepareSignOut
\* drains the same way with nothing to re-arm.
RetrySync(p) ==
  /\ queue' = [i \in Items |-> IF queue[i] = "quarantined" THEN "error" ELSE queue[i]]
  /\ SyncPending(p, TRUE)
  /\ "retry" \in May
  /\ UNCHANGED <<made, recorded, synced, dropped, saved, business, context, online, work, net,
                 serverVars>>

GoOffline ==
  /\ online /\ online' = FALSE /\ "offline" \in May
  /\ UNCHANGED <<made, recorded, queue, synced, dropped, saved, business, context, chain, work,
                 net, serverVars>>

GoOnline(p) ==
  /\ ~online /\ online' = TRUE
  /\ UNCHANGED <<made, recorded, queue, synced, dropped, saved, business, context, work, net,
                 serverVars>>
  /\ SyncPending(p, TRUE)

\* setBusinessContext, of the business held (after a reload, at a remount) or of
\* another one, which empties the ledger with the rest of the old one's state.
\* The queue keeps the items of every business.
SetBusinessContext(t) ==
  /\ context = "none" \/ "switch" \in May
  /\ business' = t /\ context' = "loading"
  /\ IF t = business THEN UNCHANGED <<synced, dropped>> ELSE ForgetSynced
  /\ UNCHANGED <<made, recorded, queue, saved, online, chain, work, net, serverVars>>

\* Its load has ended, well or not, and is still the newest: it drains.
BusinessLoaded(p) ==
  /\ context = "loading" /\ context' = "ready"
  /\ UNCHANGED <<made, recorded, queue, synced, dropped, saved, business, online, work, net,
                 serverVars>>
  /\ SyncPending(p, FALSE)

-----------------------------------------------------------------------------
(* One pass of drainCloudOnce *)

Batch(p) == {i \in Items : att[p][i] # "out"}

\* contextStillActive: the pass owns the token and its business is active.
ContextActive(p) == active = p /\ business = ctx[p] /\ context # "none"

\* The pass leaves the chain; its successor may begin.
Release(p) ==
  /\ pc' = [pc EXCEPT ![p] = "idle"]
  /\ prev' = [q \in Passes |-> IF prev[q] = p THEN None ELSE prev[q]]
  /\ tail' = IF tail = p THEN None ELSE tail
  /\ UNCHANGED force

\* The pass takes the token and a snapshot of the active business's items.
StartPass(p) ==
  /\ pc[p] = "queued" /\ prev[p] = None
  /\ \/ online
     \/ force[p]
  /\ context # "none"
  /\ LET batch == {i \in Items : queue[i] \in {"pending", "error"} /\ Item[i].tenant = business}
     IN  /\ batch # {}
         /\ att' = [att EXCEPT ![p] = [i \in Items |-> IF i \in batch THEN "todo" ELSE "out"]]
  /\ ctx' = [ctx EXCEPT ![p] = business]
  /\ acc' = [acc EXCEPT ![p] = synced]
  /\ pc' = [pc EXCEPT ![p] = "run"]
  /\ active' = p /\ latch' = "fresh"
  /\ UNCHANGED <<local, prev, force, tail, net, serverVars>>

\* drainCloudOnce returns early: offline and not forced, no context, nothing
\* to send.  The token is taken all the same.
SkipPass(p) ==
  /\ pc[p] = "queued" /\ prev[p] = None
  /\ \/ ~online /\ ~force[p]
     \/ context = "none"
     \/ \A i \in Items : queue[i] \in {"pending", "error"} => Item[i].tenant # business
  /\ Release(p)
  /\ active' = None /\ latch' = "null"
  /\ UNCHANGED <<local, work, net, serverVars>>

\* planSyncBatch: a product goes through the concurrent lane only when every
\* write of that product in the batch opts in.
IsProduct(i) == Item[i].op = "SAVE_PRODUCT"
SameProduct(i, j) == IsProduct(i) /\ IsProduct(j) /\ Item[i].entity = Item[j].entity

\* Mutant: each write is judged by its own lane.
IndependentAlone(p, i) == IsProduct(i) /\ i \in Batch(p) /\ Item[i].lane
Independent(p, i) == IsProduct(i) /\ \A j \in Batch(p) : SameProduct(i, j) => Item[j].lane

Group(p, i) == {j \in Batch(p) : SameProduct(i, j) /\ Independent(p, j)}
GroupStarted(p, i) == \E j \in Group(p, i) : att[p][j] # "todo"
GroupOver(p, i) ==
  \/ \E j \in Group(p, i) : att[p][j] \in Lost
  \/ \A j \in Group(p, i) : att[p][j] \in Won

\* A worker takes the next write of its product, or the next product of the
\* plan.  There are Slots workers.
WorkerReaches(p, i) ==
  /\ \A j \in Group(p, i) : j < i => att[p][j] \in Won
  /\ \/ GroupStarted(p, i)
     \/ /\ \A j \in Batch(p) : j < i /\ Independent(p, j) => GroupStarted(p, j)
        /\ Cardinality({Item[j].entity : j \in {k \in Batch(p) :
             Independent(p, k) /\ GroupStarted(p, k) /\ ~GroupOver(p, k)}}) < Slots

\* applySyncItem opens the logical attempt of a product write.
ReadyProduct(p, i) ==
  /\ pc[p] = "run" /\ att[p][i] = "todo" /\ Independent(p, i)
  /\ ContextActive(p) /\ WorkerReaches(p, i)

OpenProduct(p, i) ==
  /\ ReadyProduct(p, i)
  /\ att' = [att EXCEPT ![p][i] = "open"]
  /\ UNCHANGED <<local, chain, ctx, acc, net, serverVars>>

Owned == {i \in Items : phys[i] # "none"}

\* Mutant: only the product is looked at.
MustWaitForProduct(i) == \E j \in Owned : SameProduct(i, j)

\* A write of the product is unsettled, or every slot is taken.
MustWait(i) ==
  \/ \E j \in Owned : SameProduct(i, j)
  \/ Cardinality(Owned) >= Slots

\* applyIndependentProductPhysically, one turn of its loop.  The item already
\* has an unsettled transaction and the attempt joins it (a timed-out one
\* answers at once) ...
Join(p, i) ==
  /\ att[p][i] = "open" /\ ContextActive(p) /\ i \in Owned
  /\ att' = [att EXCEPT ![p][i] = IF phys[i] = "open" THEN "sent" ELSE "gotErr"]
  /\ UNCHANGED <<local, chain, ctx, acc, net, serverVars>>

\* ... or it sleeps until a transaction settles ...
Sleep(p, i) ==
  /\ att[p][i] = "open" /\ ContextActive(p) /\ i \notin Owned /\ MustWait(i)
  /\ att' = [att EXCEPT ![p][i] = "wait"]
  /\ UNCHANGED <<local, chain, ctx, acc, net, serverVars>>

\* ... or a new transaction begins ...
Own(p, i) ==
  /\ att[p][i] = "open" /\ ContextActive(p) /\ i \notin Owned /\ ~MustWait(i)
  /\ phys' = [phys EXCEPT ![i] = "open"]
  /\ wire' = wire \cup {<<i, Lane>>}
  /\ att' = [att EXCEPT ![p][i] = "sent"]
  /\ UNCHANGED <<local, chain, ctx, acc, serverVars>>

\* ... or the context was lost while it slept and it gives up.
StopWaiting(p, i) ==
  /\ att[p][i] = "open" /\ ~ContextActive(p)
  /\ att' = [att EXCEPT ![p][i] = "stop"]
  /\ UNCHANGED <<local, chain, ctx, acc, net, serverVars>>

\* Promise.all over the workers has settled.
ProductsDone(p) ==
  \A i \in Batch(p) : Independent(p, i) => GroupOver(p, i) /\ att[p][i] \notin Waiting \cup Got

\* A serial product write is skipped once an earlier one of it failed.
Blocked(p, i) ==
  \E j \in Batch(p) : j < i /\ SameProduct(i, j) /\ ~Independent(p, j) /\ att[p][j] \in Lost

\* The serial loop: one item at a time, in queue order.
ReadySerial(p, i) ==
  /\ pc[p] = "run" /\ att[p][i] = "todo" /\ ~Independent(p, i) /\ ~Blocked(p, i)
  /\ ContextActive(p) /\ ProductsDone(p)
  /\ \A j \in Batch(p) : j < i /\ ~Independent(p, j) =>
       att[p][j] \in Won \cup Lost \/ Blocked(p, j)

SendSerial(p, i) ==
  /\ ReadySerial(p, i)
  /\ wire' = wire \cup {<<i, p>>}
  /\ att' = [att EXCEPT ![p][i] = "sent"]
  /\ UNCHANGED <<local, chain, ctx, acc, phys, serverVars>>

\* Mutants of the flush.  It takes every item the pass handled off the queue ...
FlushDropsFailed(p, row, events) ==
  /\ queue' = [i \in Items |-> IF row[i] \in Fresh THEN "absent" ELSE queue[i]]
  /\ synced' = synced \cup events

\* ... it writes a failed item back though it has left the queue ...
FlushRevives(p, row, events) ==
  /\ queue' = [i \in Items |-> CASE row[i] = "ok" -> "absent"
                                 [] row[i] = "err" -> "error"
                                 [] row[i] = "quar" -> "quarantined"
                                 [] OTHER -> queue[i]]
  /\ synced' = synced \cup events

\* ... it replaces the synced ids by its own ...
FlushReplacesSynced(p, row, events) ==
  /\ queue' = [i \in Items |-> CASE row[i] = "ok" -> "absent"
                                 [] row[i] = "err" /\ queue[i] # "absent" -> "error"
                                 [] OTHER -> queue[i]]
  /\ synced' = events

\* ... or it says nothing once the pass has lost its token (the livelock of
\* 2026-08-05).
FlushNeedsToken(p, row, events) ==
  IF active # p THEN UNCHANGED <<queue, synced>>
  ELSE /\ queue' = [i \in Items |-> CASE row[i] = "ok" -> "absent"
                                      [] row[i] = "err" /\ queue[i] # "absent" -> "error"
                                      [] row[i] = "quar" /\ queue[i] # "absent" -> "quarantined"
                                      [] OTHER -> queue[i]]
       /\ synced' = synced \cup events

\* flushProgress with the pass's row of outcomes: successes leave the queue
\* whoever owns the token; failures are written back, except by a pass that
\* lost the token and has no success to report.
FlushProgress(p, row, events) ==
  LET ok == {i \in Items : row[i] = "ok"}
  IN IF (active # p /\ ok = {}) \/ (\A i \in Items : row[i] \notin Fresh)
     THEN UNCHANGED <<queue, synced>>
     ELSE /\ queue' = [i \in Items |->
                 CASE i \in ok -> "absent"
                   [] row[i] = "err" /\ queue[i] # "absent" -> "error"
                   [] row[i] = "quar" /\ queue[i] # "absent" -> "quarantined"
                   [] OTHER -> queue[i]]
          /\ synced' = synced \cup events

AfterFlush(row) ==
  [i \in Items |-> CASE row[i] = "ok" -> "won"
                     [] row[i] \in {"err", "quar"} -> "lost"
                     [] OTHER -> row[i]]

Outcome(got) == CASE got = "gotOk" -> "ok" [] got = "gotErr" -> "err" [] got = "gotQuar" -> "quar"

\* The scanEventId of an item, if it has one.
Ids(i) == {e \in Events : Item[i].scan /\ e = Item[i].event}

\* applySyncItem after its await: only a success counts as progress; every
\* Chunk outcomes are flushed.
Process(p, i) ==
  /\ att[p][i] \in Got
  /\ LET row == [att[p] EXCEPT ![i] = Outcome(att[p][i])]
         events == acc[p] \cup (IF row[i] = "ok" THEN Ids(i) ELSE {})
     IN  /\ acc' = [acc EXCEPT ![p] = events]
         /\ latch' = (IF row[i] = "ok" /\ latch = "stale" THEN "fresh" ELSE latch)
         /\ IF Cardinality({j \in Items : row[j] \in Fresh}) >= Chunk
            THEN /\ FlushProgress(p, row, events)
                 /\ att' = [att EXCEPT ![p] = AfterFlush(row)]
            ELSE /\ att' = [att EXCEPT ![p] = row]
                 /\ UNCHANGED <<queue, synced>>
  /\ UNCHANGED <<made, recorded, dropped, saved, business, context, online, pc, prev, force,
                 tail, active, ctx, net, serverVars>>

\* The pass is over, or stopped because it lost its token or its business:
\* the last flush, and the chain moves on.
ReadyToFinish(p) ==
  /\ pc[p] = "run"
  /\ \A i \in Items : att[p][i] \notin Waiting \cup Got
  /\ ContextActive(p) =>
       /\ ProductsDone(p)
       /\ \A i \in Batch(p) : att[p][i] = "todo" => Independent(p, i) \/ Blocked(p, i)

FinishPass(p) ==
  /\ ReadyToFinish(p)
  /\ FlushProgress(p, att[p], acc[p])
  /\ att' = [att EXCEPT ![p] = NoWork]
  /\ acc' = [acc EXCEPT ![p] = {}]
  /\ ctx' = [ctx EXCEPT ![p] = None]
  /\ Release(p)
  /\ active' = (IF active = p THEN None ELSE active)
  /\ latch' = (IF active = p THEN "null" ELSE latch)
  /\ UNCHANGED <<made, recorded, dropped, saved, business, context, online, net, serverVars>>

-----------------------------------------------------------------------------
(* Transactions and timers *)

\* Attempt (p, i) awaits the transaction <<j, by>>.
Awaits(p, i, j, by) ==
  /\ att[p][i] = "sent" /\ i = j
  /\ by = p \/ (by = Lane /\ <<i, p>> \notin wire)

\* Attempt (p, i) sleeps on the settlement of j: the write of its own product,
\* or any when it is for a slot that it waits.
SleepsOn(p, i, j) ==
  /\ att[p][i] = "wait"
  /\ SameProduct(i, j) \/ \A k \in Owned : ~SameProduct(i, k)

\* A transaction settles: off the wire, out of the registry, its attempts
\* answered and the sleepers awake.
SettleWith(j, by, got) ==
  /\ wire' = wire \ {<<j, by>>}
  /\ phys' = (IF by = Lane THEN [phys EXCEPT ![j] = "none"] ELSE phys)
  /\ att' = [p \in Passes |-> [i \in Items |->
       IF Awaits(p, i, j, by) THEN got
       ELSE IF by = Lane /\ SleepsOn(p, i, j) THEN "open" ELSE att[p][i]]]
  /\ UNCHANGED <<local, chain, ctx, acc>>

Commit(i, by) ==
  /\ <<i, by>> \in wire
  /\ Transact(i)
  /\ SettleWith(i, by, Verdict(i))

\* It commits and the acknowledgement is lost: the client still waits.
CommitUnacked(i, by) ==
  /\ <<i, by>> \in wire /\ Unclaimed(i) /\ "fail" \in May
  /\ Transact(i)
  /\ UNCHANGED <<local, chain, work, net>>

\* Network or contention failure: retryable.
Fail(i, by) ==
  /\ <<i, by>> \in wire /\ "fail" \in May
  /\ SettleWith(i, by, "gotErr")
  /\ UNCHANGED serverVars

\* A rules denial or a failed validation: not retryable.
Deny(i, by) ==
  /\ <<i, by>> \in wire /\ Unclaimed(i) /\ "deny" \in May
  /\ SettleWith(i, by, "gotQuar")
  /\ UNCHANGED serverVars

\* FIREBASE_TRANSACTION_TIMEOUT_MS of a product-lane transaction: those who
\* wait get an error, the transaction itself goes on and keeps its slot.
LaneTimeout(i) ==
  /\ phys[i] = "open" /\ "timeout" \in May
  /\ phys' = [phys EXCEPT ![i] = "timedout"]
  /\ att' = [p \in Passes |-> IF Awaits(p, i, i, Lane) THEN [att[p] EXCEPT ![i] = "gotErr"] ELSE att[p]]
  /\ UNCHANGED <<local, chain, ctx, acc, wire, serverVars>>

\* CLOUD_APPLY_TIMEOUT_MS of one logical attempt (on the serial lane the
\* target's own timeout has the same effect).
AttemptTimeout(p, i) ==
  /\ att[p][i] \in Waiting /\ "timeout" \in May
  /\ att' = [att EXCEPT ![p][i] = "gotErr"]
  /\ wire' = IF <<i, p>> \in wire THEN (wire \ {<<i, p>>}) \cup {<<i, Orphan>>} ELSE wire
  /\ UNCHANGED <<local, chain, ctx, acc, phys, serverVars>>

-----------------------------------------------------------------------------
(* Persistence *)

\* capTail: the newest SyncedCap ids are stored.  Which ones those are is left
\* open.
KeptIds(ids) ==
  IF Cardinality(ids) <= SyncedCap THEN {ids}
  ELSE {kept \in SUBSET ids : Cardinality(kept) = SyncedCap}

\* The coalescing writer stores the state.
Persist ==
  /\ \E kept \in KeptIds(synced) :
       saved' = [recorded |-> recorded, queue |-> queue, synced |-> kept,
                 dropped |-> dropped \cup (synced \ kept), business |-> business]
  /\ saved' # saved
  /\ UNCHANGED <<made, recorded, queue, synced, dropped, business, context, online, chain, work,
                 net, serverVars>>

\* The tab dies and is reloaded: the last stored state comes back, the passes
\* are gone, what was on the wire may still commit.
Reload ==
  /\ "crash" \in May
  /\ recorded' = saved.recorded /\ queue' = saved.queue
  /\ synced' = saved.synced /\ dropped' = saved.dropped
  /\ business' = saved.business /\ context' = "none" /\ online' = TRUE
  /\ pc' = [p \in Passes |-> "idle"]
  /\ prev' = [p \in Passes |-> None]
  /\ force' = [p \in Passes |-> FALSE]
  /\ ctx' = [p \in Passes |-> None]
  /\ att' = [p \in Passes |-> NoWork]
  /\ acc' = [p \in Passes |-> {}]
  /\ tail' = None /\ active' = None /\ latch' = "null"
  /\ wire' = {<<w[1], Orphan>> : w \in wire}
  /\ phys' = [i \in Items |-> "none"]
  /\ UNCHANGED <<made, saved, serverVars>>

\* Queue, synced ids and what they stand for are wiped, the passes that run are
\* not told:
Wiped ==
  /\ recorded' = {} /\ queue' = NoItem /\ synced' = {} /\ dropped' = {}
  /\ UNCHANGED <<made, online, chain, work, net, serverVars>>

\* by the recovery action of Settings, with the stored copy,
ClearLocalCache ==
  /\ Wiped /\ "clear" \in May /\ saved' = Blank
  /\ UNCHANGED <<business, context>>

\* by the Clear session button of the scan page, the stored copy following later,
ClearSession ==
  /\ Wiped /\ "discard" \in May
  /\ UNCHANGED <<saved, business, context>>

\* and by resetForSignOut, which lets go of the business too.
SignOut ==
  /\ Wiped /\ "signout" \in May /\ saved' = Blank
  /\ business' = None /\ context' = "none"

-----------------------------------------------------------------------------
\* A pass that acts before the next event can happen.
Busy(p) ==
  \/ pc[p] = "queued" /\ prev[p] = None
  \/ \E i \in Items : \/ att[p][i] \in Got \cup {"open"}
                      \/ ReadyProduct(p, i)
                      \/ ReadySerial(p, i)
  \/ ReadyToFinish(p)

Quiet == \A p \in Passes : ~Busy(p)

PassStep(p) ==
  \/ StartPass(p) \/ SkipPass(p) \/ FinishPass(p)
  \/ \E i \in Items : \/ OpenProduct(p, i) \/ Join(p, i) \/ Sleep(p, i) \/ Own(p, i)
                      \/ StopWaiting(p, i) \/ SendSerial(p, i) \/ Process(p, i)

\* What calls for a drain.
User(p) ==
  \/ \E i \in Items : Enqueue(i, p) \/ StartSession(i, p)
  \/ RetrySync(p) \/ GoOnline(p) \/ BusinessLoaded(p)

Network == \E w \in wire :
  \/ Commit(w[1], w[2]) \/ CommitUnacked(w[1], w[2])
  \/ Fail(w[1], w[2])   \/ Deny(w[1], w[2])

Timer == Stall \/ \E i \in Items : LaneTimeout(i) \/ \E p \in Passes : AttemptTimeout(p, i)

Event ==
  \/ \E p \in Passes : User(p)
  \/ \E t \in Tenants : SetBusinessContext(t)
  \/ Network \/ Timer \/ GoOffline \/ Persist \/ Reload
  \/ ClearLocalCache \/ ClearSession \/ SignOut

Next ==
  \/ \E p \in Passes : PassStep(p)
  \/ Quiet /\ Event

Spec == Init /\ [][Next]_vars

\* Promises run on by themselves, a transaction is answered or times out, and
\* nothing is assumed of the user.
Fairness ==
  /\ \A p \in Passes : WF_vars(PassStep(p))
  /\ \A i \in Items, by \in Passes \cup {Lane} : SF_vars(Quiet /\ Commit(i, by))

FairSpec == Spec /\ Fairness

-----------------------------------------------------------------------------
(* Properties *)

\* What the local state shows was handed to the cloud is never lost: an item
\* is still queued or its own write is on the server, also in the copy a
\* reload would bring back.
NothingLost ==
  /\ \A i \in recorded : queue[i] # "absent" \/ Settled(i)
  /\ \A i \in saved.recorded : saved.queue[i] # "absent" \/ Settled(i)

\* An event reaches a count row at most once, whatever was retried, timed out,
\* superseded, sent again after a reload or queued again under another key.
OncePerEvent ==
  \A i, j \in counted :
    Item[i].entity = Item[j].entity /\ Item[i].event = Item[j].event => i = j

\* Across passes, timeouts and abandoned attempts: at most Slots product
\* transactions are physically unsettled, at most one of each product.
PhysicalCeiling ==
  LET lane == {i \in Items : <<i, Lane>> \in wire}
  IN /\ Cardinality(lane) <= Slots
     /\ \A i, j \in lane : SameProduct(i, j) => i = j

\* A product write that reached the server is never overlaid by an older one.
NewestProductStands ==
  \A i \in Items : IsProduct(i) /\ Settled(i) => doc[Item[i].entity] >= i

\* A review decision that reached the server is never overlaid by one made
\* earlier, in whatever order the retries land.
NewestDecisionStands ==
  \A i \in Items : Item[i].op = "SAVE_UNKNOWN_SCAN" /\ Settled(i) =>
    Item[doc[Item[i].entity]].clock >= Item[i].clock

\* What the late answers of an abandoned pass say of an item that has left the
\* queue never brings it back.
NoResurrection ==
  [][\A i \in Items : queue[i] = "absent" /\ queue'[i] # "absent"
        => Reload \/ \E p \in Passes : Enqueue(i, p) \/ StartSession(i, p)]_vars

\* The event of what has left the queue stays in the ledger of synced ids until
\* the code itself lets it go (a new session, another business, the cap of the
\* stored copy): no flush of a pass takes back what another one recorded.  And
\* the ledger names only events of which a write is on the server.
DequeuedIsSynced ==
  /\ \A i \in recorded : queue[i] = "absent" => Ids(i) \subseteq synced \cup dropped
  /\ \A e \in synced : \E i \in Items : Item[i].event = e /\ Settled(i)

\* A transaction begins only while its item's business is the active one.
SentUnderItsBusiness ==
  [][\A i \in Items : (\E by \in Passes \cup {Lane} : <<i, by>> \in wire' \ wire)
        => business = Item[i].tenant]_vars

\* However often the watchdog abandons passes that are still working, an
\* enqueued item lands and leaves the queue, with no further action of the
\* user, as long as its business stays active and loaded, the device online and
\* no attempt fails.
Drains ==
  \A i \in Items :
    LET stays == business = Item[i].tenant /\ context = "ready" /\ online
    IN  queue[i] = "pending" /\ stays ~> queue[i] = "absent" \/ ~stays

\* The promise of the target, NO DOUBLE COUNT, as a specification of its own:
\* through all of it a count row only ever takes each event once.
Ledger == INSTANCE CountLedger WITH
  Rows <- Entities, Amounts <- {Item[i].delta : i \in Items},
  posted <- {<<Item[i].entity, Item[i].event>> : i \in counted}, total <- qty

LedgerSpec == Ledger!Spec
=============================================================================
