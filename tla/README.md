# Verification of Scanbin's counting, review and sync core

Scanbin counts inventory: every physical scan of a barcode must appear in the
feed and in the counts ("scan N = count N"), on the device at once and in the
cloud eventually, whatever the network, the tab or the user does. This
directory holds TLA+ models of the code that keeps that promise, the TLC runs
that check them on small instances and proofs for all instances.

Paths below are relative to `src/src/`, the application; those that begin with
`scripts/` are relative to `src/`.

## 1. The system

A Next.js page holds one Zustand store. The store counts scans synchronously,
shows them, and puts every fact it must not lose on a durable queue
(`pendingSyncQueue`). Drain passes send the queue to Firestore, one transaction
per item. The store is written to IndexedDB/localStorage a little later than
it changes and read back on the next page load.

| Part | Code | State | Operations | Talks to |
|---|---|---|---|---|
| Scan engine | `stores/scan/scanSlice.ts` | feed, counts, products | processScan, ensureProvisionalCount | resolver, ledger, queue, decode |
| Ledger | `inventory/ledger.ts`, `replay.ts`, `idempotency.ts` | pure | apply an event once, replay, keys | scan engine |
| Resolver | `products/match/*` | pure | code to known, conflict or nothing | scan engine |
| Delete and undo | `stores/scan/productDelete.ts`, `catalogSlice.ts` | backup, counts, feed | delete, purge, undo, cleanup | queue |
| Review decisions | `stores/scan/reviewSlice.ts` | review queue | resolve, approve, mark wrong, ignore | counts, queue |
| Sessions | `stores/scan/sessionSlice.ts`, `sessions/*` | current session, history | start, rotate, finish, lock, reopen | counts, feed |
| Sync drain | `stores/scan/syncInternals.ts`, `sync-database/queue/syncBatchPlanner.ts` | queue, synced ids, chain, token, registry of physical writes | enqueue, drain, retry, watchdog | cloud target |
| Cloud target | `sync-database/cloud/firebaseSyncTarget.ts` | applied keys, documents | one transaction per item | Firestore |
| Reload merge | `stores/scanStore.ts` (setBusinessContext, refreshFromCloud), `reloadMergePolicy.ts` | load generation | merge a remote snapshot with unsynced work | cloud, queue |
| Adoption | `stores/scan/adoption.ts` | - | re-scope placeholder work to a business | queue |
| Persistence | `stores/scanPersist*.ts`, `idbBacking.ts` | pending write, two stores, stamps | coalesced write, read newest, migrate, remove | browser |
| Decode | `stores/scan/decodeSlice.ts`, `decodePacer.ts`, `decoding/*` | lanes, bucket, breaker, budget | dispatch, pace, cap, cache | providers |
| Catalogue promotion | `scripts/tire-db-repair/10_promote_execute.mjs` | tables of the tire catalogue and their generations, manifest, staging files | backup, stage, verify, promote, rollback | Turso, operator |
| Servers | `server/*`, `users-businesses/*`, `authentication/*` | tokens, catalogue, roles | API routes | Firestore, Turso |
| Pure algorithms | `products/barcodes/*`, `reconcile/*`, `import/*` | - | check digits, matching, parsing | - |

What is hard in it:

- *Concurrency.* A drain is an async call that awaits a transaction per item.
  The promise chain orders the passes, but the watchdog starts a new chain
  while old passes are still awaiting, and a transaction cannot be cancelled.
- *Failure.* Answers are lost or late; items are refused for good; the tab
  dies between two writes; the business changes under a running pass.
- *Ordering.* Retries reorder decisions and product writes; the two halves of
  a quantity transfer travel as separate items.
- *Long sequences.* Delete, re-scan, undo, rotate and delete again reuse count
  rows and keys.
- *Late answers.* A decode takes seconds. It looks at the review when it starts;
  what it finds when it ends, a person may have decided, moved or merged.
- *Two stores.* A blob is kept in IndexedDB or in localStorage, whichever would
  take it, under stamps of a clock that can be set back.
- *Many commands.* A repaired catalogue replaces the live one by a procedure of
  commands, each of which may be killed, repeated or run on what has changed
  since the one before.
- *Shared limits.* Many server instances charge the same daily counters, and
  many calls of one page the same bucket, breaker and counter.

What makes each part correct: the drain loses no work, counts no event twice,
never lets an older write overlay a newer one, stays within its slots and its
tenant, and finally lands what it holds; the target makes a retry harmless;
the counts of a session are the scans of its feed, before and after any
delete, undo or rotation; a merge never shows less than was scanned here; a
stored copy is never older than what a reload may assume; what reached a store
stays readable and what was removed stays away; an unknown code has one
placeholder until somebody decides, units move with the decision and a guess
never becomes identity by itself; a decode waits for a slot or a token and never
for nothing; paid calls stay within the caps of the day; a promotion of the
catalogue loses no row and can be undone. `PROJECT.json` lists
the hazards line by line with the properties that watch them.

## 2. Modules

| Module | Models | How |
|---|---|---|
| `SyncServer` | `FirebaseSyncTarget.apply` | `marker` is `_appliedKeys`, `qty`/`counted` are the count rows with their `scanEventIds`, `doc` every other document. `Transact` is the transaction, `Verdict` its answer. |
| `SyncDrain` | `syncInternals.ts`, `syncBatchPlanner.ts`, the queue part of `scanStore.ts` and of `startSession`, the stored copy | `queue` and `synced` are pendingSyncQueue and syncedScanEventIds; `business` and `context` the business held and how far its load is; `saved` what a page would read back. One slot `p` per concurrent call of `syncPendingCloud`. `pc`, `prev`, `tail` are the promise chain, `active` is `activeDrainToken`, `latch` the two watchdog timestamps, `ctx`, `att`, `acc` the locals of `drainCloudOnce`, `phys` the registry, `wire` the transactions in flight. |
| `CountLedger` | what the target promises of a count row | An event is posted to a row once. `SyncDrain` implements it (`LedgerSpec`). |
| `SyncDrainProofs` | theorems about `SyncDrain` | see section 5 |
| `CountTransfer` | processScan, deleteProductsInternal, undoDeleteProduct, startSession, and the increments they queue | `rows` is finalCounts, `feed` scanFeed, `backup` lastProductDeleteBackup; `applied`, `cloud`, `refused` are the server's side of the increments. |
| `ReloadMerge` | `setBusinessContext` and its load, `refreshFromCloud`, `reloadMergePolicy.ts`, `businessDataLoader.ts`, with just enough of scan, delete, session start and drain to disturb them, and a second device | `loads` is every load begun, each with the business and the answer it carries; the index of the last one is `businessLoadGeneration`. `rows`, `feed`, `session`, `archived` are what is on screen; the `cloud...` variables are the documents; `others` is what the second device has still to send. |
| `ReloadMergeProofs` | theorems about `ReloadMerge` | see section 5 |
| `PersistStorage` | `scanPersistStorage.ts` over `idbBacking.ts` | `idb` and `local` are the two stores, each a blob with its stamp; `pending` is pendingValue; `txs` the transactions under way, `settled` the callbacks due; `copying` and `waiting` the migration and what is chained behind it; `generation` the removal generation. |
| `ReviewLifecycle` | `reviewSlice.ts`, the answers of `decodeSlice.ts`, the unknown branch of `processScan` | `store` is the Zustand store: `products` with their count row (`qty`, `events`), `aliases`, `feed`, `reviews` by code; `decode` says where the decode of a code is. Operators take the store before and give the store after, in the order of the code. |
| `SpendGuard` | `pipeline.ts`, `aiSpendGuard.ts`, `decodeCache.ts`, the counters of `storage.ts` | `pc` is the await each request stands at; `used`, `usedBy`, `spent` are the durable counters per day; `memory`, `cached`, `running` belong to an instance; `bill` and `dated` are what a call cost and the day that is for. |
| `DecodeLane` | `decodePacer.ts`, `circuitBreaker.ts`, the gate and the counters of `decodeSlice.ts` | `pending`, `tokens`, `since`, `timer` are the queue with its bucket; `call` is what each call read when it started; `breaker` and `daily` what is shared. |
| `Promotion` | `10_promote_execute.mjs` | `live`, `staging`, `old[ts]` and `failed[ts]` are the tables by the prefix or suffix of their names, each with its rows, the dataset it was loaded from and the stamp that made it live; `job` is the command under way and what it has read, one step per await that something can come between; `manifests`, `files` and `expected` are the files on disk. |
| `PromotionProofs` | theorems about `Promotion` | see section 5 |
| `DecodeLaneProofs` | theorems about `DecodeLane` | see section 5 |
| `SpendGuardProofs` | theorems about `SpendGuard` | see section 5 |
| `PersistStorageProofs` | theorems about `PersistStorage` | see section 5 |
| `CountTransferProofs` | theorems about `CountTransfer` | see section 5 |
| `ReviewLifecycleProofs` | theorems about `ReviewLifecycle` | see section 5 |

Run-to-completion is modelled as it is in the browser: a pass acts
(`PassStep`) until it awaits; an event of the user, of the network or of a
timer happens only when every pass awaits (`Quiet`). `activeDrainToken` is a
counter in the code and the identity of a pass here: both say who began last.
A pass that returns early takes the token as in the code.

What `SyncDrain` and `CountTransfer` leave out: the items' payloads beyond what the marker
compares and the properties read; the user id beside the business; validation
of an item (one more non-retryable refusal, like `Deny`); the age of the
watchdog (`Stall` may happen at any time while a pass lands nothing); the
re-scoping of what was queued before the first business was known. The ledger of
synced ids is emptied as in the code, by a new session (`StartSession`,
`sessionSlice.ts:63`), by a switch of business (`SetBusinessContext`, `scanStore.ts:976`),
by a cleared cache or session and by a sign-out, and its stored copy keeps the newest
`SyncedCap` ids (1000 in the code, `scanPersist.ts:61`); which ids those are is left
open. The ghost `dropped` has the ids that went that way. In `CountTransfer`: one product per
delete (a purge is several); products and feed rows saved in the cloud;
the context firewall; reviews. Aliases are folded into the codes of a product
and its trust. Its queue has no passes: `SyncDrain` is what justifies that an
increment is applied once, late, and in any order, since a failed increment
does not hold back the ones behind it.

In `ReloadMerge` a load is asked, reads the documents, reads the scan events of
the session it will restore, and is merged, dropped because a later load or
another business has overtaken it, or fails. The five queries that the loader
sends in parallel are one read here; only the dependent query for scan events
is a step of its own. Sessions are all active, so that the newest one is
restored; the user id is folded into the business; reviews, aliases and the
adoption of placeholder work are left out. A row made on the device has its own
id and a row that was read has the id of its document, as in the code, since the
merge compares both. The parts that were already modelled are reduced: an item
lands once and leaves the queue later, in any order (`SyncDrain`), and a delete
moves the rows to one provisional product (`CountTransfer`).

What an instance of `ReloadMerge` allows is in `May`:
`load` a second mount of the gate, `refresh` the Refresh button, `switch` the
choice of another business, `delete`, `rotate`, `otherScan` what they say, `fail` a failing read, `landDuringLoad` an item that lands
between a read and its merge, `refreshDuringLoad` a refresh before the first
load is through (the history page), `unsavedSession` a mount before the
session's own item has landed.

`PersistStorage` is one key of the wrapper; the n-th blob handed over is the
number n. IndexedDB commits the transactions of a page in the order they were
opened and calls back later; either may fail, and so may localStorage. A page
that dies loses what is open and every callback. The read of a new page may fail
too: `LoadUnread` takes IndexedDB for empty, as `readBackingPair` does (336-352), and copies
localStorage over it. The promise chain behind a
migration runs before any other event (`MayAct`), as microtasks do. Left out:
the choice of the key by user, a store that is absent altogether, several tabs.

`ReviewLifecycle` composes what acts on an unknown code: the scan
(`UnknownScan`, with `ensureProvisionalCount`), the decode (`Fail`, `Suggest`,
`Verify`), and the person (`Link`, `Accept`, `Type`, `Decline`, `Ignore`, `Retry`,
`MarkWrong`). What a decoder says is one of three kinds of answer: nothing
usable, a name without evidence, an identity with evidence that may carry other
codes; and what the store makes of it is `then`: it is kept, parked as a suggestion
or applied (the settings and thresholds decide which, and are not modelled).
`alike` stands for the similarity of names in `identityMerge.ts`. Two scans that
decisions make (`applyToCount`) are counted in `applied`. Left out: the trusted
exact probe, the context firewall, the catalogue-first shortcut,
`backgroundVerifyDeep`, `correctionRecheck`, `removeFromCount`, `correctProduct`,
moving and unlinking aliases, the universal import, two decodes of one code at
once, sessions, and the queue (`CountTransfer` and `SyncDrain` have both).

`SpendGuard` has a request look for a stored answer, read the budget, charge the day,
charge its account, refund, call, record and store, one round trip each; a round trip
works, fails before it is applied, or is applied unheard. The day of a bill is fixed
when the call is back, and its record, the repeated record and the instance's own
figure are for that day however late they are (`BillDay`, `aiSpendGuard.ts:371`). Left out: the free lookups of
corpus and catalogues, the rate limit of the route, the abort that bills the
worst case (it is one of `Costs`), the file fallback of a development server,
expiry and eviction of the cache.

`DecodeLane` measures time in ticks, of which `Rate` bring back one token. The
gate is judged when a call starts, by the counters it reads then, and those are
what it writes back changed. Left out: the lane of the trusted exact probes, the
owner's bypass, AI switched off or offline, midnight, a clock set back.

`Promotion` has one console, as the runbook does: one command at a time, any of
them again at any time, `Die` at any await. Each batch is one step (the database
commits it or not), the load of a dataset is many (`StageStops`). Writers insert or
replace rows of live tables; nobody deletes any. `NothingDestroyed` is about the rows in
`written`, the ghost of what was live and not written over. Left out: the dump files
of a backup, which no command reads; dry runs and `verify`, which change nothing
(its gates are in `PromoteGates`); the check of table names in SQL text; the
sampled lookups of the smoke test beyond one part number and its tire. The three
tables that the first promotion creates are one, `provenance`; alias and canonical
tables have no gate on their keys, so that what is said of it there is said of
provenance only. The fingerprint is of whole rows here; in the code it covers the
columns listed in `FINGERPRINT_COLUMNS`.

## 3. Runs

All of them are exhaustive and expected to pass:

| Run | Instance | Shows |
|---|---|---|
| `counts` | a scan, a new session, the scan's event again under another key; two passes; timeouts after which the transaction still lands, watchdog, reload; a stored copy that keeps no synced id | nothing lost, no event twice, synced ids are on the server and no flush takes one back, `CountLedger` is implemented |
| `reviews` | two decisions on a review; timeouts, refusals, Retry, watchdog, reload, Clear session | the later decision stands, nothing resurrected |
| `tenants` | two businesses and switches under running passes; a product with writes in both lanes; one slot | ceiling; the newest product write stays |
| `live` | watchdog, Retry, offline, cleared cache and sign-out, with fairness | every item lands, is cleared, or its owner left |
| `transfer` | one product, one unknown code, three scans, two sessions | scan N = count N, feed and rows balance, cloud agrees once drained, transfers are net zero |
| `together` | two businesses (symmetric), two sessions, two scans, two devices, three loads that overlap and fail | nothing of the other business on screen, counts cover the feed and never drop, unsynced scans stay on screen, the gate opens, a merge of the present documents shows them |
| `alone` | two sessions, deletes, rotation, refreshes | the counts are the scans, under one product each |
| `persist` | three blobs, one removal, two reloads, three faults (of transactions, of reads, of localStorage), clocks that may be set back, a latch at two failures | what reached a store stays readable, the blob wanted is the one kept, the removed one stays away, every save lands |
| `review` | two codes, one of them of a known product; three scans, three acts of a person | no unit made or lost from the books, one placeholder for a code, no guess becomes identity, decisions stand |
| `spend` | three requests of two kinds of mix, two instances, two days, one fault; limits of one and two | caps of day and account hold, refusals are refunded, the overshoot is bounded but for three named exemptions, joined requests end |
| `lane` | three reviews, five asks, width two, burst two, threshold, cooldown and limit of two | no queue without a resume, the rate is kept, an open breaker stands, every task ends |
| `promote` | two stamps (symmetric), one backup directory, three datasets, two upsets (edits, dead stages, writes), deaths without bound | no row destroyed, one indexed generation live that can be rolled back, a promotion that passes lost nothing the backup saw |

The bounds: two passes are what the watchdog needs to overlap (a third waits
behind them); two or three items are one more than any guard of the code
compares (an item against one other of its product, event or review); one
flush chunk boundary falls inside a pass; one slot is contended by two products;
a stored copy of no synced ids (`counts`) loses them all, one of one id (the others) may
lose some. Three scans, two sessions and three
products let a delete, scans in between, an undo and a rotation all happen in
one behaviour. Unbounded counters (`made`, `scans`, `session`) are bounded by
the instance's constants. In `ReloadMerge` three loads are what it takes for one
to be overtaken by another and for a later one to repair it; two scans leave
one in the cloud while the other is pending; two products are one and its
provisional. In `PersistStorage` three blobs are one landed, one under way and
one pending; two reloads let a page migrate what the page before left in
localStorage and die during it; two of three faults trip the latch and one is
left. In `ReviewLifecycle` three acts are a decision, its reversal and a second
decision, around decodes in flight; three scans repeat a code and add the other
one. Random behaviours of a larger instance (three codes, six scans, nine acts) are
worth a run after a change of this module: what `again` says of markWrong and the
exemption of `OnePlaceholder` take that many steps to need. In `SpendGuard` three requests are two on one instance that share a
computation and one that races both from another; limits of one and two are
reached, and one fault is a budget that cannot be read, a record that fails or is not
heard of, or a lost refund. In `DecodeLane` three reviews fill both slots and wait, and every
limit is reached. In `Promotion` two stamps are a promotion on top of another, and one
repeated after its rollback; datasets with the same counts and other keys are what
counting cannot tell apart; two upsets put an edit back, or a write on each side of a
check. Its deadlock check is on. `CHECK_DEADLOCK FALSE` is set because a system with
nothing left to do, or at a bound, may stop.

`NewestProductStands` is checked without some disturbances on purpose: a product write
that was refused and re-armed, or lost by a reload, may legitimately land
after a newer one (listed under hazards). Its theorem (`NewestProductsStand`) speaks of the
others, timeouts and switches of business among them.

`PROJECT.json` lists as many runs as answer distinct questions. Other instances
are kept beside them, to be run by hand with `tlc -config X.cfg M`:
`MCSyncProducts.cfg` (module `MCSyncProducts`) is the physical ceiling with two
slots, `MCSyncCountsFail.cfg` (module `MCSyncCounts`) is `counts` with attempts that fail
and commits whose answer is lost besides (in `counts` every such attempt ends in a
timeout, which leaves the client the same; 1.6 million states), `MCSyncTenantSends.cfg` (module `MCSyncTenants`) checks `SentUnderItsBusiness`, which is
proved (`SendsKeepTenant`), and
these six each show one of the exceptions below, by a violation:
`MCCountRedelete.cfg`, `MCCountLateUndo.cfg` (module `MCCountTransfer`),
`MCReloadDeleted.cfg`, `MCReloadHistory.cfg` (module `MCReload`),
`MCReviewCountN.cfg` (module `MCReviewLifecycle`), `MCPromotionStaged.cfg` (module
`MCPromotion`).

### Known exceptions

What the passing runs keep out. A run that checks a property with everything
allowed that the code gets wrong would stop at the first of these, so `May`, the
ghosts and the instances separate them.

Counts and transfers:

- `redelete` (`MCCountRedelete.cfg`, `CloudAgrees` fails): transfer keys name the
  count row only (`productDelete.ts:112`), and the row survives delete and undo.
  The second transfer of a row is swallowed or refused, and the cloud's rows stay
  wrong for good, against the comment at `productDelete.ts:92-94`. The same
  instance shows that deleting an archived product again overwrites its backup.
- `lateUndo` (`MCCountLateUndo.cfg`, `TransfersNetZero` fails): an undo after a
  rotation sends the re-add without the take-off (`catalogSlice.ts:240`), against
  "net zero per session" at `catalogSlice.ts:222-223`.
- `transfer` has no code shared by two verified products: one of them counted
  stops `ensureProvisionalCount` from counting the code again. `DistinctCodes` is the
  hypothesis that excludes it in the theorems; with a shared code TLC refutes
  `ScanNCountN`.
- `CloudAgrees` fails after a repeated delete, `TransfersNetZero` after a repeated
  delete or a late undo. A late undo does not break `CloudAgrees`, which is proved
  (`CloudFollows`): what it leaves wrong in the cloud is the row of the provisional
  product, which the store no longer has.

Reloads:

- `reloaddelete` (`MCReloadDeleted.cfg`, `CountsAreScans` fails): the load of
  `setBusinessContext` (`scanStore.ts:1088`) does not hold back the row of a product whose
  delete transfer is queued, as `refreshFromCloud` does, although the comment at
  `scanStore.ts:1043` says it mirrors it.
- `history` (`MCReloadHistory.cfg`, `LoadSettles` fails): the history page refreshes
  while the first load is under way; the load is overtaken (`scanStore.ts:1002`) and
  never sets `businessDataLoaded`. The page calls this harmless
  (`app/(app)/history/page.tsx:64-65`).
- `landDuringLoad` (in no run): an increment that lands and is dequeued between
  the snapshot and the merge is in neither, the stale remote row wins, and
  `CountsCoverFeed`, `CountsNeverDrop` and `CountsAreScans` fail. So does `Converges`: a refresh
  leaves such a stale row; the load of a second mount then reads the row that is right
  but not the session, which has not landed yet, and a merge that finds no session
  changes nothing.
- `rotate` with `unsavedSession`: a load before the new session is saved, a second
  mount or the return from another business, restores the older one and drops the
  new session's unsaved scans from the feed and its rows from the counts.
  `UnsyncedStaysOnScreen` speaks of a newest session that is saved (`NewestSaved`), and
  the instances of `CountsCoverFeed` have no rotation.
- Deletes are in `alone` only, second mounts in `together` only. A delete on
  another device is not modelled; see the hazards.

Sync:

- Clear session (`scanStore.ts:1527-1537`) empties the queue with the feed, so that scans
  which have not reached the cloud are gone, although the button says that the saved
  counts are kept (`app/(app)/scan/page.tsx:230`) and `startSession` keeps the queue for
  just that reason. In the model the wiped work is no longer `recorded`: nothing is said
  of it, but that it does not come back except from the stored copy (`NoResurrection`).
- The late flush of a superseded pass that has one success re-arms an item that
  a newer pass has quarantined; no property of `SyncDrain` forbids it.

Persistence. `LandedStands` says without exception what the header of the wrapper
claims (`scanPersistStorage.ts:212-220`), and TLC refutes it. The ghost `excused`
records which of these has happened:

- `latch`: once the latch has tripped, a newer blob goes straight to localStorage,
  and the late failure of an older write then writes its blob over it (line 618).
- `reissue`: a removed write that commits late removes its key again, and with it
  what was written after the removal (lines 592-603).
- `waited`: a write that waits for a migration reads the generation when it
  starts (571), so that a removal before that (756) does not stop it.
- `undeleted`: the delete of a removal fails or dies with the page; there is no
  second attempt.
- `unread`: a page whose read of IndexedDB fails goes by localStorage alone
  (`scanPersistStorage.ts:348-351`). It copies what is there over the blob it has not
  seen, or starts empty and writes over it, under stamps that start too low.
  `LandedStandsUnless` excepts it. `RemovedStaysRemoved` holds with it in the run; its
  theorem speaks of pages that have read both stores.

Reviews:

- `countn` (`MCReviewCountN.cfg`, `ScanNCountN` fails): a person links the code while
  its decode is under way; `resolveUnknown` gives the row the status "resolved" and
  moves its unit (`reviewSlice.ts:604-616`). The late answer takes the newest row
  whose status is not "known" and counts its event on a placeholder as well
  (`decodeSlice.ts:1533-1546`, after a failure 1828-1834): one scan is two units, against
  "idempotent by event id" at `decodeSlice.ts:1531` and "scan N = count N" at
  `reviewSlice.ts:631`;
- a late answer may merge or rename a product a person has verified
  (`decodeSlice.ts:1465-1529`; the ghost `renamed`), and `autoSuggestApplied`
  closes a review over a person's decision (1663-1672; `DecidedStands` allows it);
- merging by a suggested answer leaves the review waiting with its placeholder
  gone, so that an approval scans the code once more (counted in `applied`);
- after markWrong the alias is kept unapproved, and linking the same code to the
  same product again finds it (`aliasExists`, `reviewSlice.ts:566`) and leaves it so: the
  code is not learned, against the comment at 536;
- markWrong of a product whose rows have been counted elsewhere counts them again:
  `ensureProvisionalCount` takes the newest row of the code that does not say "known",
  whoever has decided and counted it (`scanSlice.ts:925`), and a residue may stand for
  a row that is left open (`reviewSlice.ts:1754-1804`). Both are in the ghost `again`;
- with two codes markWrong reopens only one review;
- linking a code to an abandoned placeholder revives it beside the one that has the
  units since (`OnePlaceholder` is about placeholders no alias names);
- a row whose review is decided before its queued decode starts shows "decoding"
  for good (`decodeSlice.ts:593`).

Decode lane and spending:

- half open, the breaker lets every request through until one of them settles,
  against "allows a single trial request" (`circuitBreaker.ts:35`), and the failure
  of a call that started earlier closes an open breaker (`OpenStands` names it);
- calls that overlap write back the count they started from, so any number of
  them passes the client's daily limit (`decodeSlice.ts:1141`; `AloneWithinLimit` speaks of
  the others); failures are not counted at all;
- a refund after midnight takes the slot from the new day (`aiSpendGuard.ts:242`; the ghost
  `strayed`); the budget is checked long before the bill is recorded, so that
  calls under way beside one another pass it (`OvershootBounded` says by how much);
- three kinds of money are outside that bound, and in the ghost `excused`: the
  owner's, who has no budget; the bills of requests that were let through because
  the budget could not be read and the instance's own figure allowed it, for the
  check fails open (`aiSpendGuard.ts:348-351`; the ghost `unseen`); and the first of two
  records of one bill, when it was applied and its answer was lost (391-396). Each
  of them may also use up the budget of the requests that come after;
- a refund that fails or is not heard of leaves the day a call short; `NothingStarved`
  speaks of histories without faults and midnights.

Promotion (lines of the script):

- `staged` (`MCPromotionStaged.cfg`, `PublishedIsBound` fails): `stage` reads the SQL files
  first (lines 923-936) and compares their hash with the manifest after it has
  checked live (956-958); it loads what it read. Files that are edited and put back
  meanwhile, and any tables staged by an earlier run, pass every check of `promote` if
  their counts are those of the bound dataset, since it compares the files and
  never what was staged from them. The comment at 729-732 says that running "against a
  DIFFERENT staging dataset" is caught. `PassedIsSound` says what holds nevertheless.
- A write between the last check of live and the batch is set aside unseen
  (the ghost `late`; the smoke test notices a lost part number, not a lost tire). The
  comment at 672-678 calls the check "the deterministic substitute for an
  owner-approved write freeze"; the runbook denies it
  (`TURSO_PROMOTION_RUNBOOK.md:13-16`) and is right.
- The collision guard looks at `_old_` names only (1504-1509). A promotion that was
  rolled back and is run again under the same `PROMOTE_TS`, as its message
  suggests (1515-1516), cannot be rolled back: the `_failed_promotion_` names are
  taken (the ghost `reused`). So it is after a rollback of another promotion
  than the latest (the ghost `disorder`).
- A backup repeated under one `PROMOTE_TS` writes over the dumps of a manifest that
  is still valid until its own is written; its flag `consistent` compares counts
  only. No command reads either.

`CountsCoverFeed` speaks of a device that stays with its business: what waits
for another business cannot be sent until the user goes back to it, and the
reload that shows the cloud's older rows is then all there is. `TenantOnly` is
proved for every `May`.

## 4. Fairness

`FairSpec` assumes that the steps of a pass are taken (the JavaScript event
loop runs continuations, weak fairness) and that a transaction on the wire
that could commit again and again does commit (strong fairness: the SDK retries
it, and the model lets no attempt fail in that run). Nothing is assumed of the
user, of the watchdog or of connectivity. `Drains` needs no step of the user:
the enqueue itself starts a drain. Without the no-failure assumption the
property is false of the code: nothing drains again after a failed attempt
until the next scan, Retry, online event or business load.

`EverySaveLands` (`persist`) assumes that timers fire, that promises continue,
that IndexedDB settles what it was given, well or badly, and that a page loads;
nothing of the person. `JoinersEnd` (`spend`) assumes that each request that
lives takes its next step: every call to storage and provider has a time limit.
An instance that dies ends its requests. `EveryTaskEnds` (`lane`) assumes that time
passes, that a due resume fires and that a decode settles and its promise ends
(fetch is aborted by its own timer).

## 5. Proofs

`SyncDrainProofs` proves for every set of items, keys, events, tenants, passes
and every choice of disturbances, under the assumptions named in the modules
(`ItemsAssumption`, `ItemAssumption`, `NoneAssumption`, `SlotsAssumption`,
`OwnersAssumption`, `MayAssumption`):

- `TypeCorrect`: `TypeOK`, by one step per action.
- `NothingIsLost`: `NothingLost`. It is not inductive: an item leaves the queue
  at a flush, long after its transaction. `Acked` carries the fact across: an
  attempt that has an ok answer, handled or not, has its own write on the
  server. `IInv` is `TypeOK /\ Acked /\ NothingLost`; markers never change once
  written (`Settled` is stable), commits give ok only to what they settle, and
  a flush removes only what is ok.
- `NoDoubleCount`: `OncePerEvent`, inductive with `TypeOK`, since the event
  list of the row is read in the transaction that extends it.
- `ImplementsLedger`: every step posts one event to one row or leaves both
  alone.

It goes on with the same assumptions and `EntityAssumption` (a document belongs to one
business):

- `NothingComesBack`: `NoResurrection`, action by action: only an enqueue and a
  reload write a place of the queue that is empty.
- `DecisionsStand`: `NewestDecisionStands`, made inductive by `DecisionInv`: a settled
  review has a document. No order of sends is needed, which is the point: the
  transaction compares the clocks (`StaleReviewDecision`), so that whatever lands late
  leaves the document alone or gives it to a decision at least as late.
- `LedgerIsComplete`: `DequeuedIsSynced`, from `LedgerInv`: a success that a pass has handled
  is in the pass's accumulator (`AccInv`), from where a flush takes it to the ledger
  with the item; accumulators and stored ledgers name only what has landed. It is
  about the live ledger, and of what the code takes off it on purpose (`dropped`) it says
  nothing. The stored copy, which is cut, is in `LedgerInv` only because a reload
  makes it the live one. Nothing in the code decides by the ledger: its comment
  (`scanPersist.ts:52-57`) calls old ids dead weight, and `NothingIsLost` and
  `NoDoubleCount` do without it.
- `LaneIsBounded`: `PhysicalCeiling`, from `LaneInv`: the lane's transactions on the wire are
  the items of the registry, which takes in one only where there is a slot and no
  other write of its product.
- `SendsKeepTenant`: `SentUnderItsBusiness`: a pass works for the business it captured
  (`BatchInv`), and every send re-reads that it is still the active one.
- `NewestProductsStand`: `NewestProductStands`, from `OrderInv`: items are recorded in the order
  they are made, and one is sent only when the key of every older write of its
  product is claimed on the server, whoever claimed it; a claimed key stays claimed,
  so no transaction left behind can overlay a newer write. Two hypotheses:
  `NothingGivenUp` (no item refused for good, lost by a reload or wiped: the
  exceptions above) and `KeysTellApart` (two product writes under one key differ).

`ReloadMergeProofs` proves for any businesses, any bounds and any `May` (under
`BoundsAssumption` and `MayAssumption`):

- `TypeCorrect`: `TypeOK`.
- `TenantIsolation`: `TenantOnly`. What is on screen stays the business's own
  only if what a load has read is of the business the load was begun for, which
  in turn needs that every row, scan event and session in the cloud or on its
  way names a session that has begun. `IInv` states the three (`ScreenOwned`,
  `LoadsOwned`, `ItemsGrounded`/`CloudGrounded`/`ScansGrounded`); the check of
  generation and business after the await (`Live`) is what lets an answer on
  screen. Sessions and scans are only ever appended, so that what one belongs to
  never changes (`Growth`). That a non-empty set of sessions has a newest one
  (`MaxOfSessions`) rests on the well-foundedness of the naturals.
- `GateOpens`: `LoadSettles`, without `refreshDuringLoad`: the last load asked for is the
  screen's business's (`LastMine`), and a load that is not the first of its
  business finds the gate open already (`Gate`).
- `UnsyncedScansStay`: `UnsyncedStaysOnScreen`, without `landDuringLoad`: a scan that waits
  was not read by a load before it, and the merge keeps what waits (`FeedInv`).
- `CountsStay`: `CountsNeverDrop`, without `delete` and `landDuringLoad`: what a row
  has counted on screen is in the cloud or waits under its key (`Covered`), the
  ids of the rows being those of their documents (`Plain`).
- `MergesConverge`: `Converges`, under the same hypotheses, and of count rows only (what
  the feed shows of waiting scans is `UnsyncedStaysOnScreen`): a session that is not in the
  cloud is still to be sent (`SessionsSaved`). `landDuringLoad` breaks it (section 3).
- `CountsCover`: `CountsCoverFeed`, without `delete`, `rotate` and `landDuringLoad`, each of
  which TLC shows to break it (section 3). `Holds` says of the three places where counts
  are, the screen, the answers of loads and the cloud with what waits, that each
  covers the scan events beside it.
- `CountsAreTheScans`: `CountsAreScans`, with deletes, further sessions and refreshes at any
  moment, for a device alone: without `load`, `switch`, `otherScan` and `landDuringLoad`.
  TLC refutes it with any of the four. `Tallied` is the invariant: the rows on screen are
  of the newest product, the one that the last delete made (`NewestOnly`); what the cloud
  will hold of such a row once everything is sent, the `Posted` quantity, is what the row
  shows, is that of a session's scans for the session on screen, and never exceeds
  them (`RowsPosted`). A send moves an item from one part of `Posted` to the other
  (`SendPosts`), a delete starts a key whose only item is the transfer of the old row
  (`DeletePosts`, from `OwnItems`), and a refresh takes a row only if nothing waits for its
  key, so that what it has read is all there is (`ReadsNow`, `TallyMerge`). The one load there
  is precedes the first session (`MountedOnce`).

`DecodeLaneProofs` proves for any number of reviews, width, rate, burst,
threshold, cooldown and daily limit (under `LaneAssumption` and
`NoneAssumption`):

- `TypeCorrect`: `TypeOK`.
- `NeverStalls`: `NoStall`. A pass over the queue stops for want of a review, of
  a slot or of a token (`StartingFacts`); in the last case it arms the resume
  unless one is armed. That slots and queue add up needs that no review is in the
  lane twice (`Distinct`).
- `KeepsTheRate`: `RateKept`, from `Paid`: what the lane has not yet paid for and what
  the bucket would hold now are together at most the burst. A start moves a token
  from one to the other, a tick gives and takes one unit.
- `LimitHoldsAlone`: `AloneWithinLimit`, from `Counted`: a call that meets no other
  finds a count that covers all such calls before it.
- `OpenBreakerStands`: `OpenStands`, from `Tripped`: a breaker that is not closed has
  failed up to the threshold, so that one more failure opens it whatever a call
  has read, unless what it read was closed.

`Inv` is the conjunction of these, and each action preserves it conjunct by conjunct.

`SpendGuardProofs` proves for any finite set of requests, any mixes of them, any
limits, costs, days and faults (under `LimitsAssumption`, `CostsAssumption`,
`RequestsAssumption`, `MixesAssumption` and `NoneAssumption`):

- `TypeCorrect`: `TypeOK`.
- `LimitsHold`: `CapsKept`. The counters cover what they have granted (`Covered`), with
  what refunds took from the wrong day: a conditional increment that finds the counter
  below the limit therefore keeps the calls below it. This needs that a request
  holds a call from its charge on and not before (`Held`), so that none is
  counted twice.
- `RefusalsCostNothing`: `NothingStarved`, inductive with `Held`: a refund gives back
  the one call its request holds.
- `BudgetHolds`: `OvershootBounded`, from `Ahead`: what a day has recorded, with the worst
  case of every call that may yet be billed to it (`Owing`: of the day of its bill once it
  is back, of today or later before), is within the bound. A check adds a call, a
  record turns the worst case of one into its bill, and midnight leaves those whose
  day is fixed (`Dated`) where they are. The exemptions are those of section 3.

Most of that module is about cardinalities of sets of requests of which one changes
its place; each action names that request and leaves the others where they are.

`PromotionProofs` proves for any number of stamps, backups and upsets, any keys and
any datasets (under `BaseAssumption`, `DatasetsAssumption`, `UpsetsAssumption` and
`NoneAssumption`):

- `TypeCorrect`: `TypeOK`, with `SwapReady`: a swap that is about to come finds all staged
  tables and free names.
- `RowsSurvive`: `NothingDestroyed`, inductive with it. The swap moves live tables to
  names that the guard found free, the rollback to names that its own renames
  need free, and a write replaces one row.
- `LiveCanBeRolledBack`: `RollbackStands`, from `Standing`: each generation is whole or
  empty, and of each stamp that was not used again there is one generation, with what
  it replaced beside it (`Traceable`). The last is what makes rollbacks in order
  possible one after another.
- `PassedPromotionIsSound`: `PassedIsSound`, from `Progress`: what lies in staging is part of
  one dataset (`StagedOf`); past the last check every live row was seen by the backup
  or is late (`Checked`); past the gates staging has the counts and the keys
  (`Gated`); past the swap the same is true of what was set aside and what is live
  (`Swapped`). A part of a finite set with as many elements is all of it: so all of
  the dataset is live, but only if it was staged from the dataset the backup bound.
  Of another one with larger tables, a part with the right counts passes.

`PersistStorageProofs` proves for any number of blobs, clocks, reloads and faults
(under `ThresholdAssumption` and `ClocksAssumption`):

- `TypeCorrect`: `TypeOK`.
- `LandedBlobsStand`: `LandedStandsUnless`. `Base` orders the stamps of everything that
  carries a blob, in a store, in a transaction, in a copy or pending (`Ordered`), and
  says what may be behind what (`Behind`, `Queued`, `Generations`, `Migrating`, `Reached`);
  `Landing` adds that no transaction under way deletes or overlays the newest blob
  that reached a store but by one of the named exceptions (`DeletesOld`).
- `WantedIsKept`: `SavedIsKept`, from `Saving`: the newest blob is pending, on its way
  (`OnItsWay`), stored, or was given up.
- `RemovedIsGone`: `RemovedStaysRemoved` as long as every page has read both stores (`ReadBoth`),
  from `Removing` and `RemovalWaits`: what could bring a removed blob back is of an older
  generation and is dropped when it is seen. An unread page starts its stamps below
  those of the blob it has not seen, and the order of stamps (`Ordered`) is lost; that
  nothing removed comes back even then is left to the run.

`CountTransferProofs` proves for any codes, any catalogue in which a code belongs to one
product (`DistinctCodes`), and any number of scans, products, sessions and rows
(under `CatalogueAssumption`, `BoundsAssumption` and `KindsAssumption`):

- `TypeCorrect`: `TypeOK`.
- `ScanNIsCountN`: `ScanNCountN`, for every `May`: repeated deletions and late undos do not
  touch it. `Local` says that a row is as many units as scans and no scan is in two
  rows (`RowsCount`), that the feed shows each scan of the session once, under the
  product of its row (`FeedRead`), and that until an undo the rows of the backup
  live on under the minted product and only grow (`BackupKept`): so the undo can
  put them back and number what is left over anew. `NoneLeftOut` is where
  `DistinctCodes` is needed.
- `BooksAlwaysBalance`: `BooksBalance`, from the same.
- `CloudFollows`: `CloudAgrees`, for histories without repeated deletions (`"redelete"
  \notin May`), late undos included. `Ledger` says that no key is used twice and that
  the halves of a pair are of two products (`Posted`), so that the server refuses and
  skips nothing; that all increments, landed or waiting, make the rows
  (`RowsBalance`), the rows of earlier sessions too, of which there is one for a
  session and product (`OneRow`); that a backup of an earlier session finds its
  rows gone and their increments at zero (`LeftBehind`), so that the late re-add alone
  makes the row again; and that the cloud is the sum of what landed (`CloudSums`).
- `TransfersCancel`: `TransfersNetZero`, without repeated deletions and late undos
  (`May = {}`): the transfers of a session also cancel out (`NetZero`), which a late
  undo, sending one half of a pair, breaks.

Sums there are of any length, and induction over a set is out of the prover's reach.
`Sum` is therefore the value of any function that adds one element at a time
(`Adds`), a smallest counterexample (`SmallestSet`) replaces the induction, and two
quantities that both add one element at a time are equal (`SumExhibit`,
`SumOfDisjoint`, `SumOfParts`). `TotalIsSum`, `DeltasAreSum` and `CloudIsSum` connect it
to the folds of the model.

`ReviewLifecycleProofs` proves for any codes, any catalogue and any number of scans and
decisions (under `CatalogueAssumption` and `BoundsAssumption`). The model changes the
store by functions of the store before, so the proof is one of functions: each takes
a sound store to a sound store, and an action is their composition.

- `TypeCorrect`: `TypeOK`.
- `KnownStaysCounted`: `KnownIsCounted`, with `Booked`: the events of a product are rows of the
  feed, and no more than its units.
- `PlaceholdersStayOne`: `OnePlaceholder`, from `Apart`: of the placeholders of a code nothing
  was linked to, one has units. Counting on a placeholder keeps this only if no
  other of its code has units (`Room`); each operation finds room because it looks for
  a counted product that carries the code before it mints one, and a product carries
  its own primary code (`Coded`). What has left the products has no units unless
  something was linked to it (`Coded`): the exception that the property names.
- `NoUnitInvented`: `NothingInvented`. Units alone are not inductive: a failed decode or a
  late answer counts a row that was left open. `Weight`, the units on the books and the
  rows nobody has decided, is at most `scans + applied + again`. A scan brings one of
  the two, a merge carries units from product to product, a late count turns an open
  row into a unit (`CountLateTakes`), or finds one decided and is in `again`; markWrong turns
  units into open rows, gives the rows to placeholders, and makes up the difference
  by a residue that no row accounts for (`ResidueSound`).
- `GuessesStayGuesses`: `GuessIsNotIdentity` (`Identity`).
- `DecisionsStand`: `DecidedStands`, action by action: a person's acts and scans change their
  counters, and of the rest only an answer disposes of a review (`Stands`).

markWrong visits its codes by a fold over a set. That a function with the fold's
recursion exists (`FoldExists`), so that the fold is its value (`MovedIs`), is proved by a
smallest set instead of an induction; in the same way `HomingAll` carries `Homing`, which says what holds
of the store with the codes visited so far, to all of them.

Every safety invariant and action property of the runs has a theorem. Only model-checked is
liveness (`Drains`, `EverySaveLands`, `JoinersEnd`, `EveryTaskEnds`), which with `ENABLED` is
beyond the prover.

## 6. Plan

1. *(done)* `SyncServer`, `SyncDrain`, `CountLedger`, `CountTransfer`, `ReloadMerge`,
   `PersistStorage`, `ReviewLifecycle`, `SpendGuard`, `DecodeLane`, `Promotion`, and proofs for
   all of them.
2. `ReloadMerge` extended by deletes on the second device and the adoption of
   placeholder work.

## 7. Not modelled

- Adoption of placeholder work (`adoption.ts`): re-scopes records and rebuilds queue
  items under their own keys; the rule it leans on, that the cloud takes a key
  once, is in `SyncServer`.
- Sessions beyond rotation: finish, lock and reopen change a status that nothing
  modelled here reads.
- Removing from the count, correcting a product, moving an alias, imports: single
  updates, each by one person, with no answer to wait for.
- The weighing of evidence, structuring of names, extraction of tire fields, GTIN
  arithmetic, matching of imported files: functions of their input, text and
  tables for the most part; their unit tests say more than a model would.
- The catalogue server, share tokens, provisioning: each operation is one
  transaction or one call on one record.
- Authentication and rules: the Firebase SDK; seen through refusals (`Deny`).
- Rendering, file parsing and formatting, and the maintenance scripts under
  `scripts/` (most of the repository's lines) but the promotion of the catalogue: batch
  jobs over data files that are run once, by hand.

`PROJECT.json` gives the reason for each component.
