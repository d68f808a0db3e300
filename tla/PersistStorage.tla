--------------------------- MODULE PersistStorage ---------------------------
(***************************************************************************)
(* How the scan store's blob is kept (scanPersistStorage.ts): every change *)
(* hands the wrapper the whole state; one write per tick goes to IndexedDB *)
(* with a stamp, a write that fails goes to localStorage instead, and the  *)
(* next page reads both stores and believes the higher stamp.  One key.    *)
(* The n-th blob handed over is the number n, and 0 is no blob.            *)
(*                                                                         *)
(* IndexedDB runs the transactions of a page in the order they were opened *)
(* and tells the page later: a transaction first commits or aborts, then   *)
(* its callback runs.  A page that dies loses what has not committed, and  *)
(* every callback.                                                         *)
(***************************************************************************)
EXTENDS Integers, Sequences, FiniteSetsExt

CONSTANTS
  BrokenThreshold, \* BACKING_BROKEN_THRESHOLD: failed writes in a row
  Clocks,          \* what Date.now() may say at the start of a page
  MaxSaves, MaxRemovals, MaxFaults, MaxReloads \* bounds

ASSUME ThresholdAssumption == BrokenThreshold \in Nat \ {0}
ASSUME ClocksAssumption == Clocks \subseteq Nat /\ Clocks # {}
ASSUME PersistBounds ==
  MaxSaves \in Nat /\ MaxRemovals \in Nat /\ MaxFaults \in Nat /\ MaxReloads \in Nat

VARIABLES
  idb, local,  \* what each store holds: a blob and its stamp
  up,          \* the page has read its blob and runs
  pending,     \* pendingValue: handed over, not yet flushed
  txs,         \* the transactions of the page that have not committed
  settled,     \* those that have, or have failed, and whose callback is due
  copying,     \* the migration of the page: "no", "copying" or "cancelled"
  waiting,     \* the writes and removals chained behind the migration
  lastStamp, clock, failures, broken, probing, generation,
  count,       \* ghost: blobs handed over so far
  saved,       \* ghost: the blob the page wants kept, 0 after a removal
  forgotten,   \* ghost: the blobs up to this one have been removed
  landed,      \* ghost: newest unremoved blob that reached a store
  refused,     \* ghost: blobs neither store would take
  excused,     \* ghost: what is known to cost or to revive a blob (see below)
  faults, removals, reloads \* spent bounds

stores == <<idb, local>>
stamps == <<lastStamp, clock>>
health == <<failures, broken, probing>>
ghosts == <<count, saved, forgotten, landed, refused, excused>>
bounds == <<faults, removals, reloads>>
vars == <<idb, local, up, pending, txs, settled, copying, waiting, lastStamp, clock,
          failures, broken, probing, generation, count, saved, forgotten, landed,
          refused, excused, faults, removals, reloads>>

Blob == 0..MaxSaves
Cell == [val: Nat, stamp: Nat]
Empty == [val |-> 0, stamp |-> 0]

\* A put of a blob, the copy of a migration, or the delete of a removal.
Tx == [kind: {"put", "copy", "delete"}, val: Nat, stamp: Nat, gen: Nat]
Delete == [kind |-> "delete", val |-> 0, stamp |-> 0, gen |-> 0]
Outcome == [tx: Tx, ok: BOOLEAN]

TypeOK ==
  /\ idb \in Cell /\ local \in Cell
  /\ up \in BOOLEAN /\ broken \in BOOLEAN /\ probing \in BOOLEAN
  /\ txs \in Seq(Tx) /\ settled \in Seq(Outcome) /\ waiting \in Seq(Nat)
  /\ copying \in {"no", "copying", "cancelled"}
  /\ pending \in Nat /\ lastStamp \in Nat /\ clock \in Nat /\ failures \in Nat
  /\ generation \in Nat /\ count \in Nat /\ saved \in Nat /\ forgotten \in Nat
  /\ landed \in Nat /\ refused \subseteq Nat
  /\ excused \subseteq {"latch", "reissue", "undeleted", "waited", "unread"}
  /\ faults \in Nat /\ removals \in Nat /\ reloads \in Nat

Init ==
  /\ idb = Empty /\ local = Empty
  /\ up = FALSE /\ pending = 0
  /\ txs = <<>> /\ settled = <<>> /\ copying = "no" /\ waiting = <<>>
  /\ lastStamp = 0 /\ clock \in Clocks
  /\ failures = 0 /\ broken = FALSE /\ probing = TRUE /\ generation = 0
  /\ count = 0 /\ saved = 0 /\ forgotten = 0 /\ landed = 0
  /\ refused = {} /\ excused = {}
  /\ faults = 0 /\ removals = 0 /\ reloads = 0

-----------------------------------------------------------------------------
\* The higher stamp wins, a tie goes to IndexedDB.
LocalIsNewer == local.stamp > idb.stamp

LocalWins == local.val # 0 /\ (idb.val = 0 \/ LocalIsNewer)

\* The blob the next page would read: readNewestPersistedRaw.
Readable == IF LocalWins THEN local.val ELSE idb.val

\* Continuations of a settled migration run before any other event.
MayAct == copying # "no" \/ waiting = <<>>

NextStamp == IF clock > lastStamp THEN clock ELSE lastStamp + 1

Lands(v) == landed' = IF v > forgotten /\ v > landed THEN v ELSE landed

\* localStorage takes the blob and its stamp as one string, or refuses it.
WriteThrough(v, stamp) ==
  \/ /\ local' = [val |-> v, stamp |-> stamp]
     /\ Lands(v)
     /\ excused' = excused \cup (IF stamp < local.stamp THEN {"latch"} ELSE {})
     /\ UNCHANGED <<refused, faults>>
  \/ /\ faults < MaxFaults
     /\ faults' = faults + 1
     /\ refused' = refused \cup {v}
     /\ UNCHANGED <<local, landed, excused>>

\* The start of a write, once no migration stands before it.
StartWrite(v) ==
  /\ lastStamp' = NextStamp
  /\ UNCHANGED <<idb, up, settled, copying, clock, failures, broken, probing, generation,
                 count, saved, forgotten, removals, reloads>>
  /\ \/ /\ broken
        /\ WriteThrough(v, NextStamp)
        /\ UNCHANGED txs
     \/ /\ ~broken
        /\ txs' = Append(txs, [kind |-> "put", val |-> v, stamp |-> NextStamp,
                               gen |-> generation])
        /\ UNCHANGED <<local, landed, refused, excused, faults>>

-----------------------------------------------------------------------------
\* setItem: only the newest blob of the tick is kept.
SetItem ==
  /\ up /\ MayAct /\ count < MaxSaves
  /\ count' = count + 1 /\ saved' = count + 1 /\ pending' = count + 1
  /\ UNCHANGED <<idb, local, up, txs, settled, copying, waiting, lastStamp, clock, failures,
                 broken, probing, generation, forgotten, landed, refused, excused,
                 faults, removals, reloads>>

\* The timer of the tick, or the page being hidden.
Flush ==
  /\ up /\ MayAct /\ pending # 0
  /\ pending' = 0
  /\ \/ /\ copying = "no"
        /\ StartWrite(pending)
        /\ UNCHANGED waiting
     \/ /\ copying # "no"
        /\ waiting' = Append(waiting, pending)
        /\ UNCHANGED <<idb, local, up, txs, settled, copying, lastStamp, clock, failures,
                       broken, probing, generation, count, saved, forgotten, landed,
                       refused, excused, faults, removals, reloads>>

\* removeItem: sign-out, or the local cache is cleared.
RemoveItem ==
  /\ up /\ MayAct /\ removals < MaxRemovals
  /\ removals' = removals + 1
  /\ generation' = generation + 1
  /\ pending' = 0
  /\ local' = Empty
  /\ copying' = IF copying = "no" THEN "no" ELSE "cancelled"
  /\ \/ /\ copying = "no"
        /\ txs' = Append(txs, Delete)
        /\ UNCHANGED <<waiting, excused>>
     \/ /\ copying # "no"
        /\ waiting' = Append(waiting, 0)
        /\ excused' = excused \cup
             (IF \E i \in DOMAIN waiting : waiting[i] # 0 THEN {"waited"} ELSE {})
        /\ UNCHANGED txs
  /\ saved' = 0 /\ forgotten' = count /\ landed' = 0
  /\ UNCHANGED <<idb, up, settled, lastStamp, clock, failures, broken, probing,
                 count, refused, faults, reloads>>

\* One write or removal that waited for the migration.
RunWaiting ==
  /\ copying = "no" /\ waiting # <<>>
  /\ waiting' = Tail(waiting)
  /\ UNCHANGED pending
  /\ \/ /\ Head(waiting) # 0
        /\ StartWrite(Head(waiting))
     \/ /\ Head(waiting) = 0
        /\ txs' = Append(txs, Delete)
        /\ UNCHANGED <<idb, local, up, settled, copying, lastStamp, clock, failures,
                       broken, probing, generation, count, saved, forgotten, landed,
                       refused, excused, faults, removals, reloads>>

-----------------------------------------------------------------------------
\* The oldest transaction commits: oncomplete will be told to the page.
Commit ==
  /\ txs # <<>>
  /\ txs' = Tail(txs)
  /\ LET tx == Head(txs)
     IN IF tx.kind = "delete"
        THEN idb' = Empty /\ UNCHANGED <<settled, landed>>
        ELSE /\ idb' = [val |-> tx.val, stamp |-> tx.stamp]
             /\ settled' = Append(settled, [tx |-> tx, ok |-> TRUE])
             /\ Lands(tx.val)
  /\ UNCHANGED <<local, up, pending, copying, waiting, stamps, health, generation, count,
                 saved, forgotten, refused, excused, bounds>>

\* It aborts: the quota, an eviction, a blocked or a lost database.
Abort ==
  /\ txs # <<>> /\ faults < MaxFaults
  /\ faults' = faults + 1
  /\ txs' = Tail(txs)
  /\ LET tx == Head(txs)
     IN IF tx.kind = "delete"
        THEN excused' = excused \cup {"undeleted"} /\ UNCHANGED settled
        ELSE settled' = Append(settled, [tx |-> tx, ok |-> FALSE]) /\ UNCHANGED excused
  /\ UNCHANGED <<stores, up, pending, copying, waiting, stamps, health, generation, count,
                 saved, forgotten, landed, refused, removals, reloads>>

RecordSuccess == failures' = 0 /\ UNCHANGED <<broken, probing>>

RecordFailure ==
  /\ failures' = IF broken THEN failures ELSE failures + 1
  /\ broken' = (broken \/ failures + 1 >= BrokenThreshold)
  /\ UNCHANGED probing

\* Mutant: a failed write speaks for the key even after its removal.
NeverRemoved(tx) == FALSE

\* A removal came while the write was in flight.
RemovedSince(tx) == tx.gen # generation

Due(kind, ok) ==
  /\ MayAct /\ settled # <<>>
  /\ Head(settled).tx.kind = kind /\ Head(settled).ok = ok
  /\ settled' = Tail(settled)
  /\ UNCHANGED <<idb, up, pending, waiting, stamps, generation, count, saved, forgotten,
                 removals, reloads>>

\* A newer blob is on its way to a store, or already in one.
NewerUnderWay ==
  landed # 0 \/ \E i \in DOMAIN txs : txs[i].kind = "put" /\ txs[i].val > forgotten

\* The write committed; if its key was removed meanwhile it is removed again.
WriteCommitted ==
  /\ Due("put", TRUE)
  /\ RecordSuccess
  /\ \/ /\ ~RemovedSince(Head(settled).tx)
        /\ UNCHANGED <<local, txs, excused>>
     \/ /\ RemovedSince(Head(settled).tx)
        /\ txs' = Append(txs, Delete)
        /\ local' = Empty
        /\ excused' = excused \cup (IF NewerUnderWay THEN {"reissue"} ELSE {})
  /\ UNCHANGED <<copying, landed, refused, faults>>

\* Mutant: a failed write is only counted.
DropFailed(tx) == UNCHANGED <<local, landed, refused, excused, faults>>

FallBack(tx) == WriteThrough(tx.val, tx.stamp)

\* The write failed: the same blob and stamp go to localStorage, unless removed.
WriteFailed ==
  /\ Due("put", FALSE)
  /\ RecordFailure
  /\ \/ ~RemovedSince(Head(settled).tx) /\ FallBack(Head(settled).tx)
     \/ RemovedSince(Head(settled).tx) /\ UNCHANGED <<local, landed, refused, excused, faults>>
  /\ UNCHANGED <<txs, copying>>

\* The copy landed: only now is the source cleared.
CopyCommitted ==
  /\ Due("copy", TRUE)
  /\ RecordSuccess
  /\ local' = IF copying = "cancelled" THEN local ELSE Empty
  /\ copying' = "no"
  /\ UNCHANGED <<txs, landed, refused, excused, faults>>

\* Mutant: the entry of a failed migration is kept.
StillCopying == copying

CopySettled == "no"

CopyFailed ==
  /\ Due("copy", FALSE)
  /\ RecordFailure
  /\ copying' = CopySettled
  /\ UNCHANGED <<local, txs, landed, refused, excused, faults>>

\* The startup probe finds IndexedDB unusable: markBackingBroken.
ProbeFails ==
  /\ MayAct /\ probing /\ faults < MaxFaults
  /\ faults' = faults + 1
  /\ probing' = FALSE /\ broken' = TRUE
  /\ UNCHANGED <<stores, up, pending, txs, settled, copying, waiting, stamps, failures,
                 generation, ghosts, removals, reloads>>

ProbeSucceeds ==
  /\ MayAct /\ probing /\ probing' = FALSE
  /\ UNCHANGED <<stores, up, pending, txs, settled, copying, waiting, stamps, failures,
                 broken, generation, ghosts, bounds>>

-----------------------------------------------------------------------------
\* Mutant: the stamps of a page start from its own clock.
NoFloor == lastStamp

\* The stamps of this page start above everything on disk.
StampFloor == Max({lastStamp, idb.stamp, local.stamp})

\* startMigration: the blob of localStorage is copied forward with its stamp.
StartMigration ==
  IF broken
  THEN UNCHANGED <<txs, copying>>
  ELSE /\ txs' = <<[kind |-> "copy", val |-> local.val, stamp |-> local.stamp, gen |-> 0]>>
       /\ copying' = "copying"

\* getItem at the start of a page: believe the newest blob, heal the other store.
Load ==
  /\ ~up /\ up' = TRUE
  /\ saved' = Readable
  /\ lastStamp' = StampFloor
  /\ IF LocalWins
     THEN StartMigration /\ UNCHANGED local
     ELSE local' = Empty /\ UNCHANGED <<txs, copying>>
  /\ UNCHANGED <<idb, pending, settled, waiting, clock, health, generation, count,
                 forgotten, landed, refused, excused, bounds>>

\* The read of IndexedDB fails and counts as absent: localStorage has the word,
\* and is copied over whatever was not read.  (Of an empty IndexedDB it is a Load.)
LoadUnread ==
  /\ ~up /\ up' = TRUE
  /\ idb # Empty /\ faults < MaxFaults /\ faults' = faults + 1
  /\ saved' = local.val
  /\ lastStamp' = Max({lastStamp, local.stamp})
  /\ excused' = excused \cup {"unread"}
  /\ IF local.val # 0 THEN StartMigration ELSE UNCHANGED <<txs, copying>>
  /\ UNCHANGED <<stores, pending, settled, waiting, clock, health, generation, count,
                 forgotten, landed, refused, removals, reloads>>

\* The page dies or is left, and another one starts.
Reload ==
  /\ up /\ reloads < MaxReloads
  /\ reloads' = reloads + 1
  /\ up' = FALSE /\ pending' = 0
  /\ txs' = <<>> /\ settled' = <<>> /\ copying' = "no" /\ waiting' = <<>>
  /\ lastStamp' = 0 /\ clock' \in Clocks
  /\ failures' = 0 /\ broken' = FALSE /\ probing' = TRUE /\ generation' = 0
  /\ excused' = excused \cup
       (IF Readable # 0 /\ Readable <= forgotten THEN {"undeleted"} ELSE {})
  /\ UNCHANGED <<stores, count, saved, forgotten, landed, refused, faults, removals>>

Settle == WriteCommitted \/ WriteFailed \/ CopyCommitted \/ CopyFailed
Probed == ProbeFails \/ ProbeSucceeds

Next ==
  \/ SetItem \/ Flush \/ RemoveItem \/ RunWaiting
  \/ Commit \/ Abort \/ Settle \/ Probed
  \/ Load \/ LoadUnread \/ Reload

\* Timers fire, promises continue, IndexedDB answers and a page loads.
Fairness ==
  /\ WF_vars(Flush) /\ WF_vars(RunWaiting) /\ WF_vars(Settle)
  /\ WF_vars(Commit \/ Abort) /\ WF_vars(Load)

Spec == Init /\ [][Next]_vars
FairSpec == Spec /\ Fairness

-----------------------------------------------------------------------------
\* Nothing is under way: no timer, no transaction, no callback.
Quiet ==
  up /\ pending = 0 /\ txs = <<>> /\ settled = <<>> /\ waiting = <<>> /\ copying = "no"

(* A blob that reached either store is what the next page reads, or a newer *)
(* one is: whatever fails, whichever store took it, through a migration,    *)
(* clocks set back and reloads.  The three exceptions the code leaves are a *)
(* late fallback over a newer blob once the latch has tripped, the late     *)
(* success of a removed write that deletes what was written after it, and a *)
(* page that could not read IndexedDB and goes by localStorage alone.       *)
LandedStandsUnless ==
  excused \cap {"latch", "reissue", "unread"} = {} => Readable >= landed

(* The same with no exception: "Data correctness never depends on it", says *)
(* the header of the wrapper of the backingBroken latch.                    *)
LandedStands == Readable >= landed

(* Once nothing is under way the blob the page wants kept is the one the    *)
(* next page reads, unless both stores refused it.                          *)
SavedIsKept ==
  Quiet /\ excused = {} => Readable = saved \/ saved \in refused

(* A blob that was removed is not read again: no write or migration in      *)
(* flight at the time brings it back.  The exceptions are a delete that the *)
(* database or a crash lost, and a write that waited for a migration.       *)
RemovedStaysRemoved ==
  Quiet /\ excused \cap {"undeleted", "waited"} = {} =>
    Readable = 0 \/ Readable > forgotten

(* Every blob handed over reaches a store, unless the page hands over a     *)
(* newer one, removes it or ends, or both stores refuse it: none is left    *)
(* behind a migration or in a callback.                                     *)
EverySaveLands ==
  \A v \in Blob \ {0} :
    pending = v ~> (landed >= v \/ v \in refused \/ saved # v \/ ~up \/ excused # {})
=============================================================================
