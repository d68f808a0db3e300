------------------------ MODULE PersistStorageProofs -----------------------
(***************************************************************************)
(* What reached a store stands, what is wanted is kept and what was        *)
(* removed stays away, for any number of blobs, removals, faults and       *)
(* reloads, any threshold and any clocks.                                  *)
(***************************************************************************)
EXTENDS PersistStorage, TLAPS

CellOf(tx) == [val |-> tx.val, stamp |-> tx.stamp]
Moves(tx) == tx.kind # "delete"

\* Where a blob is, with its stamp: in a store, in a transaction, in a callback due.
Carried ==
  {c \in {idb, local} : c.val # 0}
  \cup {CellOf(txs[i]) : i \in {i \in DOMAIN txs : Moves(txs[i])}}
  \cup {CellOf(settled[i].tx) : i \in DOMAIN settled}

\* A page that has not read its blob has nothing under way.
Down == ~up => /\ pending = 0 /\ txs = <<>> /\ settled = <<>> /\ waiting = <<>>
               /\ copying = "no" /\ generation = 0

\* A blob with a higher stamp is not an older blob.
Ordered == \A a, b \in Carried : a.stamp <= b.stamp => a.val <= b.val
Stamped == up => \A c \in Carried : c.stamp <= lastStamp

\* What waits is newer than what moves, what is pending is newer than both.
Behind ==
  /\ forgotten <= count
  /\ pending # 0 => pending = count /\ pending = saved /\ pending > forgotten
  /\ \A c \in Carried : c.val <= count /\ \A i \in DOMAIN waiting : waiting[i] # 0 => c.val <= waiting[i]
  /\ \A i \in DOMAIN waiting :
       /\ waiting[i] <= count
       /\ \A j \in DOMAIN waiting : i < j => waiting[j] = 0 \/ waiting[i] <= waiting[j]

\* IndexedDB takes the blobs of a page in their order.
Queued ==
  \A i \in DOMAIN txs : Moves(txs[i]) =>
    /\ idb.val <= txs[i].val
    /\ \A j \in DOMAIN txs : i < j /\ Moves(txs[j]) => txs[i].val <= txs[j].val

Generation(tx) == tx.gen <= generation /\ (tx.gen # generation => tx.val <= forgotten)
Generations ==
  /\ \A i \in DOMAIN txs : Moves(txs[i]) => Generation(txs[i])
  /\ \A i \in DOMAIN settled : Moves(settled[i].tx) /\ Generation(settled[i].tx)

\* A migration is alone in its page until it is settled.
Migrating ==
  /\ copying = "no" =>
       /\ \A i \in DOMAIN txs : txs[i].kind # "copy"
       /\ \A i \in DOMAIN settled : settled[i].tx.kind # "copy"
  /\ copying # "no" =>
       \/ /\ Len(txs) = 1 /\ settled = <<>> /\ txs[1].kind = "copy"
          /\ copying = "copying" => local = CellOf(txs[1])
       \/ /\ txs = <<>> /\ Len(settled) = 1 /\ settled[1].tx.kind = "copy"
          /\ copying = "copying" => local = CellOf(settled[1].tx)
          /\ copying = "copying" /\ settled[1].ok => idb = CellOf(settled[1].tx)

\* A store holds nothing that has not landed or been removed.
Reached ==
  /\ idb.val <= forgotten \/ idb.val <= landed
  /\ local.val <= forgotten \/ local.val <= landed
  /\ landed = 0 \/ landed > forgotten

\* Before a removal that still waits, everything is older than the removal.
RemovalWaits ==
  \A j \in DOMAIN waiting : waiting[j] = 0 =>
    /\ landed = 0
    /\ \A c \in Carried : c.val <= forgotten
    /\ \A i \in DOMAIN waiting : i < j => waiting[i] <= forgotten

\* Nothing newer than a removal moves before its delete.
DeletesOld ==
  \A j \in DOMAIN txs : ~Moves(txs[j]) =>
    /\ idb.val <= forgotten
    /\ \A i \in DOMAIN txs : i < j /\ Moves(txs[i]) => txs[i].val <= forgotten

Base ==
  /\ Down /\ Ordered /\ Stamped /\ Behind /\ Queued /\ Generations /\ Migrating /\ Reached
  /\ RemovalWaits
Landing == excused \cap {"latch", "reissue"} = {} => DeletesOld /\ Readable >= landed

New(v) == v = 0 \/ v > forgotten
RemovalDue == \E i \in DOMAIN waiting : waiting[i] = 0
DeleteDue ==
  \/ \E i \in DOMAIN txs : ~Moves(txs[i])
  \/ RemovalDue
  \/ \E i \in DOMAIN settled :
       settled[i].tx.kind = "put" /\ settled[i].ok /\ RemovedSince(settled[i].tx)

Outdated(tx) == Moves(tx) /\ tx.val <= forgotten =>
  IF tx.kind = "put" THEN RemovedSince(tx) ELSE RemovalDue

Removed ==
  /\ New(local.val)
  /\ \A i \in DOMAIN waiting : New(waiting[i])
  /\ \A i \in DOMAIN txs : Outdated(txs[i])
  /\ \A i \in DOMAIN settled : Outdated(settled[i].tx)
  /\ New(idb.val) \/ local.val > forgotten \/ DeleteDue
  /\ ~up => New(Readable)
Removing == excused \cap {"undeleted", "waited"} = {} => Removed

Wanted(v) == v <= saved \/ (saved = 0 /\ v <= forgotten)
Newest == /\ \A c \in Carried : Wanted(c.val)
          /\ \A i \in DOMAIN waiting : Wanted(waiting[i])
OnItsWay ==
  \/ saved \in refused \/ saved = pending
  \/ \E i \in DOMAIN waiting : waiting[i] = saved
  \/ \E i \in DOMAIN txs : txs[i].kind = "put" /\ txs[i].val = saved
  \/ \E i \in DOMAIN settled :
       settled[i].tx.kind = "put" /\ ~settled[i].ok /\ settled[i].tx.val = saved
  \/ Readable = saved
Saving == excused = {} /\ up /\ saved # 0 => saved > forgotten /\ OnItsWay

Inv == TypeOK /\ Base /\ Landing /\ Removing /\ Newest /\ Saving

\* The order of the stamps rests on every page's having read both stores.
ReadBoth == "unread" \notin excused
ReadBothInv == TypeOK /\ (ReadBoth => Inv)

-----------------------------------------------------------------------------
(* Sequences and cells *)

LEMMA Shorter ==
  ASSUME NEW S, NEW s \in Seq(S), s # <<>>
  PROVE  /\ Head(s) = s[1] /\ 1 \in DOMAIN s /\ Head(s) \in S
         /\ Tail(s) \in Seq(S)
         /\ \A i \in DOMAIN Tail(s) : i \in Nat /\ i + 1 \in DOMAIN s /\ Tail(s)[i] = s[i + 1]
         /\ \A i \in DOMAIN s : i \in Nat /\ (i # 1 => i - 1 \in DOMAIN Tail(s) /\ Tail(s)[i - 1] = s[i])
  OBVIOUS

LEMMA Longer ==
  ASSUME NEW S, NEW s \in Seq(S), NEW x \in S
  PROVE  /\ Append(s, x) \in Seq(S)
         /\ DOMAIN Append(s, x) = DOMAIN s \cup {Len(s) + 1}
         /\ \A i \in DOMAIN s : i \in Nat /\ i < Len(s) + 1 /\ Append(s, x)[i] = s[i]
         /\ Append(s, x)[Len(s) + 1] = x
  OBVIOUS

LEMMA TxFields ==
  ASSUME TypeOK
  PROVE  /\ \A i \in DOMAIN txs : txs[i] \in Tx /\ CellOf(txs[i]) \in Cell
         /\ \A i \in DOMAIN settled : settled[i] \in Outcome /\ settled[i].tx \in Tx
                                      /\ CellOf(settled[i].tx) \in Cell
         /\ \A i \in DOMAIN waiting : waiting[i] \in Nat
<1>1. \A tx \in Tx : CellOf(tx) \in Cell
  BY DEF Tx, CellOf, Cell
<1>2. \A i \in DOMAIN txs : txs[i] \in Tx
  BY DEF TypeOK
<1>3. \A i \in DOMAIN settled : settled[i] \in Outcome /\ settled[i].tx \in Tx
  <2>1. \A i \in DOMAIN settled : settled[i] \in Outcome
    BY DEF TypeOK
  <2> QED
    BY <2>1 DEF Outcome
<1> QED
  BY <1>1, <1>2, <1>3 DEF TypeOK

LEMMA CarriedCells == ASSUME TypeOK PROVE Carried \subseteq Cell
  BY TxFields DEF Carried, TypeOK

LEMMA CellFields ==
  /\ \A c \in Cell : c.val \in Nat /\ c.stamp \in Nat
  /\ \A tx \in Tx : CellOf(tx).val = tx.val /\ CellOf(tx).stamp = tx.stamp
                    /\ tx.val \in Nat /\ tx.stamp \in Nat /\ tx.gen \in Nat
                    /\ tx.kind \in {"put", "copy", "delete"}
  /\ Empty \in Cell /\ Empty.val = 0 /\ Empty.stamp = 0
  /\ Delete \in Tx /\ ~Moves(Delete)
  BY DEF Cell, Tx, CellOf, Empty, Delete, Moves

LEMMA InitInv == Init => Inv
<1> SUFFICES ASSUME Init PROVE Inv
  OBVIOUS
<1>1. TypeOK
  <2>1. clock \in Nat
    BY ClocksAssumption DEF Init
  <2>2. txs \in Seq(Tx) /\ settled \in Seq(Outcome) /\ waiting \in Seq(Nat)
    BY DEF Init
  <2> QED
    BY <2>1, <2>2, CellFields DEF Init, TypeOK
<1>2. Carried = {}
  BY CellFields DEF Init, Carried
<1>3. Base
  BY <1>2, CellFields
     DEF Init, Base, Down, Ordered, Stamped, Behind, Queued, Generations, Migrating, Reached,
         RemovalWaits
<1>4. Landing /\ Removing /\ Newest /\ Saving
  BY <1>2, CellFields
     DEF Init, Landing, DeletesOld, Readable, LocalWins, Removing, Removed, New, Newest, Saving
<1> QED
  BY <1>1, <1>3, <1>4 DEF Inv

-----------------------------------------------------------------------------
(* Types *)

LEMMA MaxOfTwo == ASSUME NEW a \in Nat, NEW b \in Nat PROVE Max({a, b}) \in Nat
<1>1. \E x \in {a, b} : \A y \in {a, b} : x >= y
  OBVIOUS
<1> QED
  BY <1>1 DEF Max

LEMMA MaxOfThree ==
  ASSUME NEW a \in Nat, NEW b \in Nat, NEW c \in Nat
  PROVE  Max({a, b, c}) \in Nat /\ Max({a, b, c}) >= a /\ Max({a, b, c}) >= b /\ Max({a, b, c}) >= c
<1>1. \E x \in {a, b, c} : \A y \in {a, b, c} : x >= y
  OBVIOUS
<1> QED
  BY <1>1 DEF Max

LEMMA Floor ==
  ASSUME TypeOK
  PROVE  StampFloor \in Nat /\ StampFloor >= lastStamp /\ StampFloor >= idb.stamp
         /\ StampFloor >= local.stamp
  BY MaxOfThree, CellFields DEF StampFloor, TypeOK

LEMMA Stamp == ASSUME TypeOK PROVE NextStamp \in Nat /\ NextStamp > lastStamp
  BY DEF NextStamp, TypeOK

\* TypeOK by the part of the state.
Excuses == {"latch", "reissue", "undeleted", "waited", "unread"}
TypedStores == idb \in Cell /\ local \in Cell
TypedQueues == txs \in Seq(Tx) /\ settled \in Seq(Outcome) /\ waiting \in Seq(Nat)
TypedPage ==
  /\ up \in BOOLEAN /\ broken \in BOOLEAN /\ probing \in BOOLEAN
  /\ copying \in {"no", "copying", "cancelled"}
  /\ pending \in Nat /\ lastStamp \in Nat /\ clock \in Nat /\ failures \in Nat
  /\ generation \in Nat
TypedGhosts ==
  /\ count \in Nat /\ saved \in Nat /\ forgotten \in Nat /\ landed \in Nat
  /\ refused \subseteq Nat /\ excused \subseteq Excuses
  /\ faults \in Nat /\ removals \in Nat /\ reloads \in Nat

LEMMA TypeParts ==
  /\ TypeOK => TypedStores /\ TypedQueues /\ TypedPage /\ TypedGhosts
  /\ (TypedStores /\ TypedQueues /\ TypedPage /\ TypedGhosts)' => TypeOK'
  BY DEF TypeOK, TypedStores, TypedQueues, TypedPage, TypedGhosts, Excuses

LEMMA Values ==
  ASSUME TypeOK
  PROVE  /\ idb \in Cell /\ local \in Cell /\ idb.val \in Nat /\ idb.stamp \in Nat
         /\ local.val \in Nat /\ local.stamp \in Nat
         /\ pending \in Nat /\ lastStamp \in Nat /\ generation \in Nat /\ count \in Nat
         /\ saved \in Nat /\ forgotten \in Nat /\ landed \in Nat
  BY TypeParts, CellFields DEF TypedStores, TypedPage, TypedGhosts

LEMMA TxsLonger ==
  ASSUME TypeOK, NEW tx \in Tx, txs' = Append(txs, tx)
  PROVE  /\ DOMAIN txs' = DOMAIN txs \cup {Len(txs) + 1} /\ Len(txs) \in Nat
         /\ \A i \in DOMAIN txs : i \in Nat /\ i < Len(txs) + 1 /\ txs'[i] = txs[i]
         /\ txs'[Len(txs) + 1] = tx
<1>1. txs \in Seq(Tx)
  BY TypeParts DEF TypedQueues
<1> QED
  BY <1>1

LEMMA Appended == ASSUME NEW S, NEW s \in Seq(S), NEW x \in S PROVE Append(s, x) \in Seq(S)
  OBVIOUS

LEMMA OneExcuse ==
  ASSUME NEW e \in SUBSET Excuses, NEW x \in Excuses, NEW b \in BOOLEAN
  PROVE  e \cup (IF b THEN {x} ELSE {}) \subseteq Excuses
  OBVIOUS

LEMMA OneTx == ASSUME NEW tx \in Tx PROVE <<tx>> \in Seq(Tx)
  OBVIOUS

LEMMA WriteThroughType ==
  ASSUME TypedStores, TypedGhosts, NEW v \in Nat, NEW stamp \in Nat, WriteThrough(v, stamp)
  PROVE  /\ local' \in Cell /\ landed' \in Nat /\ refused' \subseteq Nat /\ faults' \in Nat
         /\ excused' \subseteq Excuses
<1>1. CASE faults < MaxFaults /\ faults' = faults + 1 /\ refused' = refused \cup {v}
           /\ UNCHANGED <<local, landed, excused>>
  BY <1>1 DEF TypedStores, TypedGhosts
<1>2. CASE local' = [val |-> v, stamp |-> stamp] /\ Lands(v) /\ UNCHANGED <<refused, faults>>
           /\ excused' = excused \cup (IF stamp < local.stamp THEN {"latch"} ELSE {})
  <2>1. [val |-> v, stamp |-> stamp] \in Cell
    BY DEF Cell
  <2>2. excused' \subseteq Excuses
    BY <1>2, OneExcuse DEF TypedGhosts, Excuses
  <2> QED
    BY <1>2, <2>1, <2>2 DEF Lands, TypedGhosts
<1> QED
  BY <1>1, <1>2 DEF WriteThrough

LEMMA StartWriteType ==
  ASSUME TypeOK, NEW v \in Nat, StartWrite(v), pending' \in Nat, waiting' \in Seq(Nat)
  PROVE  (TypedStores /\ TypedQueues /\ TypedPage /\ TypedGhosts)'
<1> USE TypeParts
<1>1. TypedStores' /\ TypedGhosts'
  BY WriteThroughType, Stamp DEF StartWrite, TypedStores, TypedGhosts
<1>2. TypedPage'
  BY Stamp DEF StartWrite, TypedPage
<1>3. TypedQueues'
  <2>1. [kind |-> "put", val |-> v, stamp |-> NextStamp, gen |-> generation] \in Tx
    BY Stamp DEF Tx, TypedPage
  <2> QED
    BY <2>1, Appended DEF StartWrite, TypedQueues
<1> QED
  BY <1>1, <1>2, <1>3

LEMMA CallbackType ==
  ASSUME TypeOK, NEW kind, NEW ok \in BOOLEAN, Due(kind, ok)
  PROVE  /\ Head(settled) = settled[1] /\ 1 \in DOMAIN settled
         /\ Head(settled) \in Outcome /\ Head(settled).tx \in Tx
         /\ settled' \in Seq(Outcome)
<1>1. settled \in Seq(Outcome) /\ settled # <<>>
  BY TypeParts DEF Due, TypedQueues
<1>2. /\ Head(settled) = settled[1] /\ 1 \in DOMAIN settled
      /\ Head(settled) \in Outcome /\ Tail(settled) \in Seq(Outcome)
  BY <1>1, Shorter
<1>3. settled' = Tail(settled)
  BY DEF Due
<1> QED
  BY <1>2, <1>3 DEF Outcome

LEMMA HealthType ==
  ASSUME TypeOK, RecordSuccess \/ RecordFailure
  PROVE  failures' \in Nat /\ broken' \in BOOLEAN /\ probing' \in BOOLEAN
<1>1. failures' \in Nat /\ probing' \in BOOLEAN
  BY TypeParts DEF RecordSuccess, RecordFailure, TypedPage
<1>2. broken' \in BOOLEAN
  BY TypeParts, Zenon DEF RecordSuccess, RecordFailure, TypedPage
<1> QED
  BY <1>1, <1>2

LEMMA TypeStep == TypeOK /\ [Next]_vars => TypeOK'
<1> SUFFICES ASSUME TypeOK, [Next]_vars PROVE TypeOK'
  OBVIOUS
<1>0. TypedStores /\ TypedQueues /\ TypedPage /\ TypedGhosts
  BY TypeParts
<1> SUFFICES (TypedStores /\ TypedQueues /\ TypedPage /\ TypedGhosts)'
  BY TypeParts
<1>1. CASE SetItem
  BY <1>0, <1>1 DEF SetItem, TypedStores, TypedQueues, TypedPage, TypedGhosts
<1>2. CASE Flush
  <2>1. pending' \in Nat /\ pending \in Nat /\ waiting' \in Seq(Nat)
    BY <1>0, <1>2, Appended DEF Flush, StartWrite, TypedPage, TypedQueues
  <2>2. CASE copying = "no" /\ StartWrite(pending)
    BY <2>1, <2>2, StartWriteType
  <2>3. CASE UNCHANGED <<idb, local, up, txs, settled, copying, lastStamp, clock, failures,
                       broken, probing, generation, count, saved, forgotten, landed,
                       refused, excused, faults, removals, reloads>>
    BY <1>0, <2>1, <2>3 DEF TypedStores, TypedQueues, TypedPage, TypedGhosts
  <2> QED
    BY <1>2, <2>2, <2>3 DEF Flush
<1>3. CASE RemoveItem
  <2>0. Append(txs, Delete) \in Seq(Tx) /\ Append(waiting, 0) \in Seq(Nat)
    BY <1>0, CellFields, Appended DEF TypedQueues
  <2>1. txs' \in Seq(Tx) /\ waiting' \in Seq(Nat)
    BY <1>0, <1>3, <2>0 DEF RemoveItem, TypedQueues
  <2>2. TypedQueues'
    BY <1>0, <1>3, <2>1 DEF RemoveItem, TypedQueues
  <2>3. TypedGhosts'
    <3>1. excused' \subseteq Excuses
      BY <1>0, <1>3, OneExcuse DEF RemoveItem, TypedGhosts, Excuses
    <3> QED
      BY <1>0, <1>3, <3>1 DEF RemoveItem, TypedGhosts
  <2>4. TypedPage' /\ TypedStores'
    BY <1>0, <1>3, CellFields DEF RemoveItem, TypedPage, TypedStores
  <2> QED
    BY <2>2, <2>3, <2>4
<1>4. CASE RunWaiting
  <2>1. pending' \in Nat /\ waiting' \in Seq(Nat) /\ Head(waiting) \in Nat
    BY <1>0, <1>4, Shorter DEF RunWaiting, TypedPage, TypedQueues
  <2>2. CASE StartWrite(Head(waiting))
    BY <2>1, <2>2, StartWriteType
  <2>3. CASE Head(waiting) = 0 /\ ~StartWrite(Head(waiting))
    <3>1. txs' \in Seq(Tx)
      BY <1>0, <1>4, <2>3, CellFields, Appended DEF RunWaiting, TypedQueues
    <3>2. TypedQueues'
      BY <1>0, <1>4, <2>1, <2>3, <3>1 DEF RunWaiting, TypedQueues
    <3>3. TypedStores' /\ TypedPage' /\ TypedGhosts'
      BY <1>0, <1>4, <2>3 DEF RunWaiting, TypedStores, TypedPage, TypedGhosts
    <3> QED
      BY <3>2, <3>3
  <2> QED
    BY <1>4, <2>2, <2>3 DEF RunWaiting
<1>5. CASE Commit
  <2>1. Head(txs) \in Tx /\ txs' \in Seq(Tx)
    BY <1>0, <1>5, Shorter DEF Commit, TypedQueues
  <2>2. [tx |-> Head(txs), ok |-> TRUE] \in Outcome
    BY <2>1 DEF Outcome
  <2>3. TypedQueues'
    BY <1>0, <1>5, <2>1, <2>2, Appended DEF Commit, TypedQueues
  <2>4. [val |-> Head(txs).val, stamp |-> Head(txs).stamp] \in Cell /\ Head(txs).val \in Nat
    BY <2>1, CellFields DEF Cell
  <2>5. TypedStores' /\ TypedGhosts'
    BY <1>0, <1>5, <2>4, CellFields DEF Commit, Lands, TypedStores, TypedGhosts, bounds
  <2>6. TypedPage'
    BY <1>0, <1>5 DEF Commit, TypedPage, stamps, health
  <2> QED
    BY <2>3, <2>5, <2>6
<1>6. CASE Abort
  <2>1. Head(txs) \in Tx /\ txs' \in Seq(Tx)
    BY <1>0, <1>6, Shorter DEF Abort, TypedQueues
  <2>2. [tx |-> Head(txs), ok |-> FALSE] \in Outcome
    BY <2>1 DEF Outcome
  <2>3. TypedQueues'
    BY <1>0, <1>6, <2>1, <2>2, Appended DEF Abort, TypedQueues
  <2>4. TypedStores' /\ TypedPage'
    BY <1>0, <1>6 DEF Abort, stores, stamps, health, TypedStores, TypedPage
  <2>5. excused' \subseteq Excuses
    BY <1>0, <1>6 DEF Abort, TypedGhosts, Excuses
  <2>6. TypedGhosts'
    BY <1>0, <1>6, <2>5 DEF Abort, TypedGhosts
  <2> QED
    BY <2>3, <2>4, <2>6
<1>7. CASE Settle
  <2>1. settled' \in Seq(Outcome) /\ Head(settled).tx \in Tx
    BY <1>7, CallbackType DEF Settle, WriteCommitted, WriteFailed, CopyCommitted, CopyFailed
  <2>2. failures' \in Nat /\ broken' \in BOOLEAN /\ probing' \in BOOLEAN
    BY <1>7, HealthType DEF Settle, WriteCommitted, WriteFailed, CopyCommitted, CopyFailed
  <2>3. CASE WriteCommitted
    <3>0. Append(txs, Delete) \in Seq(Tx)
      BY <1>0, CellFields, Appended DEF TypedQueues
    <3>1. TypedQueues'
      BY <1>0, <2>1, <2>3, <3>0 DEF WriteCommitted, Due, TypedQueues
    <3>4. excused' \subseteq Excuses
      BY <1>0, <2>3, OneExcuse DEF WriteCommitted, TypedGhosts, Excuses
    <3>2. TypedStores' /\ TypedGhosts'
      BY <1>0, <2>3, <3>4, CellFields DEF WriteCommitted, Due, TypedStores, TypedGhosts
    <3>3. TypedPage'
      BY <1>0, <2>2, <2>3 DEF WriteCommitted, Due, TypedPage, stamps
    <3> QED
      BY <3>1, <3>2, <3>3
  <2>4. CASE WriteFailed
    <3>1. TypedStores' /\ TypedGhosts'
      <4>1. CASE FallBack(Head(settled).tx)
        <5>1. /\ local' \in Cell /\ landed' \in Nat /\ refused' \subseteq Nat /\ faults' \in Nat
              /\ excused' \subseteq Excuses
          BY <1>0, <2>1, <4>1, WriteThroughType, CellFields DEF FallBack
        <5> QED
          BY <1>0, <2>4, <5>1 DEF WriteFailed, Due, TypedStores, TypedGhosts
      <4>2. CASE UNCHANGED <<local, landed, refused, excused, faults>>
        BY <1>0, <2>4, <4>2 DEF WriteFailed, Due, TypedStores, TypedGhosts
      <4> QED
        BY <2>4, <4>1, <4>2 DEF WriteFailed
    <3>2. TypedPage' /\ TypedQueues'
      BY <1>0, <2>1, <2>2, <2>4 DEF WriteFailed, Due, TypedPage, TypedQueues, stamps
    <3> QED
      BY <3>1, <3>2
  <2>5. CASE CopyCommitted \/ CopyFailed
    <3>1. TypedStores' /\ TypedGhosts'
      BY <1>0, <2>5, CellFields DEF CopyCommitted, CopyFailed, Due, TypedStores, TypedGhosts
    <3>2. TypedPage' /\ TypedQueues'
      BY <1>0, <2>1, <2>2, <2>5
         DEF CopyCommitted, CopyFailed, CopySettled, Due, TypedPage, TypedQueues, stamps
    <3> QED
      BY <3>1, <3>2
  <2> QED
    BY <1>7, <2>3, <2>4, <2>5 DEF Settle
<1>8. CASE Probed
  <2>1. UNCHANGED <<stores, up, pending, txs, settled, copying, waiting, stamps, failures,
                    generation, ghosts, removals, reloads>>
    BY <1>8 DEF Probed, ProbeFails, ProbeSucceeds, bounds
  <2>5. broken' \in BOOLEAN /\ probing' \in BOOLEAN
    BY <1>0, <1>8, Zenon DEF Probed, ProbeFails, ProbeSucceeds, TypedPage
  <2>6. faults' = faults + 1 \/ faults' = faults
    BY <1>8 DEF Probed, ProbeFails, ProbeSucceeds, bounds
  <2>2. broken' \in BOOLEAN /\ probing' \in BOOLEAN /\ faults' \in Nat
    BY <1>0, <2>5, <2>6 DEF TypedGhosts
  <2>3. TypedStores' /\ TypedQueues'
    BY <1>0, <2>1 DEF stores, TypedStores, TypedQueues
  <2>4. TypedPage' /\ TypedGhosts'
    BY <1>0, <2>1, <2>2 DEF stamps, ghosts, TypedPage, TypedGhosts
  <2> QED
    BY <2>3, <2>4
<1>9. CASE Load
  <2>1. [kind |-> "copy", val |-> local.val, stamp |-> local.stamp, gen |-> 0] \in Tx
    BY <1>0, CellFields DEF Tx, TypedStores
  <2>2. TypedQueues'
    BY <1>0, <1>9, <2>1, OneTx DEF Load, StartMigration, TypedQueues
  <2>3. saved' \in Nat /\ lastStamp' \in Nat
    BY <1>0, <1>9, Floor, CellFields DEF Load, Readable, TypedStores
  <2>4. TypedStores' /\ TypedGhosts'
    BY <1>0, <1>9, <2>3, CellFields DEF Load, TypedStores, TypedGhosts, bounds
  <2>5. TypedPage'
    BY <1>0, <1>9, <2>3 DEF Load, StartMigration, TypedPage, health
  <2> QED
    BY <2>2, <2>4, <2>5
<1>10. CASE Reload
  <2>1. clock' \in Nat
    BY <1>10, ClocksAssumption DEF Reload
  <2>2. TypedQueues'
    BY <1>10 DEF Reload, TypedQueues
  <2>4. excused' \subseteq Excuses
    BY <1>0, <1>10, OneExcuse DEF Reload, TypedGhosts, Excuses
  <2>5. TypedPage'
    BY <1>10, <2>1 DEF Reload, TypedPage
  <2>6. TypedGhosts'
    BY <1>0, <1>10, <2>4 DEF Reload, TypedGhosts
  <2>3. TypedStores' /\ TypedPage' /\ TypedGhosts'
    BY <1>0, <1>10, <2>5, <2>6 DEF Reload, stores, TypedStores
  <2> QED
    BY <2>2, <2>3
<1>11. CASE UNCHANGED vars
  BY <1>0, <1>11 DEF vars, TypedStores, TypedQueues, TypedPage, TypedGhosts
<1>12. CASE LoadUnread
  <2>1. [kind |-> "copy", val |-> local.val, stamp |-> local.stamp, gen |-> 0] \in Tx
    BY <1>0, CellFields DEF Tx, TypedStores
  <2>2. TypedQueues'
    BY <1>0, <1>12, <2>1, OneTx DEF LoadUnread, StartMigration, TypedQueues
  <2>3. local.val \in Nat /\ local.stamp \in Nat /\ lastStamp \in Nat /\ faults \in Nat
    BY <1>0, CellFields DEF TypedStores, TypedPage, TypedGhosts
  <2>4. lastStamp' \in Nat
    BY <1>12, <2>3, MaxOfTwo DEF LoadUnread
  <2>5. faults' \in Nat
    BY <1>12, <2>3, SMT DEF LoadUnread
  <2>6. TypedStores' /\ TypedGhosts'
    BY <1>0, <1>12, <2>3, <2>5 DEF LoadUnread, stores, TypedStores, TypedGhosts, Excuses
  <2>7. TypedPage'
    BY <1>0, <1>12, <2>4 DEF LoadUnread, StartMigration, TypedPage, health
  <2> QED
    BY <2>2, <2>6, <2>7
<1> QED
  BY <1>1, <1>2, <1>3, <1>4, <1>5, <1>6, <1>7, <1>8, <1>9, <1>10, <1>11, <1>12 DEF Next

-----------------------------------------------------------------------------
(* Where the blobs are *)

LEMMA OnDisk ==
  ASSUME TypeOK
  PROVE  /\ Readable = 0 \/ \E c \in {idb, local} : c \in Carried /\ c.val = Readable
         /\ idb.val # 0 => idb \in Carried
         /\ local.val # 0 => local \in Carried
         /\ Readable \in Nat
  BY CellFields DEF Readable, LocalWins, Carried, TypeOK

LEMMA UnderWay ==
  /\ \A i \in DOMAIN txs : Moves(txs[i]) => CellOf(txs[i]) \in Carried
  /\ \A i \in DOMAIN settled : CellOf(settled[i].tx) \in Carried
  BY DEF Carried

\* The newer of two blobs in the stores is the one that is read.
LEMMA ReadsNewest ==
  ASSUME TypeOK, Ordered
  PROVE  Readable >= idb.val /\ Readable >= local.val
<1>1. idb.val # 0 /\ local.val # 0 =>
        /\ local.stamp <= idb.stamp => local.val <= idb.val
        /\ idb.stamp <= local.stamp => idb.val <= local.val
  BY OnDisk DEF Ordered
<1> QED
  BY <1>1, CellFields DEF Readable, LocalWins, LocalIsNewer, TypeOK

LEMMA FewerCarried ==
  ASSUME TypeOK, TypeOK', Ordered, Carried' \subseteq Carried
  PROVE  Ordered'
  BY DEF Ordered

LEMMA OneOnTop ==
  ASSUME TypeOK, TypeOK', Ordered, NEW n \in Cell, Carried' \subseteq Carried \cup {n},
         \A c \in Carried : c.val <= n.val /\ c.stamp < n.stamp
  PROVE  Ordered'
<1>1. Carried \subseteq Cell
  BY CarriedCells
<1> SUFFICES ASSUME NEW a \in Carried \cup {n}, NEW b \in Carried \cup {n}, a.stamp <= b.stamp
             PROVE  a.val <= b.val
  BY DEF Ordered
<1> QED
  BY <1>1, CellFields DEF Ordered

-----------------------------------------------------------------------------
(* A write starts *)

\* The blob v is the next to be written, and what still waits is newer.
Ready(v) ==
  /\ up /\ copying = "no" /\ v \in Nat \ {0} /\ v <= count
  /\ \A c \in Carried : c.val <= v
  /\ pending' \in {0, pending}
  /\ \A i \in DOMAIN waiting' :
       /\ \E j \in DOMAIN waiting : waiting[j] = waiting'[i]
       /\ waiting'[i] # 0 => v <= waiting'[i]
       /\ waiting'[i] = 0 => v <= forgotten
       /\ \A j \in DOMAIN waiting' : i < j => waiting'[j] = 0 \/ waiting'[i] <= waiting'[j]
       /\ \A j \in DOMAIN waiting' : i < j /\ waiting'[j] = 0 => waiting'[i] <= forgotten
  /\ RemovalDue => \E i \in DOMAIN waiting' : waiting'[i] = 0
  /\ \A w \in Nat : w # v /\ (w = pending \/ \E i \in DOMAIN waiting : waiting[i] = w)
       => w = pending' \/ w = 0 \/ \E i \in DOMAIN waiting' : waiting'[i] = w
  /\ v = pending \/ \E i \in DOMAIN waiting : waiting[i] = v

PutTx(v) == [kind |-> "put", val |-> v, stamp |-> NextStamp, gen |-> generation]
NewCell(v) == [val |-> v, stamp |-> NextStamp]

LEMMA PutFields ==
  ASSUME TypeOK, NEW v \in Nat
  PROVE  /\ PutTx(v) \in Tx /\ Moves(PutTx(v)) /\ CellOf(PutTx(v)) = NewCell(v)
         /\ PutTx(v).kind = "put" /\ PutTx(v).val = v /\ PutTx(v).gen = generation
         /\ NewCell(v) \in Cell /\ NewCell(v).val = v /\ NewCell(v).stamp = NextStamp
  BY Stamp, CellFields DEF PutTx, NewCell, Tx, Cell, Moves, CellOf, TypeOK

\* What starting a write does: to localStorage, refused, or as a transaction.
LEMMA WriteStarts ==
  ASSUME NEW v, StartWrite(v)
  PROVE  /\ UNCHANGED <<idb, up, settled, copying, generation, count, saved, forgotten>>
         /\ lastStamp' = NextStamp
         /\ \/ /\ local' = NewCell(v) /\ Lands(v) /\ UNCHANGED <<txs, refused>>
               /\ excused \subseteq excused'
            \/ /\ UNCHANGED <<local, landed, txs, excused>> /\ refused' = refused \cup {v}
            \/ txs' = Append(txs, PutTx(v)) /\ UNCHANGED <<local, landed, refused, excused>>
  BY DEF StartWrite, WriteThrough, PutTx, NewCell

LEMMA StartBase ==
  ASSUME TypeOK, TypeOK', Base, NEW v, Ready(v), StartWrite(v)
  PROVE  Base'
<1> USE DEF Base
<1>0. v \in Nat /\ v # 0
  BY DEF Ready
<1>1. Carried' \subseteq Carried \cup {NewCell(v)}
  <2>1. CASE local' = NewCell(v) /\ UNCHANGED txs
    BY <2>1, WriteStarts DEF Carried
  <2>2. CASE UNCHANGED <<local, txs>>
    BY <2>2, WriteStarts DEF Carried
  <2>3. CASE txs' = Append(txs, PutTx(v)) /\ UNCHANGED local
    <3>1. \A i \in DOMAIN txs' : txs'[i] = PutTx(v) \/ (i \in DOMAIN txs /\ txs'[i] = txs[i])
      BY <1>0, <2>3, PutFields, TxsLonger
    <3> QED
      BY <1>0, <2>3, <3>1, WriteStarts, PutFields DEF Carried
  <2> QED
    BY <2>1, <2>2, <2>3, WriteStarts
<1>2. \A c \in Carried : c.val <= v /\ c.stamp < NextStamp /\ c.val \in Nat /\ c.stamp \in Nat
  <2>1. \A c \in Carried : c.val \in Nat /\ c.stamp \in Nat
    BY CarriedCells, CellFields
  <2> QED
    BY <2>1, Stamp, Values DEF Ready, Stamped
<1>3. Ordered' /\ Stamped' /\ Down'
  <2>1. Ordered'
    BY <1>0, <1>1, <1>2, PutFields, OneOnTop
  <2>2. Stamped'
    <3>1. \A c \in Carried' : c.stamp <= NextStamp
      BY <1>0, <1>1, <1>2, PutFields, Stamp
    <3>2. lastStamp' = NextStamp
      BY WriteStarts
    <3> QED
      BY <3>1, <3>2 DEF Stamped
  <2>3. Down'
    BY WriteStarts DEF Down, Ready
  <2> QED
    BY <2>1, <2>2, <2>3
<1>4. Behind'
  <2>1. forgotten' <= count' /\ (pending' # 0 => pending' = count' /\ pending' = saved' /\ pending' > forgotten')
    BY WriteStarts DEF Behind, Ready
  <2>2. \A c \in Carried' : c.val <= v
    BY <1>0, <1>1, <1>2, PutFields
  <2>3. \A i \in DOMAIN waiting' : waiting'[i] <= count' /\ waiting'[i] \in Nat
    BY WriteStarts, TxFields DEF Behind, Ready
  <2>4. \A c \in Carried' : c.val \in Nat
    BY <1>0, <1>1, <1>2, PutFields
  <2>5. \A c \in Carried' : c.val <= count' /\ \A i \in DOMAIN waiting' : waiting'[i] # 0 => c.val <= waiting'[i]
    <3>1. v <= count /\ count' = count /\ count \in Nat
      BY WriteStarts, Values DEF Ready
    <3>2. \A i \in DOMAIN waiting' : waiting'[i] # 0 => v <= waiting'[i]
      BY DEF Ready
    <3> QED
      BY <1>0, <2>2, <2>3, <2>4, <3>1, <3>2
  <2> QED
    BY <2>1, <2>3, <2>5 DEF Behind, Ready
<1>5. Queued' /\ Generations'
  <2>1. CASE UNCHANGED txs
    BY <2>1, WriteStarts DEF Queued, Generations, Generation
  <2>2. CASE txs' = Append(txs, PutTx(v))
    <3>1. \A i \in DOMAIN txs : Moves(txs[i]) => txs[i].val <= v
      BY <1>2, UnderWay, TxFields, CellFields
    <3>2. idb.val <= v
      BY <1>0, <1>2, OnDisk, Values
    <3>3. /\ DOMAIN txs' = DOMAIN txs \cup {Len(txs) + 1}
          /\ \A i \in DOMAIN txs : i \in Nat /\ i < Len(txs) + 1 /\ txs'[i] = txs[i]
          /\ txs'[Len(txs) + 1] = PutTx(v)
      BY <1>0, <2>2, PutFields, TxsLonger
    <3>4. Queued'
      BY <1>0, <3>1, <3>2, <3>3, PutFields, WriteStarts, TxsLonger DEF Queued
    <3>5. Generation(PutTx(v))
      BY <1>0, PutFields, Values DEF Generation
    <3>6. Generations'
      BY <3>3, <3>5, WriteStarts DEF Generations, Generation
    <3> QED
      BY <3>4, <3>6
  <2> QED
    BY <2>1, <2>2, WriteStarts
<1>6. Migrating'
  <2>1. \A i \in DOMAIN txs' : txs'[i].kind # "copy"
    <3>1. \A i \in DOMAIN txs : txs[i].kind # "copy"
      BY DEF Migrating, Ready
    <3>2. CASE UNCHANGED txs
      BY <3>1, <3>2
    <3>3. CASE txs' = Append(txs, PutTx(v))
      BY <1>0, <3>1, <3>3, PutFields, TxsLonger
    <3> QED
      BY <3>2, <3>3, WriteStarts
  <2> QED
    BY <2>1, WriteStarts DEF Migrating, Ready
<1>7. Reached'
  <2>1. CASE local' = NewCell(v) /\ Lands(v)
    BY <1>0, <2>1, PutFields, WriteStarts, Values DEF Reached, Lands
  <2>2. CASE UNCHANGED <<local, landed>>
    BY <2>2, WriteStarts DEF Reached
  <2> QED
    BY <2>1, <2>2, WriteStarts
<1>8. RemovalWaits'
  <2> SUFFICES ASSUME NEW j \in DOMAIN waiting', waiting'[j] = 0
               PROVE  /\ landed' = 0
                      /\ \A c \in Carried' : c.val <= forgotten'
                      /\ \A i \in DOMAIN waiting' : i < j => waiting'[i] <= forgotten'
    BY DEF RemovalWaits
  <2>1. v <= forgotten /\ landed = 0 /\ \A c \in Carried : c.val <= forgotten
    BY DEF Ready, RemovalWaits
  <2>2. landed' = 0
    BY <1>0, <2>1, WriteStarts, Values DEF Lands
  <2>3. \A c \in Carried' : c.val <= forgotten'
    BY <1>0, <1>1, <2>1, PutFields, WriteStarts
  <2> QED
    BY <2>2, <2>3, WriteStarts DEF Ready
<1> QED
  BY <1>3, <1>4, <1>5, <1>6, <1>7, <1>8

\* The blob in localStorage is the newest, whatever IndexedDB holds.
LEMMA TopIsRead ==
  ASSUME TypeOK, TypeOK', Stamped, up, NEW v \in Nat \ {0}, local' = NewCell(v), UNCHANGED idb
  PROVE  Readable' = v
<1>1. local'.val = v /\ local'.stamp = NextStamp
  BY PutFields
<1>2. idb.val # 0 => idb.stamp < NextStamp
  BY OnDisk, Stamp, Values DEF Stamped
<1> QED
  BY <1>1, <1>2 DEF Readable, LocalWins, LocalIsNewer

LEMMA StartLanding ==
  ASSUME TypeOK, TypeOK', Base, Landing, NEW v, Ready(v), StartWrite(v)
  PROVE  Landing'
<1> USE DEF Base
<1> SUFFICES ASSUME excused' \cap {"latch", "reissue"} = {}
             PROVE  DeletesOld' /\ Readable' >= landed'
  BY DEF Landing
<1>0. v \in Nat \ {0} /\ up
  BY DEF Ready
<1>1. DeletesOld /\ Readable >= landed
  BY WriteStarts DEF Landing
<1>2. DeletesOld'
  <2>1. CASE UNCHANGED txs
    BY <1>1, <2>1, WriteStarts DEF DeletesOld
  <2>2. CASE txs' = Append(txs, PutTx(v))
    <3>1. /\ DOMAIN txs' = DOMAIN txs \cup {Len(txs) + 1} /\ Len(txs) \in Nat
          /\ \A i \in DOMAIN txs : i \in Nat /\ i < Len(txs) + 1 /\ txs'[i] = txs[i]
          /\ txs'[Len(txs) + 1] = PutTx(v) /\ Moves(PutTx(v))
      BY <1>0, <2>2, PutFields, TxsLonger
    <3> QED
      BY <1>1, <3>1, WriteStarts DEF DeletesOld
  <2> QED
    BY <2>1, <2>2, WriteStarts
<1>3. Readable' >= landed'
  <2>1. CASE local' = NewCell(v) /\ Lands(v)
    <3>1. Readable' = v
      BY <1>0, <2>1, TopIsRead, WriteStarts
    <3>2. Readable <= v
      BY <1>0, OnDisk, Values DEF Ready
    <3> QED
      BY <1>0, <1>1, <2>1, <3>1, <3>2, Values, OnDisk DEF Lands
  <2>2. CASE UNCHANGED <<local, landed>>
    BY <1>1, <2>2, WriteStarts DEF Readable, LocalWins, LocalIsNewer
  <2> QED
    BY <2>1, <2>2, WriteStarts
<1> QED
  BY <1>2, <1>3

LEMMA StartRemoving ==
  ASSUME TypeOK, TypeOK', Base, Removing, NEW v, Ready(v), StartWrite(v)
  PROVE  Removing'
<1> USE DEF Base
<1> SUFFICES ASSUME excused' \cap {"undeleted", "waited"} = {} PROVE Removed'
  BY DEF Removing
<1>0. v \in Nat \ {0} /\ up /\ UNCHANGED <<idb, up, forgotten, generation, settled>>
  BY WriteStarts DEF Ready
<1>1. Removed
  BY WriteStarts DEF Removing
<1>2. v > forgotten
  BY <1>0, <1>1, Values DEF Behind, Ready, Removed, New
<1>3. New(local.val)' /\ \A i \in DOMAIN waiting' : New(waiting[i])'
  BY <1>0, <1>1, <1>2, PutFields, WriteStarts DEF Ready, Removed, New
<1>4. RemovalDue => RemovalDue'
  BY DEF Ready, RemovalDue
<1>5. \A i \in DOMAIN txs' : txs'[i] = PutTx(v) \/ (i \in DOMAIN txs /\ txs'[i] = txs[i])
  BY <1>0, PutFields, TxsLonger, WriteStarts
<1>6. \A tx : Outdated(tx) => Outdated(tx)'
  BY <1>0, <1>4 DEF Outdated, RemovedSince, Moves
<1>8. \A i \in DOMAIN txs' : Outdated(txs[i])'
  <2> SUFFICES ASSUME NEW i \in DOMAIN txs' PROVE Outdated(txs[i])'
    OBVIOUS
  <2>1. CASE txs'[i] = PutTx(v)
    <3>1. ~(txs'[i].val <= forgotten')
      BY <1>0, <1>2, <2>1, PutFields, Values
    <3> QED
      BY <3>1 DEF Outdated
  <2>2. CASE i \in DOMAIN txs /\ txs'[i] = txs[i]
    <3>1. Outdated(txs[i])
      BY <1>1, <2>2 DEF Removed
    <3> QED
      BY <1>0, <1>4, <2>2, <3>1 DEF Outdated, RemovedSince, Moves
  <2> QED
    BY <1>5, <2>1, <2>2
<1>9. \A i \in DOMAIN settled' : Outdated(settled[i].tx)'
  BY <1>0, <1>1, <1>6 DEF Removed
<1>10. (New(idb.val) \/ local.val > forgotten \/ DeleteDue)'
  <2>1. DeleteDue => DeleteDue'
    <3>1. \A i \in DOMAIN txs : i \in DOMAIN txs' /\ txs'[i] = txs[i]
      BY <1>0, PutFields, TxsLonger, WriteStarts
    <3> QED
      BY <1>0, <1>4, <3>1 DEF DeleteDue, RemovedSince
  <2>2. local.val > forgotten => local'.val > forgotten'
    BY <1>0, <1>2, PutFields, WriteStarts
  <2> QED
    BY <1>0, <1>1, <2>1, <2>2 DEF Removed, New
<1> QED
  BY <1>0, <1>3, <1>8, <1>9, <1>10 DEF Removed

LEMMA StartSaving ==
  ASSUME TypeOK, TypeOK', Base, Newest, Saving, NEW v, Ready(v), StartWrite(v)
  PROVE  Newest' /\ Saving'
<1> USE DEF Base
<1>0. v \in Nat \ {0} /\ up /\ UNCHANGED <<idb, up, forgotten, saved, settled>>
  BY WriteStarts DEF Ready
<1>1. Wanted(v)
  BY <1>0, Values DEF Ready, Behind, Newest, Wanted
<1>2. Newest'
  <2>1. \A c \in Carried' : c \in Carried \/ c = NewCell(v)
    <3>1. \A i \in DOMAIN txs' : txs'[i] = PutTx(v) \/ (i \in DOMAIN txs /\ txs'[i] = txs[i])
      BY <1>0, PutFields, TxsLonger, WriteStarts
    <3> QED
      BY <1>0, <3>1, PutFields, WriteStarts DEF Carried
  <2>2. NewCell(v).val = v
    BY <1>0, PutFields
  <2>3. \A w : Wanted(w) => Wanted(w)'
    BY <1>0 DEF Wanted
  <2> QED
    BY <1>1, <2>1, <2>2, <2>3 DEF Newest, Ready
<1>3. Saving'
  <2> SUFFICES ASSUME excused' = {}, saved # 0 PROVE saved > forgotten /\ OnItsWay'
    BY <1>0 DEF Saving
  <2>1. saved > forgotten /\ OnItsWay
    BY <1>0, WriteStarts DEF Saving
  <2> SUFFICES OnItsWay'
    BY <2>1
  <2>2. \A i \in DOMAIN txs : i \in DOMAIN txs' /\ txs'[i] = txs[i]
    BY <1>0, PutFields, TxsLonger, WriteStarts
  <2>3. CASE \/ saved \in refused
             \/ \E i \in DOMAIN txs : txs[i].kind = "put" /\ txs[i].val = saved
             \/ \E i \in DOMAIN settled :
                  settled[i].tx.kind = "put" /\ ~settled[i].ok /\ settled[i].tx.val = saved
    BY <1>0, <2>1, <2>2, <2>3, WriteStarts DEF OnItsWay
  <2>4. CASE saved = pending \/ \E i \in DOMAIN waiting : waiting[i] = saved
    <3>1. CASE saved = v
      <4>1. CASE local' = NewCell(v)
        <5>1. Readable' = v
          BY <1>0, <4>1, TopIsRead
        <5>2. Readable' = saved'
          BY <1>0, <3>1, <5>1
        <5> QED
          BY <5>2 DEF OnItsWay
      <4>2. CASE refused' = refused \cup {v}
        <5>1. saved' \in refused'
          BY <1>0, <3>1, <4>2
        <5> QED
          BY <5>1 DEF OnItsWay
      <4>3. CASE txs' = Append(txs, PutTx(v))
        <5>1. Len(txs) + 1 \in DOMAIN txs' /\ txs'[Len(txs) + 1] = PutTx(v)
          BY <1>0, <4>3, PutFields, TxsLonger
        <5>2. \E i \in DOMAIN txs' : txs'[i].kind = "put" /\ txs'[i].val = saved'
          BY <1>0, <3>1, <5>1, PutFields
        <5> QED
          BY <5>2 DEF OnItsWay
      <4> QED
        BY <4>1, <4>2, <4>3, WriteStarts
    <3>2. CASE saved # v
      <4>1. saved = pending' \/ saved = 0 \/ \E i \in DOMAIN waiting' : waiting'[i] = saved
        BY <2>4, <3>2, Values DEF Ready
      <4>2. saved' = pending' \/ \E i \in DOMAIN waiting' : waiting'[i] = saved'
        BY <1>0, <4>1
      <4> QED
        BY <4>2 DEF OnItsWay
    <3> QED
      BY <3>1, <3>2
  <2>5. CASE Readable = saved
    <3>1. CASE local' = NewCell(v)
      <4>1. v = saved
        BY <1>0, <1>1, <2>1, <2>5, OnDisk, Values DEF Ready, Wanted
      <4>2. Readable' = v
        BY <1>0, <3>1, TopIsRead
      <4>3. Readable' = saved'
        BY <1>0, <4>1, <4>2
      <4> QED
        BY <4>3 DEF OnItsWay
    <3>2. CASE UNCHANGED local
      <4>1. Readable' = Readable
        BY <1>0, <3>2 DEF Readable, LocalWins, LocalIsNewer
      <4>2. Readable' = saved'
        BY <1>0, <2>5, <4>1
      <4> QED
        BY <4>2 DEF OnItsWay
    <3> QED
      BY <3>1, <3>2, WriteStarts
  <2> QED
    BY <2>1, <2>3, <2>4, <2>5 DEF OnItsWay
<1> QED
  BY <1>2, <1>3

LEMMA StartInv ==
  ASSUME Inv, TypeOK', NEW v, Ready(v), StartWrite(v)
  PROVE  Inv'
  BY StartBase, StartLanding, StartRemoving, StartSaving DEF Inv

-----------------------------------------------------------------------------
(* The page hands over a blob and flushes it *)

LEMMA SetItemInv == ASSUME Inv, TypeOK', SetItem PROVE Inv'
<1> USE DEF Inv, Base
<1>1. /\ UNCHANGED <<idb, local, up, txs, settled, copying, waiting, lastStamp, generation,
                     forgotten, landed, refused, excused>>
      /\ up /\ count' = count + 1 /\ saved' = count + 1 /\ pending' = count + 1
  BY DEF SetItem
<1>2. Carried' = Carried /\ Readable' = Readable /\ Carried \subseteq Cell
  BY <1>1, CarriedCells DEF Carried, Readable, LocalWins, LocalIsNewer
<1>3. \A c \in Carried : c.val <= count /\ c.val \in Nat
  BY <1>2, CellFields DEF Behind
<1>4. \A i \in DOMAIN waiting : waiting[i] <= count /\ waiting[i] \in Nat
  BY TxFields DEF Behind
<1>5. Down' /\ Ordered' /\ Stamped' /\ Queued' /\ Generations' /\ Migrating' /\ Reached'
      /\ RemovalWaits'
  BY <1>1, <1>2 DEF Down, Ordered, Stamped, Queued, Generations, Generation, Migrating, Reached,
                    RemovalWaits
<1>6. Behind'
  <2>1. forgotten' <= count' /\ pending' = count' /\ pending' = saved' /\ pending' > forgotten'
    BY <1>1, Values DEF Behind
  <2>2. \A c \in Carried' : c.val <= count'
    BY <1>1, <1>2, <1>3, Values
  <2>3. \A i \in DOMAIN waiting' : waiting'[i] <= count'
    BY <1>1, <1>4, Values
  <2> QED
    BY <1>1, <1>2, <2>1, <2>2, <2>3 DEF Behind
<1>7. Landing' /\ Removing'
  <2>1. Landing'
    BY <1>1, <1>2 DEF Landing, DeletesOld
  <2>2. Removing'
    BY <1>1, <1>2 DEF Removing, Removed, New, Outdated, DeleteDue, RemovalDue, RemovedSince
  <2> QED
    BY <2>1, <2>2
<1>8. Newest'
  <2>1. \A n \in Nat : n <= count => Wanted(n)'
    BY <1>1, Values DEF Wanted
  <2> QED
    BY <1>1, <1>2, <1>3, <1>4, <2>1 DEF Newest
<1>9. Saving'
  <2>1. OnItsWay'
    BY <1>1 DEF OnItsWay
  <2>2. saved' > forgotten'
    BY <1>1, Values DEF Behind
  <2> QED
    BY <2>1, <2>2 DEF Saving
<1> QED
  BY <1>5, <1>6, <1>7, <1>8, <1>9

LEMMA FlushInv == ASSUME Inv, TypeOK', Flush PROVE Inv'
<1> USE DEF Inv, Base
<1>0. pending # 0 /\ up /\ pending' = 0 /\ pending \in Nat
      /\ pending = count /\ pending = saved /\ pending > forgotten
  BY Values DEF Flush, Behind
<1>1. CASE copying = "no" /\ StartWrite(pending) /\ UNCHANGED waiting
  <2>1. waiting = <<>>
    BY <1>1 DEF Flush, MayAct
  <2>2. DOMAIN waiting = {} /\ DOMAIN waiting' = {}
    BY <1>1, <2>1
  <2>3. Ready(pending)
    BY <1>0, <1>1, <2>2 DEF Ready, Behind, RemovalDue
  <2> QED
    BY <1>1, <2>3, StartInv
<1>2. CASE /\ copying # "no" /\ waiting' = Append(waiting, pending)
           /\ UNCHANGED <<idb, local, up, txs, settled, copying, lastStamp, clock, failures,
                          broken, probing, generation, count, saved, forgotten, landed,
                          refused, excused, faults, removals, reloads>>
  <2>1. /\ DOMAIN waiting' = DOMAIN waiting \cup {Len(waiting) + 1} /\ Len(waiting) \in Nat
        /\ \A i \in DOMAIN waiting : i \in Nat /\ i < Len(waiting) + 1 /\ waiting'[i] = waiting[i]
        /\ waiting'[Len(waiting) + 1] = pending
    <3>1. waiting \in Seq(Nat)
      BY TypeParts DEF TypedQueues
    <3> QED
      BY <1>0, <1>2, <3>1
  <2>2. Carried' = Carried /\ Readable' = Readable /\ Carried \subseteq Cell
    BY <1>2, CarriedCells DEF Carried, Readable, LocalWins, LocalIsNewer
  <2>3. \A i \in DOMAIN waiting : waiting[i] \in Nat
    BY TxFields
  <2>4. Down' /\ Ordered' /\ Stamped' /\ Queued' /\ Generations' /\ Migrating' /\ Reached'
    BY <1>0, <1>2, <2>2 DEF Down, Ordered, Stamped, Queued, Generations, Generation, Migrating,
                            Reached
  <2>5. Behind'
    <3>1. forgotten' <= count' /\ pending' = 0
      BY <1>0, <1>2 DEF Behind
    <3>2. \A c \in Carried' : c.val <= count' /\ \A i \in DOMAIN waiting' : waiting'[i] # 0 => c.val <= waiting'[i]
      BY <1>0, <1>2, <2>1, <2>2 DEF Behind
    <3>3. \A i \in DOMAIN waiting' : waiting'[i] <= count'
      <4>1. \A i \in DOMAIN waiting : waiting[i] <= count
        BY DEF Behind
      <4>2. count' = count
        BY <1>2
      <4>3. pending <= count
        BY <1>0
      <4> QED
        BY <2>1, <4>1, <4>2, <4>3
    <3>4. \A i, j \in DOMAIN waiting' : i < j => waiting'[j] = 0 \/ waiting'[i] <= waiting'[j]
      BY <1>0, <2>1 DEF Behind
    <3> QED
      BY <3>1, <3>2, <3>3, <3>4 DEF Behind
  <2>6. RemovalWaits'
    BY <1>0, <1>2, <2>1, <2>2 DEF RemovalWaits
  <2>7. Landing'
    BY <1>2, <2>2 DEF Landing, DeletesOld
  <2>8. RemovalDue' <=> RemovalDue
    BY <1>0, <2>1 DEF RemovalDue
  <2>9. Removing'
    <3>1. Removed => \A i \in DOMAIN waiting' : New(waiting[i])'
      BY <1>0, <1>2, <2>1 DEF Removed, New
    <3> QED
      BY <1>2, <2>2, <2>8, <3>1 DEF Removing, Removed, New, Outdated, DeleteDue, RemovedSince
  <2>10. Newest'
    BY <1>0, <1>2, <2>1, <2>2 DEF Newest, Wanted
  <2>11. Saving'
    <3>1. OnItsWay'
      BY <1>0, <1>2, <2>1 DEF OnItsWay
    <3> QED
      BY <1>0, <1>2, <3>1 DEF Saving
  <2> QED
    BY <2>4, <2>5, <2>6, <2>7, <2>9, <2>10, <2>11
<1> QED
  BY <1>1, <1>2 DEF Flush

-----------------------------------------------------------------------------
(* Removals, and what waits for a migration *)

LEMMA DeleteAppended ==
  ASSUME TypeOK, txs' = Append(txs, Delete)
  PROVE  /\ \A i \in DOMAIN txs : i \in DOMAIN txs' /\ txs'[i] = txs[i] /\ i < Len(txs) + 1 /\ i \in Nat
         /\ \A i \in DOMAIN txs' : \/ i \in DOMAIN txs /\ txs'[i] = txs[i]
                                   \/ i = Len(txs) + 1 /\ txs'[i] = Delete
         /\ \E i \in DOMAIN txs' : ~Moves(txs'[i])
         /\ Delete.kind = "delete" /\ ~Moves(Delete) /\ Len(txs) \in Nat
<1>1. Delete \in Tx /\ ~Moves(Delete) /\ Delete.kind = "delete"
  BY CellFields DEF Delete
<1>2. /\ DOMAIN txs' = DOMAIN txs \cup {Len(txs) + 1} /\ Len(txs) \in Nat
      /\ \A i \in DOMAIN txs : i \in Nat /\ i < Len(txs) + 1 /\ txs'[i] = txs[i]
      /\ txs'[Len(txs) + 1] = Delete
  BY <1>1, TxsLonger
<1> QED
  BY <1>1, <1>2

LEMMA WaitingShorter ==
  ASSUME TypeOK, waiting # <<>>, waiting' = Tail(waiting)
  PROVE  /\ Head(waiting) = waiting[1] /\ 1 \in DOMAIN waiting /\ waiting[1] \in Nat
         /\ \A i \in DOMAIN waiting' : i \in Nat /\ 1 < i + 1 /\ i + 1 \in DOMAIN waiting
                                       /\ waiting'[i] = waiting[i + 1]
         /\ \A i \in DOMAIN waiting : i \in Nat /\ (i # 1 => i - 1 \in DOMAIN waiting'
                                                            /\ waiting'[i - 1] = waiting[i])
<1>1. waiting \in Seq(Nat)
  BY TypeParts DEF TypedQueues
<1>2. /\ Head(waiting) = waiting[1] /\ 1 \in DOMAIN waiting /\ Head(waiting) \in Nat
      /\ \A i \in DOMAIN Tail(waiting) : i \in Nat /\ i + 1 \in DOMAIN waiting
                                         /\ Tail(waiting)[i] = waiting[i + 1]
      /\ \A i \in DOMAIN waiting : i \in Nat /\ (i # 1 => i - 1 \in DOMAIN Tail(waiting)
                                                  /\ Tail(waiting)[i - 1] = waiting[i])
  BY <1>1, Shorter
<1>3. \A i \in DOMAIN waiting : 0 < i
  BY <1>1
<1>4. \A i \in DOMAIN waiting' : 1 < i + 1
  BY <1>1
<1> QED
  BY <1>2, <1>4

LEMMA RunWaitingInv == ASSUME Inv, TypeOK', RunWaiting PROVE Inv'
<1> USE DEF Inv, Base
<1>0. waiting # <<>> /\ waiting' = Tail(waiting) /\ copying = "no" /\ up /\ pending' = pending
  BY DEF RunWaiting, Down
<1>1. /\ Head(waiting) = waiting[1] /\ 1 \in DOMAIN waiting /\ waiting[1] \in Nat
      /\ \A i \in DOMAIN waiting' : i \in Nat /\ 1 < i + 1 /\ i + 1 \in DOMAIN waiting
                                    /\ waiting'[i] = waiting[i + 1]
      /\ \A i \in DOMAIN waiting : i \in Nat /\ (i # 1 => i - 1 \in DOMAIN waiting'
                                                  /\ waiting'[i - 1] = waiting[i])
  BY <1>0, WaitingShorter
<1>2. \A i, j \in DOMAIN waiting' : i < j => i + 1 < j + 1
  BY <1>1
<1>3. CASE Head(waiting) # 0 /\ StartWrite(Head(waiting))
  <2> DEFINE v == Head(waiting)
  <2>1. v \in Nat \ {0} /\ v <= count /\ \A c \in Carried : c.val <= v
    BY <1>1, <1>3 DEF Behind
  <2>2. \A i \in DOMAIN waiting' :
          /\ waiting'[i] # 0 => v <= waiting'[i]
          /\ waiting'[i] = 0 => v <= forgotten
    BY <1>1 DEF Behind, RemovalWaits
  <2>3. \A i, j \in DOMAIN waiting' :
          /\ i < j => waiting'[j] = 0 \/ waiting'[i] <= waiting'[j]
          /\ i < j /\ waiting'[j] = 0 => waiting'[i] <= forgotten
    BY <1>1, <1>2 DEF Behind, RemovalWaits
  <2>4. RemovalDue => \E i \in DOMAIN waiting' : waiting'[i] = 0
    BY <1>1, <1>3 DEF RemovalDue
  <2>5. \A w \in Nat : w # v /\ (w = pending \/ \E i \in DOMAIN waiting : waiting[i] = w)
          => w = pending' \/ w = 0 \/ \E i \in DOMAIN waiting' : waiting'[i] = w
    BY <1>0, <1>1
  <2>6. Ready(v)
    BY <1>0, <1>1, <2>1, <2>2, <2>3, <2>4, <2>5 DEF Ready
  <2> QED
    BY <1>3, <2>6, StartInv
<1>4. CASE /\ Head(waiting) = 0 /\ txs' = Append(txs, Delete)
           /\ UNCHANGED <<idb, local, up, settled, copying, lastStamp, clock, failures,
                       broken, probing, generation, count, saved, forgotten, landed,
                       refused, excused, faults, removals, reloads>>
  <2>1. /\ \A i \in DOMAIN txs : i \in DOMAIN txs' /\ txs'[i] = txs[i] /\ i < Len(txs) + 1 /\ i \in Nat
        /\ \A i \in DOMAIN txs' : \/ i \in DOMAIN txs /\ txs'[i] = txs[i]
                                  \/ i = Len(txs) + 1 /\ txs'[i] = Delete
        /\ \E i \in DOMAIN txs' : ~Moves(txs'[i])
        /\ Delete.kind = "delete" /\ ~Moves(Delete) /\ Len(txs) \in Nat
    BY <1>4, DeleteAppended
  <2>2. Carried' = Carried /\ Readable' = Readable
    BY <1>4, <2>1 DEF Carried, Readable, LocalWins, LocalIsNewer
  <2>3. \A c \in Carried : c.val <= forgotten
    BY <1>1, <1>4 DEF RemovalWaits
  <2>4. Down' /\ Ordered' /\ Stamped' /\ Reached'
    BY <1>0, <1>4, <2>2 DEF Down, Ordered, Stamped, Reached
  <2>5. Queued' /\ Generations'
    BY <1>4, <2>1 DEF Queued, Generations, Generation
  <2>6. Migrating'
    BY <1>0, <1>4, <2>1 DEF Migrating
  <2>7. Behind' /\ RemovalWaits'
    <3>1. \A i \in DOMAIN waiting' :
            /\ waiting'[i] <= count
            /\ \A j \in DOMAIN waiting' : i < j => waiting'[j] = 0 \/ waiting'[i] <= waiting'[j]
            /\ \A j \in DOMAIN waiting' : i < j /\ waiting'[j] = 0 => waiting'[i] <= forgotten
            /\ \A c \in Carried : waiting'[i] # 0 => c.val <= waiting'[i]
            /\ waiting'[i] = 0 => landed = 0
      BY <1>1, <1>2 DEF Behind, RemovalWaits
    <3>2. Behind'
      BY <1>0, <1>4, <2>2, <3>1 DEF Behind
    <3>3. RemovalWaits'
      BY <1>4, <2>2, <2>3, <3>1 DEF RemovalWaits
    <3> QED
      BY <3>2, <3>3
  <2>8. Landing'
    <3>1. idb.val <= forgotten
      BY <2>3, OnDisk, Values
    <3>2. \A i \in DOMAIN txs : Moves(txs[i]) => txs[i].val <= forgotten
      BY <2>3, UnderWay, TxFields, CellFields
    <3>3. DeletesOld'
      BY <1>4, <2>1, <3>1, <3>2 DEF DeletesOld
    <3> QED
      BY <1>4, <2>2, <3>3 DEF Landing
  <2>9. Removing'
    <3> SUFFICES ASSUME Removed PROVE Removed'
      BY <1>4 DEF Removing
    <3>1. \A i \in DOMAIN txs' : Outdated(txs[i])'
      <4>1. \A i \in DOMAIN txs : txs[i].kind # "copy" /\ txs[i].kind \in {"put", "copy", "delete"}
        BY <1>0, TxFields, CellFields DEF Migrating
      <4>2. \A i \in DOMAIN txs : txs[i].kind = "put" /\ txs[i].val <= forgotten => txs[i].gen # generation
        BY DEF Removed, Outdated, Moves, RemovedSince
      <4> QED
        BY <1>4, <2>1, <4>1, <4>2 DEF Outdated, Moves, RemovedSince
    <3>2. \A i \in DOMAIN settled' : Outdated(settled[i].tx)'
      <4>1. \A i \in DOMAIN settled : /\ settled[i].tx.kind # "copy" /\ Moves(settled[i].tx)
                                      /\ settled[i].tx.kind \in {"put", "copy", "delete"}
        BY <1>0, TxFields, CellFields DEF Migrating, Generations
      <4>2. \A i \in DOMAIN settled : settled[i].tx.val <= forgotten => settled[i].tx.gen # generation
        BY <4>1 DEF Removed, Outdated, Moves, RemovedSince
      <4> QED
        BY <1>4, <4>1, <4>2 DEF Outdated, Moves, RemovedSince
    <3>3. \A i \in DOMAIN waiting' : New(waiting[i])'
      BY <1>1, <1>4 DEF Removed, New
    <3>4. DeleteDue'
      BY <2>1 DEF DeleteDue
    <3> QED
      BY <1>0, <1>4, <3>1, <3>2, <3>3, <3>4 DEF Removed, New
  <2>10. Newest'
    BY <1>1, <1>4, <2>2 DEF Newest, Wanted
  <2>11. Saving'
    <3> SUFFICES ASSUME OnItsWay, saved # 0 PROVE OnItsWay'
      BY <1>4 DEF Saving
    <3>1. (\E i \in DOMAIN waiting : waiting[i] = saved) => \E i \in DOMAIN waiting' : waiting'[i] = saved
      BY <1>1, <1>4
    <3>2. (\E i \in DOMAIN txs : txs[i].kind = "put" /\ txs[i].val = saved)
            => \E i \in DOMAIN txs' : txs'[i].kind = "put" /\ txs'[i].val = saved
      BY <2>1
    <3> QED
      BY <1>0, <1>4, <2>2, <3>1, <3>2 DEF OnItsWay
  <2> QED
    BY <2>4, <2>5, <2>6, <2>7, <2>8, <2>9, <2>10, <2>11
<1> QED
  BY <1>3, <1>4 DEF RunWaiting

LEMMA RemoveItemInv == ASSUME Inv, TypeOK', RemoveItem PROVE Inv'
<1> USE DEF Inv, Base
<1>0. /\ up /\ generation' = generation + 1 /\ pending' = 0 /\ local' = Empty
      /\ saved' = 0 /\ forgotten' = count /\ landed' = 0
      /\ UNCHANGED <<idb, up, settled, lastStamp, count, refused>>
  BY DEF RemoveItem
<1>1. \/ /\ copying = "no" /\ copying' = "no" /\ txs' = Append(txs, Delete) /\ waiting = <<>>
         /\ UNCHANGED waiting
      \/ /\ copying # "no" /\ copying' = "cancelled" /\ waiting' = Append(waiting, 0)
         /\ UNCHANGED txs
  BY DEF RemoveItem, MayAct
<1>2. /\ \A i \in DOMAIN txs : i \in DOMAIN txs' /\ txs'[i] = txs[i]
      /\ \A i \in DOMAIN txs' : \/ i \in DOMAIN txs /\ txs'[i] = txs[i]
                                \/ copying = "no" /\ txs'[i] = Delete
      /\ Delete.kind = "delete" /\ ~Moves(Delete)
      /\ copying = "no" => \E i \in DOMAIN txs' : ~Moves(txs'[i])
  <2>1. Delete.kind = "delete" /\ ~Moves(Delete)
    BY CellFields DEF Delete
  <2> QED
    BY <1>1, <2>1, DeleteAppended
<1>3. /\ \A i \in DOMAIN waiting' : /\ i \in Nat
                                    /\ (i \in DOMAIN waiting /\ waiting'[i] = waiting[i]) \/ waiting'[i] = 0
      /\ \A i, j \in DOMAIN waiting' : i < j => i \in DOMAIN waiting /\ waiting'[i] = waiting[i]
      /\ copying # "no" => \E i \in DOMAIN waiting' : waiting'[i] = 0
      /\ copying = "no" => DOMAIN waiting' = {}
  <2>1. CASE copying = "no"
    BY <1>1, <2>1
  <2>2. CASE copying # "no"
    <3>1. waiting \in Seq(Nat)
      BY TypeParts DEF TypedQueues
    <3>2. /\ DOMAIN waiting' = DOMAIN waiting \cup {Len(waiting) + 1} /\ Len(waiting) \in Nat
          /\ \A i \in DOMAIN waiting : i \in Nat /\ i < Len(waiting) + 1 /\ waiting'[i] = waiting[i]
          /\ waiting'[Len(waiting) + 1] = 0
      <4>1. waiting' = Append(waiting, 0)
        BY <1>1, <2>2
      <4> QED
        BY <3>1, <4>1
    <3> QED
      BY <2>2, <3>2
  <2> QED
    BY <2>1, <2>2
<1>4. Carried' \subseteq Carried
  BY <1>0, <1>2, CellFields DEF Carried
<1>5. \A c \in Carried : c.val <= count /\ c.val \in Nat
  BY CarriedCells, CellFields DEF Behind
<1>6. idb.val <= count /\ local'.val = 0
  BY <1>0, <1>5, OnDisk, CellFields, Values
<1>7. \A i \in DOMAIN waiting : waiting[i] <= count /\ waiting[i] \in Nat
  BY TxFields DEF Behind
<1>8. Down' /\ Ordered' /\ Stamped'
  BY <1>0, <1>4, FewerCarried DEF Down, Stamped
<1>9. Behind'
  <2>1. \A i \in DOMAIN waiting' : waiting'[i] <= count'
    BY <1>0, <1>3, <1>7, Values
  <2>2. \A i, j \in DOMAIN waiting' : i < j => waiting'[j] = 0 \/ waiting'[i] <= waiting'[j]
    BY <1>3 DEF Behind
  <2>3. \A c \in Carried' : c.val <= count' /\ \A i \in DOMAIN waiting' : waiting'[i] # 0 => c.val <= waiting'[i]
    BY <1>0, <1>3, <1>4, <1>5 DEF Behind
  <2> QED
    BY <1>0, <2>1, <2>2, <2>3, Values DEF Behind
<1>10. Queued'
  BY <1>0, <1>2 DEF Queued
<1>11. Generations'
  <2>1. \A i \in DOMAIN txs : Moves(txs[i]) => txs[i].val <= count /\ txs[i].gen <= generation /\ txs[i].gen \in Nat
    BY <1>5, UnderWay, TxFields, CellFields DEF Generations, Generation
  <2>2. \A i \in DOMAIN settled : /\ Moves(settled[i].tx) /\ settled[i].tx.val <= count
                                  /\ settled[i].tx.gen <= generation /\ settled[i].tx.gen \in Nat
    BY <1>5, UnderWay, TxFields, CellFields DEF Generations, Generation
  <2>3. \A n \in Nat : n <= generation => n <= generation'
    BY <1>0, Values
  <2> QED
    BY <1>0, <1>2, <2>1, <2>2, <2>3 DEF Generations, Generation
<1>12. Migrating'
  <2>1. CASE copying = "no"
    BY <1>0, <1>1, <1>2, <2>1 DEF Migrating
  <2>2. CASE copying # "no"
    BY <1>0, <1>1, <2>2 DEF Migrating
  <2> QED
    BY <2>1, <2>2
<1>13. Reached' /\ RemovalWaits'
  <2>1. Reached'
    BY <1>0, <1>6, Values DEF Reached
  <2>2. RemovalWaits'
    BY <1>0, <1>3, <1>4, <1>5, <1>7 DEF RemovalWaits
  <2> QED
    BY <2>1, <2>2
<1>14. Landing'
  <2>1. \A i \in DOMAIN txs : Moves(txs[i]) => txs[i].val <= count
    BY <1>5, UnderWay, TxFields, CellFields
  <2>2. DeletesOld'
    BY <1>0, <1>2, <1>6, <2>1 DEF DeletesOld
  <2>3. Readable' >= landed'
    BY <1>0, <1>6, Values DEF Readable, LocalWins
  <2> QED
    BY <2>2, <2>3 DEF Landing
<1>15. Removing'
  <2> SUFFICES ASSUME excused' \cap {"undeleted", "waited"} = {} PROVE Removed'
    BY DEF Removing
  <2>1. \A i \in DOMAIN waiting' : waiting'[i] = 0
    <3>1. copying # "no" => \A i \in DOMAIN waiting : waiting[i] = 0
      BY DEF RemoveItem
    <3> QED
      BY <1>3, <3>1
  <2>2. RemovalDue' \/ copying = "no"
    BY <1>3 DEF RemovalDue
  <2>3. DeleteDue'
    BY <1>2, <2>2 DEF DeleteDue
  <2>4. \A i \in DOMAIN txs' : Outdated(txs[i])'
    <3>1. \A i \in DOMAIN txs : Moves(txs[i]) => txs[i].gen # generation'
      BY <1>0, TxFields, CellFields, Values DEF Generations, Generation
    <3>2. copying = "no" => \A i \in DOMAIN txs : txs[i].kind # "copy"
      BY DEF Migrating
    <3>3. \A i \in DOMAIN txs : txs[i].kind \in {"put", "copy", "delete"}
      BY TxFields, CellFields
    <3> QED
      BY <1>2, <2>2, <3>1, <3>2, <3>3 DEF Outdated, Moves, RemovedSince
  <2>5. \A i \in DOMAIN settled' : Outdated(settled[i].tx)'
    <3>1. \A i \in DOMAIN settled : settled[i].tx.gen # generation'
      BY <1>0, TxFields, CellFields, Values DEF Generations, Generation
    <3>2. copying = "no" => \A i \in DOMAIN settled : settled[i].tx.kind # "copy"
      BY DEF Migrating
    <3>3. \A i \in DOMAIN settled : settled[i].tx.kind \in {"put", "copy", "delete"}
      BY TxFields, CellFields
    <3> QED
      BY <1>0, <2>2, <3>1, <3>2, <3>3 DEF Outdated, Moves, RemovedSince
  <2> QED
    BY <1>0, <1>6, <2>1, <2>3, <2>4, <2>5 DEF Removed, New
<1>16. Newest' /\ Saving'
  <2>1. Newest'
    <3>1. \A v : v <= count => v <= saved' \/ (saved' = 0 /\ v <= forgotten')
      BY <1>0
    <3>2. 0 <= count
      BY Values
    <3>3. \A i \in DOMAIN waiting' : waiting'[i] <= count
      BY <1>3, <1>7, <3>2
    <3>4. \A c \in Carried' : c.val <= count
      BY <1>4, <1>5
    <3> QED
      BY <3>1, <3>3, <3>4 DEF Newest, Wanted
  <2> QED
    BY <1>0, <2>1 DEF Saving
<1> QED
  BY <1>8, <1>9, <1>10, <1>11, <1>12, <1>13, <1>14, <1>15, <1>16

-----------------------------------------------------------------------------
(* IndexedDB answers *)

LEMMA TxsShorter ==
  ASSUME TypeOK, txs # <<>>, txs' = Tail(txs)
  PROVE  /\ Head(txs) = txs[1] /\ 1 \in DOMAIN txs /\ txs[1] \in Tx
         /\ \A i \in DOMAIN txs' : i \in Nat /\ 1 < i + 1 /\ i + 1 \in DOMAIN txs
                                   /\ txs'[i] = txs[i + 1]
         /\ \A i \in DOMAIN txs : i \in Nat /\ (i # 1 => i - 1 \in DOMAIN txs' /\ txs'[i - 1] = txs[i])
         /\ Len(txs) = 1 => txs' = <<>>
<1>1. txs \in Seq(Tx)
  BY TypeParts DEF TypedQueues
<1>2. /\ Head(txs) = txs[1] /\ 1 \in DOMAIN txs /\ Head(txs) \in Tx
      /\ \A i \in DOMAIN Tail(txs) : i \in Nat /\ i + 1 \in DOMAIN txs /\ Tail(txs)[i] = txs[i + 1]
      /\ \A i \in DOMAIN txs : i \in Nat /\ (i # 1 => i - 1 \in DOMAIN Tail(txs)
                                                  /\ Tail(txs)[i - 1] = txs[i])
  BY <1>1, Shorter
<1>3. \A i \in DOMAIN txs' : 1 < i + 1
  BY <1>1
<1>4. Len(txs) = 1 => txs' = <<>>
  BY <1>1
<1> QED
  BY <1>2, <1>3, <1>4

LEMMA SettledLonger ==
  ASSUME TypeOK, NEW o \in Outcome, settled' = Append(settled, o)
  PROVE  /\ \A i \in DOMAIN settled : i \in DOMAIN settled' /\ settled'[i] = settled[i]
         /\ \A i \in DOMAIN settled' : settled'[i] = o \/ (i \in DOMAIN settled /\ settled'[i] = settled[i])
         /\ \E i \in DOMAIN settled' : settled'[i] = o
         /\ settled = <<>> => Len(settled') = 1 /\ settled'[1] = o
<1>1. settled \in Seq(Outcome)
  BY TypeParts DEF TypedQueues
<1> QED
  BY <1>1

LEMMA SettledShorter ==
  ASSUME TypeOK, settled # <<>>, settled' = Tail(settled)
  PROVE  /\ Head(settled) = settled[1] /\ 1 \in DOMAIN settled /\ settled[1].tx \in Tx
         /\ \A i \in DOMAIN settled' : i + 1 \in DOMAIN settled /\ settled'[i] = settled[i + 1]
         /\ \A i \in DOMAIN settled : i # 1 => i - 1 \in DOMAIN settled' /\ settled'[i - 1] = settled[i]
         /\ Len(settled) = 1 => settled' = <<>>
<1>1. settled \in Seq(Outcome)
  BY TypeParts DEF TypedQueues
<1>2. /\ Head(settled) = settled[1] /\ 1 \in DOMAIN settled /\ Head(settled) \in Outcome
      /\ \A i \in DOMAIN Tail(settled) : i + 1 \in DOMAIN settled /\ Tail(settled)[i] = settled[i + 1]
      /\ \A i \in DOMAIN settled : i # 1 => i - 1 \in DOMAIN Tail(settled)
                                            /\ Tail(settled)[i - 1] = settled[i]
  BY <1>1, Shorter
<1>3. Len(settled) = 1 => settled' = <<>>
  BY <1>1
<1> QED
  BY <1>2, <1>3 DEF Outcome

LEMMA OutcomeFields ==
  ASSUME NEW tx \in Tx, NEW b \in BOOLEAN
  PROVE  /\ [tx |-> tx, ok |-> b] \in Outcome
         /\ [tx |-> tx, ok |-> b].tx = tx /\ [tx |-> tx, ok |-> b].ok = b
  BY DEF Outcome

\* ReadsNewest of the next state.
LEMMA ReadsNewestNext ==
  ASSUME TypeOK', Ordered'
  PROVE  /\ Readable' >= idb'.val /\ Readable' >= local'.val /\ Readable' \in Nat
         /\ Readable' # 0 => \E c \in Carried' : c.val = Readable'
<1>1. idb' \in Cell /\ local' \in Cell
  BY DEF TypeOK
<1>2. (idb'.val # 0 => idb' \in Carried') /\ (local'.val # 0 => local' \in Carried')
  BY DEF Carried
<1>3. idb'.val # 0 /\ local'.val # 0 =>
        /\ local'.stamp <= idb'.stamp => local'.val <= idb'.val
        /\ idb'.stamp <= local'.stamp => idb'.val <= local'.val
  BY <1>2 DEF Ordered
<1>4. Readable' = idb'.val \/ Readable' = local'.val
  BY DEF Readable
<1> QED
  BY <1>1, <1>2, <1>3, <1>4, CellFields DEF Readable, LocalWins, LocalIsNewer

\* A wanted blob in a store is the one that is read.
LEMMA ReadsWanted ==
  ASSUME TypeOK', Ordered', Newest', saved' # 0, saved' <= idb'.val \/ saved' <= local'.val
  PROVE  Readable' = saved'
<1>1. saved' \in Nat /\ idb' \in Cell /\ local' \in Cell
  BY DEF TypeOK
<1>2. Readable' >= saved'
  BY <1>1, ReadsNewestNext, CellFields
<1>3. Readable' <= saved'
  BY <1>1, <1>2, ReadsNewestNext DEF Newest, Wanted
<1> QED
  BY <1>1, <1>2, <1>3, ReadsNewestNext

\* What a step leaves of the invariant when a transaction settles: nothing is begun.
LEMMA TxSettles ==
  ASSUME TypeOK, TypeOK', Base, txs # <<>>, txs' = Tail(txs),
         UNCHANGED <<up, pending, copying, waiting, lastStamp, generation, count, saved, forgotten>>,
         Carried' \subseteq Carried
  PROVE  /\ Down' /\ Ordered' /\ Stamped' /\ Behind'
         /\ Newest => Newest'
<1> USE DEF Base
<1>1. up
  BY DEF Down
<1>2. Down' /\ Ordered' /\ Stamped'
  BY <1>1, FewerCarried DEF Down, Stamped
<1>3. Behind'
  BY DEF Behind
<1>4. Newest => Newest'
  BY DEF Newest, Wanted
<1> QED
  BY <1>2, <1>3, <1>4

LEMMA CommitDeleteInv ==
  ASSUME Inv, TypeOK', Commit, ~Moves(Head(txs))
  PROVE  Inv'
<1> USE DEF Inv, Base
<1>0. /\ txs # <<>> /\ txs' = Tail(txs) /\ idb' = Empty
      /\ UNCHANGED <<local, up, pending, copying, waiting, lastStamp, generation, count, saved,
                     forgotten, refused, excused, settled, landed>>
  BY DEF Commit, Moves, stamps
<1>1. /\ Head(txs) = txs[1] /\ 1 \in DOMAIN txs /\ txs[1] \in Tx
      /\ \A i \in DOMAIN txs' : i \in Nat /\ 1 < i + 1 /\ i + 1 \in DOMAIN txs /\ txs'[i] = txs[i + 1]
      /\ \A i \in DOMAIN txs : i \in Nat /\ (i # 1 => i - 1 \in DOMAIN txs' /\ txs'[i - 1] = txs[i])
      /\ Len(txs) = 1 => txs' = <<>>
  BY <1>0, TxsShorter
<1>2. \A i, j \in DOMAIN txs' : i < j => i + 1 < j + 1
  BY <1>1
<1>3. idb'.val = 0
  BY <1>0, CellFields
<1>4. Carried' \subseteq Carried
  BY <1>0, <1>1, <1>3 DEF Carried
<1>5. Down' /\ Ordered' /\ Stamped' /\ Behind' /\ Newest'
  BY <1>0, <1>4, TxSettles
<1>6. Queued'
  <2>1. \A i \in DOMAIN txs' : txs'[i].val \in Nat
    BY <1>1, TxFields, CellFields
  <2> QED
    BY <1>1, <1>2, <1>3, <2>1 DEF Queued
<1>7. Generations'
  BY <1>0, <1>1 DEF Generations, Generation
<1>8. Migrating'
  BY <1>0, <1>1 DEF Migrating, Moves
<1>9. Reached' /\ RemovalWaits'
  BY <1>0, <1>3, <1>4, Values DEF Reached, RemovalWaits
<1>10. DeletesOld => DeletesOld' /\ (Readable > forgotten => Readable' = Readable)
  <2>1. DeletesOld => idb.val <= forgotten
    BY <1>1 DEF DeletesOld
  <2>2. DeletesOld => (Readable > forgotten => Readable = local.val /\ local.val # 0)
    BY <2>1, Values DEF Readable
  <2>3. local.val # 0 => Readable' = local.val
    BY <1>0, <1>3 DEF Readable, LocalWins
  <2>4. DeletesOld => DeletesOld'
    <3>1. idb'.val <= forgotten'
      BY <1>0, <1>3, Values
    <3>2. DeletesOld => \A i, j \in DOMAIN txs' :
            ~Moves(txs'[j]) /\ i < j /\ Moves(txs'[i]) => txs'[i].val <= forgotten
      BY <1>1, <1>2 DEF DeletesOld
    <3> QED
      BY <1>0, <3>1, <3>2 DEF DeletesOld, Moves
  <2> QED
    BY <2>2, <2>3, <2>4
<1>11. Landing'
  <2> SUFFICES ASSUME excused \cap {"latch", "reissue"} = {} PROVE DeletesOld' /\ Readable' >= landed
    BY <1>0 DEF Landing
  <2>1. DeletesOld /\ Readable >= landed
    BY DEF Landing
  <2>2. landed # 0 => Readable > forgotten
    BY <2>1, OnDisk, Values DEF Reached
  <2>3. Readable' \in Nat
    BY <1>5, ReadsNewestNext
  <2> QED
    BY <1>10, <2>1, <2>2, <2>3
<1>12. Removing'
  <2> SUFFICES ASSUME Removed PROVE Removed'
    BY <1>0 DEF Removing
  <2>1. \A i \in DOMAIN txs' : Outdated(txs[i])'
    <3>1. \A i \in DOMAIN txs' : i + 1 \in DOMAIN txs /\ txs'[i] = txs[i + 1] /\ Outdated(txs[i + 1])
      BY <1>1 DEF Removed
    <3> QED
      BY <1>0, <3>1 DEF Outdated, RemovedSince, Moves, RemovalDue
  <2>2. \A i \in DOMAIN settled' : Outdated(settled[i].tx)'
    BY <1>0 DEF Removed, Outdated, RemovedSince, Moves, RemovalDue
  <2> QED
    BY <1>0, <1>3, <1>5, <2>1, <2>2 DEF Removed, New, Down
<1>13. Saving'
  <2> SUFFICES ASSUME excused = {}, up, saved # 0 PROVE saved > forgotten /\ OnItsWay'
    BY <1>0 DEF Saving
  <2>1. saved > forgotten /\ OnItsWay /\ DeletesOld
    BY DEF Saving, Landing
  <2>2. Readable = saved => Readable' = saved'
    BY <1>0, <1>10, <2>1
  <2>3. (\E i \in DOMAIN txs : txs[i].kind = "put" /\ txs[i].val = saved)
          => \E i \in DOMAIN txs' : txs'[i].kind = "put" /\ txs'[i].val = saved
    BY <1>1 DEF Moves
  <2> QED
    BY <1>0, <2>1, <2>2, <2>3 DEF OnItsWay
<1> QED
  BY <1>5, <1>6, <1>7, <1>8, <1>9, <1>11, <1>12, <1>13

LEMMA CommitMoveInv ==
  ASSUME Inv, TypeOK', Commit, Moves(Head(txs))
  PROVE  Inv'
<1> USE DEF Inv, Base
<1> DEFINE tx == txs[1]
<1>0. /\ txs # <<>> /\ txs' = Tail(txs)
      /\ UNCHANGED <<local, up, pending, copying, waiting, lastStamp, generation, count, saved,
                     forgotten, refused, excused>>
  BY DEF Commit, stamps
<1>1. /\ Head(txs) = txs[1] /\ 1 \in DOMAIN txs /\ txs[1] \in Tx
      /\ \A i \in DOMAIN txs' : i \in Nat /\ 1 < i + 1 /\ i + 1 \in DOMAIN txs /\ txs'[i] = txs[i + 1]
      /\ \A i \in DOMAIN txs : i \in Nat /\ (i # 1 => i - 1 \in DOMAIN txs' /\ txs'[i - 1] = txs[i])
      /\ Len(txs) = 1 => txs' = <<>>
  BY <1>0, TxsShorter
<1>2. \A i, j \in DOMAIN txs' : i < j => i + 1 < j + 1
  BY <1>1
<1>3. /\ idb' = CellOf(tx) /\ Lands(tx.val) /\ settled' = Append(settled, [tx |-> tx, ok |-> TRUE])
      /\ Moves(tx)
  BY <1>1 DEF Commit, Moves, CellOf
<1>4. /\ tx.val \in Nat /\ CellOf(tx) \in Carried /\ CellOf(tx).val = tx.val
      /\ Generation(tx)
  BY <1>1, <1>3, UnderWay, CellFields DEF Generations
<1> HIDE DEF tx
<1>5. /\ \A i \in DOMAIN settled : i \in DOMAIN settled' /\ settled'[i] = settled[i]
      /\ \A i \in DOMAIN settled' : \/ settled'[i].tx = tx /\ settled'[i].ok
                                    \/ i \in DOMAIN settled /\ settled'[i] = settled[i]
      /\ \E i \in DOMAIN settled' : settled'[i].tx = tx /\ settled'[i].ok
      /\ settled = <<>> => Len(settled') = 1 /\ settled'[1].tx = tx
  <2>1. tx \in Tx
    BY <1>1 DEF tx
  <2>2. /\ [tx |-> tx, ok |-> TRUE] \in Outcome
        /\ [tx |-> tx, ok |-> TRUE].tx = tx /\ [tx |-> tx, ok |-> TRUE].ok
    BY <2>1, OutcomeFields
  <2> QED
    BY <1>3, <2>2, SettledLonger
<1>6. Carried' \subseteq Carried
  BY <1>0, <1>1, <1>3, <1>4, <1>5 DEF Carried
<1>7. Down' /\ Ordered' /\ Stamped' /\ Behind' /\ Newest'
  BY <1>0, <1>6, TxSettles
<1>8. Queued'
  <2>1. \A i \in DOMAIN txs' : Moves(txs'[i]) => tx.val <= txs'[i].val
    BY <1>1, <1>3 DEF Queued, tx
  <2>2. \A i, j \in DOMAIN txs' : Moves(txs'[i]) /\ i < j /\ Moves(txs'[j]) => txs'[i].val <= txs'[j].val
    BY <1>1, <1>2 DEF Queued
  <2> QED
    BY <1>3, <1>4, <2>1, <2>2 DEF Queued
<1>9. Generations'
  BY <1>0, <1>1, <1>3, <1>4, <1>5 DEF Generations, Generation
<1>10. Migrating'
  <2>1. CASE copying = "no"
    BY <1>0, <1>1, <1>5, <2>1 DEF Migrating, tx
  <2>2. CASE copying # "no"
    <3>1. /\ Len(txs) = 1 /\ settled = <<>> /\ tx.kind = "copy"
          /\ copying = "copying" => local = CellOf(tx)
      BY <1>0, <2>2 DEF Migrating, tx
    <3>2. txs' = <<>> /\ Len(settled') = 1 /\ settled'[1].tx = tx
      BY <1>1, <1>5, <3>1
    <3> QED
      BY <1>0, <1>3, <2>2, <3>1, <3>2 DEF Migrating
  <2> QED
    BY <2>1, <2>2
<1>11. landed' >= landed /\ (tx.val <= forgotten \/ tx.val <= landed') /\ landed' \in Nat
       /\ (landed' = landed \/ (landed' = tx.val /\ tx.val > forgotten))
  BY <1>3, <1>4, Values DEF Lands
<1>12. Reached' /\ RemovalWaits'
  <2>1. Reached'
    BY <1>0, <1>3, <1>4, <1>11, Values DEF Reached
  <2>2. RemovalDue => tx.val <= forgotten
    BY <1>4 DEF RemovalWaits, RemovalDue
  <2>3. RemovalDue => landed' = landed
    BY <1>4, <1>11, <2>2, Values
  <2> QED
    BY <1>0, <1>6, <2>1, <2>3 DEF RemovalWaits, RemovalDue
<1>13. idb.val <= tx.val
  BY <1>1, <1>3 DEF Queued, tx
<1>14. Landing'
  <2> SUFFICES ASSUME excused \cap {"latch", "reissue"} = {} PROVE DeletesOld' /\ Readable' >= landed'
    BY <1>0 DEF Landing
  <2>1. DeletesOld /\ Readable >= landed
    BY DEF Landing
  <2>2. DeletesOld'
    <3>1. \A j \in DOMAIN txs' : ~Moves(txs'[j]) => tx.val <= forgotten
      BY <1>1, <1>3, <2>1 DEF DeletesOld, tx
    <3>2. \A i, j \in DOMAIN txs' : ~Moves(txs'[j]) /\ i < j /\ Moves(txs'[i]) => txs'[i].val <= forgotten
      BY <1>1, <1>2, <2>1 DEF DeletesOld
    <3> QED
      BY <1>0, <1>3, <1>4, <3>1, <3>2 DEF DeletesOld
  <2>3. Readable' >= tx.val /\ Readable' >= local.val /\ Readable' \in Nat
    BY <1>0, <1>3, <1>4, <1>7, ReadsNewestNext
  <2>4. Readable = idb.val \/ Readable = local.val
    BY DEF Readable
  <2> QED
    BY <1>4, <1>11, <1>13, <2>1, <2>2, <2>3, <2>4, Values
<1>15. Removing'
  <2> SUFFICES ASSUME Removed PROVE Removed'
    BY <1>0 DEF Removing
  <2>0. Outdated(tx)
    BY <1>1 DEF Removed, tx
  <2>1. \A i \in DOMAIN txs' : Outdated(txs[i])'
    <3>1. \A i \in DOMAIN txs' : i + 1 \in DOMAIN txs /\ txs'[i] = txs[i + 1] /\ Outdated(txs[i + 1])
      BY <1>1 DEF Removed
    <3> QED
      BY <1>0, <3>1 DEF Outdated, RemovedSince, Moves, RemovalDue
  <2>2. \A i \in DOMAIN settled' : Outdated(settled[i].tx)'
    <3>1. \A i \in DOMAIN settled' : \/ settled'[i].tx = tx
                                     \/ i \in DOMAIN settled /\ settled'[i] = settled[i]
      BY <1>5
    <3>2. \A i \in DOMAIN settled : Outdated(settled[i].tx)
      BY DEF Removed
    <3> QED
      BY <1>0, <2>0, <3>1, <3>2 DEF Outdated, RemovedSince, Moves, RemovalDue
  <2>3. tx.val <= forgotten => DeleteDue'
    <3>1. tx.kind # "put" /\ tx.val <= forgotten => RemovalDue'
      BY <1>0, <1>3, <2>0 DEF Outdated, RemovalDue
    <3>2. tx.kind = "put" /\ tx.val <= forgotten => tx.gen # generation'
      BY <1>0, <1>3, <2>0 DEF Outdated, RemovedSince
    <3> QED
      BY <1>5, <3>1, <3>2 DEF DeleteDue, RemovedSince
  <2>5. (New(idb.val) \/ local.val > forgotten \/ DeleteDue)'
    BY <1>0, <1>3, <1>4, <2>3, Values DEF New
  <2> QED
    BY <1>0, <1>7, <2>1, <2>2, <2>5 DEF Removed, New, Down
<1>16. Saving'
  <2> SUFFICES ASSUME excused = {}, up, saved # 0 PROVE saved > forgotten /\ OnItsWay'
    BY <1>0 DEF Saving
  <2>1. saved > forgotten /\ OnItsWay
    BY DEF Saving
  <2>2. CASE tx.val = saved \/ Readable = saved
    <3>1. saved' <= idb'.val \/ saved' <= local'.val
      <4>1. tx.val = saved \/ idb.val = saved \/ local.val = saved
        BY <2>2 DEF Readable
      <4>2. saved' = saved /\ idb'.val = tx.val /\ local'.val = local.val
        BY <1>0, <1>3, <1>4
      <4> QED
        BY <1>4, <1>13, <4>1, <4>2, Values
    <3>2. Readable' = saved'
      BY <1>0, <1>7, <3>1, ReadsWanted
    <3> QED
      BY <2>1, <3>2 DEF OnItsWay
  <2>3. CASE ~(tx.val = saved \/ Readable = saved)
    <3>1. (\E i \in DOMAIN txs : txs[i].kind = "put" /\ txs[i].val = saved)
            => \E i \in DOMAIN txs' : txs'[i].kind = "put" /\ txs'[i].val = saved
      BY <1>1, <2>3 DEF tx
    <3> QED
      BY <1>0, <1>5, <2>1, <2>3, <3>1 DEF OnItsWay
  <2> QED
    BY <2>2, <2>3
<1> QED
  BY <1>7, <1>8, <1>9, <1>10, <1>12, <1>14, <1>15, <1>16

LEMMA CommitInv == ASSUME Inv, TypeOK', Commit PROVE Inv'
  BY CommitDeleteInv, CommitMoveInv

LEMMA AbortInv == ASSUME Inv, TypeOK', Abort PROVE Inv'
<1> USE DEF Inv, Base
<1> DEFINE tx == txs[1]
<1>0. /\ txs # <<>> /\ txs' = Tail(txs)
      /\ UNCHANGED <<idb, local, up, pending, copying, waiting, lastStamp, generation, count,
                     saved, forgotten, landed, refused>>
  BY DEF Abort, stores, stamps
<1>1. /\ Head(txs) = txs[1] /\ 1 \in DOMAIN txs /\ txs[1] \in Tx
      /\ \A i \in DOMAIN txs' : i \in Nat /\ 1 < i + 1 /\ i + 1 \in DOMAIN txs /\ txs'[i] = txs[i + 1]
      /\ \A i \in DOMAIN txs : i \in Nat /\ (i # 1 => i - 1 \in DOMAIN txs' /\ txs'[i - 1] = txs[i])
      /\ Len(txs) = 1 => txs' = <<>>
  BY <1>0, TxsShorter
<1>2. \A i, j \in DOMAIN txs' : i < j => i + 1 < j + 1
  BY <1>1
<1>3. \/ ~Moves(tx) /\ UNCHANGED settled /\ excused' = excused \cup {"undeleted"}
      \/ /\ Moves(tx) /\ settled' = Append(settled, [tx |-> tx, ok |-> FALSE])
         /\ UNCHANGED excused
  BY <1>1 DEF Abort, Moves
<1>4. Moves(tx) => CellOf(tx) \in Carried /\ Generation(tx)
  BY <1>1, UnderWay DEF Generations
<1> HIDE DEF tx
<1>5. /\ \A i \in DOMAIN settled : i \in DOMAIN settled' /\ settled'[i] = settled[i]
      /\ \A i \in DOMAIN settled' : \/ Moves(tx) /\ settled'[i].tx = tx /\ ~settled'[i].ok
                                    \/ i \in DOMAIN settled /\ settled'[i] = settled[i]
      /\ Moves(tx) => \E i \in DOMAIN settled' : settled'[i].tx = tx /\ ~settled'[i].ok
      /\ Moves(tx) /\ settled = <<>> => Len(settled') = 1 /\ settled'[1].tx = tx /\ ~settled'[1].ok
  <2>1. tx \in Tx
    BY <1>1 DEF tx
  <2>2. /\ [tx |-> tx, ok |-> FALSE] \in Outcome
        /\ [tx |-> tx, ok |-> FALSE].tx = tx /\ ~[tx |-> tx, ok |-> FALSE].ok
    BY <2>1, OutcomeFields
  <2> QED
    BY <1>3, <2>2, SettledLonger
<1>6. Carried' \subseteq Carried
  BY <1>0, <1>1, <1>4, <1>5 DEF Carried
<1>7. Down' /\ Ordered' /\ Stamped' /\ Behind' /\ Newest'
  BY <1>0, <1>6, TxSettles
<1>8. Queued'
  BY <1>0, <1>1, <1>2 DEF Queued
<1>9. Generations'
  BY <1>0, <1>1, <1>4, <1>5 DEF Generations, Generation
<1>10. Migrating'
  <2>1. CASE copying = "no"
    BY <1>0, <1>1, <1>5, <2>1 DEF Migrating, tx
  <2>2. CASE copying # "no"
    <3>1. /\ Len(txs) = 1 /\ settled = <<>> /\ tx.kind = "copy"
          /\ copying = "copying" => local = CellOf(tx)
      BY <1>0, <2>2 DEF Migrating, tx
    <3>2. txs' = <<>> /\ Len(settled') = 1 /\ settled'[1].tx = tx /\ ~settled'[1].ok
      BY <1>1, <1>5, <3>1 DEF Moves
    <3> QED
      BY <1>0, <2>2, <3>1, <3>2 DEF Migrating
  <2> QED
    BY <2>1, <2>2
<1>11. Reached' /\ RemovalWaits' /\ Readable' = Readable
  BY <1>0, <1>6 DEF Reached, RemovalWaits, Readable, LocalWins, LocalIsNewer
<1>12. Landing'
  <2>1. DeletesOld => DeletesOld'
    BY <1>0, <1>1, <1>2 DEF DeletesOld
  <2> QED
    BY <1>0, <1>3, <1>11, <2>1 DEF Landing
<1>13. Removing'
  <2> SUFFICES ASSUME Removed, Moves(tx) PROVE Removed'
    BY <1>3 DEF Removing
  <2>0. Outdated(tx)
    BY <1>1 DEF Removed, tx
  <2>1. \A i \in DOMAIN txs' : Outdated(txs[i])'
    <3>1. \A i \in DOMAIN txs' : i + 1 \in DOMAIN txs /\ txs'[i] = txs[i + 1] /\ Outdated(txs[i + 1])
      BY <1>1 DEF Removed
    <3> QED
      BY <1>0, <3>1 DEF Outdated, RemovedSince, Moves, RemovalDue
  <2>2. \A i \in DOMAIN settled' : Outdated(settled[i].tx)'
    <3>1. \A i \in DOMAIN settled' : \/ settled'[i].tx = tx
                                     \/ i \in DOMAIN settled /\ settled'[i] = settled[i]
      BY <1>5
    <3>2. \A i \in DOMAIN settled : Outdated(settled[i].tx)
      BY DEF Removed
    <3> QED
      BY <1>0, <2>0, <3>1, <3>2 DEF Outdated, RemovedSince, Moves, RemovalDue
  <2>3. DeleteDue => DeleteDue'
    <3>1. (\E i \in DOMAIN txs : ~Moves(txs[i])) => \E i \in DOMAIN txs' : ~Moves(txs'[i])
      BY <1>1 DEF tx
    <3> QED
      BY <1>0, <1>5, <3>1 DEF DeleteDue, RemovedSince, RemovalDue
  <2> QED
    BY <1>0, <1>7, <2>1, <2>2, <2>3 DEF Removed, New, Down
<1>14. Saving'
  <2> SUFFICES ASSUME excused = {}, Moves(tx), up, saved # 0 PROVE saved > forgotten /\ OnItsWay'
    BY <1>0, <1>3 DEF Saving
  <2>1. saved > forgotten /\ OnItsWay
    BY DEF Saving
  <2>2. CASE tx.kind = "put" /\ tx.val = saved
    <3>1. \E i \in DOMAIN settled' :
            settled'[i].tx.kind = "put" /\ ~settled'[i].ok /\ settled'[i].tx.val = saved'
      BY <1>0, <1>5, <2>2
    <3> QED
      BY <2>1, <3>1 DEF OnItsWay
  <2>3. CASE ~(tx.kind = "put" /\ tx.val = saved)
    <3>1. (\E i \in DOMAIN txs : txs[i].kind = "put" /\ txs[i].val = saved)
            => \E i \in DOMAIN txs' : txs'[i].kind = "put" /\ txs'[i].val = saved
      BY <1>1, <2>3 DEF tx
    <3> QED
      BY <1>0, <1>5, <1>11, <2>1, <3>1 DEF OnItsWay
  <2> QED
    BY <2>2, <2>3
<1> QED
  BY <1>7, <1>8, <1>9, <1>10, <1>11, <1>12, <1>13, <1>14

-----------------------------------------------------------------------------
(* Callbacks *)

\* What every callback keeps: it begins nothing, and tells of one transaction.
LEMMA CallbackRuns ==
  ASSUME TypeOK, TypeOK', Base, NEW kind, NEW ok, Due(kind, ok), Carried' \subseteq Carried
  PROVE  /\ UNCHANGED <<idb, up, pending, waiting, lastStamp, generation, count, saved, forgotten>>
         /\ up /\ settled # <<>> /\ settled' = Tail(settled)
         /\ Down' /\ Ordered' /\ Stamped' /\ Behind'
         /\ Newest => Newest'
<1> USE DEF Base
<1>1. /\ UNCHANGED <<idb, up, pending, waiting, lastStamp, generation, count, saved, forgotten>>
      /\ settled # <<>> /\ settled' = Tail(settled)
  BY DEF Due, stamps
<1>2. up
  BY <1>1 DEF Down
<1>3. Down' /\ Ordered' /\ Stamped'
  BY <1>1, <1>2, FewerCarried DEF Down, Stamped
<1>4. Behind'
  BY <1>1 DEF Behind
<1>5. Newest => Newest'
  BY <1>1 DEF Newest, Wanted
<1> QED
  BY <1>1, <1>2, <1>3, <1>4, <1>5

\* The transaction it tells of, and those that stay to be told of.
LEMMA CallbackTold ==
  ASSUME TypeOK, Base, NEW kind, NEW ok, Due(kind, ok)
  PROVE  /\ Head(settled) = settled[1] /\ 1 \in DOMAIN settled /\ settled[1].tx \in Tx
         /\ settled[1].tx.kind = kind /\ settled[1].ok = ok
         /\ CellOf(settled[1].tx) \in Carried /\ Generation(settled[1].tx) /\ Moves(settled[1].tx)
         /\ \A i \in DOMAIN settled' : i + 1 \in DOMAIN settled /\ settled'[i] = settled[i + 1]
         /\ \A i \in DOMAIN settled : i # 1 => i - 1 \in DOMAIN settled' /\ settled'[i - 1] = settled[i]
         /\ Len(settled) = 1 => settled' = <<>>
         /\ kind = "put" => copying = "no"
         /\ kind = "copy" => copying # "no" /\ txs = <<>> /\ Len(settled) = 1 /\ settled' = <<>>
<1> USE DEF Base
<1>1. settled # <<>> /\ settled' = Tail(settled) /\ Head(settled).tx.kind = kind /\ Head(settled).ok = ok
  BY DEF Due
<1>2. /\ Head(settled) = settled[1] /\ 1 \in DOMAIN settled /\ settled[1].tx \in Tx
      /\ \A i \in DOMAIN settled' : i + 1 \in DOMAIN settled /\ settled'[i] = settled[i + 1]
      /\ \A i \in DOMAIN settled : i # 1 => i - 1 \in DOMAIN settled' /\ settled'[i - 1] = settled[i]
      /\ Len(settled) = 1 => settled' = <<>>
  BY <1>1, SettledShorter
<1>3. CellOf(settled[1].tx) \in Carried /\ Generation(settled[1].tx) /\ Moves(settled[1].tx)
  BY <1>2, UnderWay DEF Generations
<1>4. kind = "put" => copying = "no"
  BY <1>1, <1>2 DEF Migrating
<1>5. kind = "copy" => copying # "no" /\ txs = <<>> /\ Len(settled) = 1
  BY <1>1, <1>2 DEF Migrating
<1> QED
  BY <1>1, <1>2, <1>3, <1>4, <1>5

\* What is left of the conjuncts about the callbacks that are still due.
LEMMA StillDue ==
  ASSUME TypeOK, Base, NEW kind, NEW ok, Due(kind, ok)
  PROVE  /\ \A i \in DOMAIN settled' : Moves(settled'[i].tx) /\ Generation(settled[i].tx)'
         /\ copying = "no" => \A i \in DOMAIN settled' : settled'[i].tx.kind # "copy"
         /\ Removed => \A i \in DOMAIN settled' : Outdated(settled[i].tx)'
         /\ \/ kind = "put" /\ ok /\ RemovedSince(settled[1].tx)
            \/ (\E i \in DOMAIN settled :
                  settled[i].tx.kind = "put" /\ settled[i].ok /\ RemovedSince(settled[i].tx))
               => \E i \in DOMAIN settled' :
                    settled'[i].tx.kind = "put" /\ settled'[i].ok /\ RemovedSince(settled[i].tx)'
         /\ \/ kind = "put" /\ ~ok /\ settled[1].tx.val = saved
            \/ (\E i \in DOMAIN settled :
                  settled[i].tx.kind = "put" /\ ~settled[i].ok /\ settled[i].tx.val = saved)
               => \E i \in DOMAIN settled' :
                    settled'[i].tx.kind = "put" /\ ~settled'[i].ok /\ settled'[i].tx.val = saved
<1>1. /\ settled[1].tx.kind = kind /\ settled[1].ok = ok
      /\ \A i \in DOMAIN settled' : i + 1 \in DOMAIN settled /\ settled'[i] = settled[i + 1]
      /\ \A i \in DOMAIN settled : i # 1 => i - 1 \in DOMAIN settled' /\ settled'[i - 1] = settled[i]
  BY CallbackTold
<1>2. UNCHANGED <<generation, forgotten, waiting>>
  BY DEF Due
<1>3. \A i \in DOMAIN settled' : Moves(settled'[i].tx) /\ Generation(settled[i].tx)'
  <2>1. \A i \in DOMAIN settled' : Moves(settled'[i].tx) /\ Generation(settled'[i].tx)
    BY <1>1 DEF Base, Generations
  <2> QED
    BY <1>2, <2>1 DEF Generation
<1>4. copying = "no" => \A i \in DOMAIN settled' : settled'[i].tx.kind # "copy"
  BY <1>1 DEF Base, Migrating
<1>5. Removed => \A i \in DOMAIN settled' : Outdated(settled[i].tx)'
  <2>1. Removed => \A i \in DOMAIN settled' : Outdated(settled'[i].tx)
    BY <1>1 DEF Removed
  <2> QED
    BY <1>2, <2>1 DEF Outdated, RemovedSince, Moves, RemovalDue
<1>6. \/ kind = "put" /\ ok /\ RemovedSince(settled[1].tx)
      \/ (\E i \in DOMAIN settled :
            settled[i].tx.kind = "put" /\ settled[i].ok /\ RemovedSince(settled[i].tx))
         => \E i \in DOMAIN settled' :
              settled'[i].tx.kind = "put" /\ settled'[i].ok /\ RemovedSince(settled[i].tx)'
  BY <1>1, <1>2 DEF RemovedSince
<1>7. \/ kind = "put" /\ ~ok /\ settled[1].tx.val = saved
      \/ (\E i \in DOMAIN settled :
            settled[i].tx.kind = "put" /\ ~settled[i].ok /\ settled[i].tx.val = saved)
         => \E i \in DOMAIN settled' :
              settled'[i].tx.kind = "put" /\ ~settled'[i].ok /\ settled'[i].tx.val = saved
  BY <1>1
<1> QED
  BY <1>3, <1>4, <1>5, <1>6, <1>7

\* A callback that leaves the stores and the transactions alone.
LEMMA WriteForgotten ==
  ASSUME Inv, TypeOK', NEW ok, Due("put", ok),
         UNCHANGED <<local, txs, copying, landed, excused>>, refused \subseteq refused',
         ok => ~RemovedSince(settled[1].tx),
         ~ok => RemovedSince(settled[1].tx) \/ settled[1].tx.val \in refused'
  PROVE  Inv'
<1> USE DEF Inv, Base
<1>1. UNCHANGED <<idb, up, waiting, pending, lastStamp, generation, count, saved, forgotten>> /\ settled' = Tail(settled)
  BY DEF Due, stamps
<1>2. \A i \in DOMAIN settled' : \E j \in DOMAIN settled : settled'[i] = settled[j]
  BY CallbackTold
<1>3. Carried' \subseteq Carried
  BY <1>1, <1>2 DEF Carried
<1>4. Down' /\ Ordered' /\ Stamped' /\ Behind' /\ Newest' /\ up
  BY <1>3, CallbackRuns
<1>5. copying = "no" /\ Generation(settled[1].tx)
  BY CallbackTold
<1>6. Queued' /\ Reached' /\ RemovalWaits' /\ Readable' = Readable
  BY <1>1, <1>3 DEF Queued, Reached, RemovalWaits, Readable, LocalWins, LocalIsNewer
<1>7. Generations'
  <2>1. \A i \in DOMAIN settled' : Moves(settled'[i].tx) /\ Generation(settled[i].tx)'
    BY StillDue
  <2> QED
    BY <1>1, <2>1 DEF Generations, Generation
<1>8. Migrating'
  BY <1>5, StillDue DEF Migrating
<1>9. Landing'
  BY <1>1, <1>6 DEF Landing, DeletesOld
<1>10. Removing'
  <2> SUFFICES ASSUME Removed PROVE Removed'
    BY DEF Removing
  <2>1. DeleteDue => DeleteDue'
    <3>1. (\E i \in DOMAIN settled :
             settled[i].tx.kind = "put" /\ settled[i].ok /\ RemovedSince(settled[i].tx))
            => \E i \in DOMAIN settled' :
                 settled'[i].tx.kind = "put" /\ settled'[i].ok /\ RemovedSince(settled[i].tx)'
      BY StillDue
    <3> QED
      BY <1>1, <3>1 DEF DeleteDue, RemovalDue
  <2>2. \A i \in DOMAIN settled' : Outdated(settled[i].tx)'
    BY StillDue
  <2>3. \A i \in DOMAIN txs' : Outdated(txs[i])'
    BY <1>1 DEF Removed, Outdated, RemovedSince, Moves, RemovalDue
  <2> QED
    BY <1>1, <1>4, <2>1, <2>2, <2>3 DEF Removed, New
<1>11. Saving'
  <2> SUFFICES ASSUME excused = {}, saved # 0 PROVE saved > forgotten /\ OnItsWay'
    BY <1>1 DEF Saving
  <2>1. saved > forgotten /\ OnItsWay
    BY <1>4 DEF Saving
  <2>2. CASE ~ok /\ settled[1].tx.val = saved
    <3>1. saved' \in refused'
      BY <1>1, <1>5, <2>1, <2>2, Values, CallbackTold, CellFields DEF Generation, RemovedSince
    <3> QED
      BY <2>1, <3>1 DEF OnItsWay
  <2>3. CASE ~(~ok /\ settled[1].tx.val = saved)
    <3>1. (\E i \in DOMAIN settled :
             settled[i].tx.kind = "put" /\ ~settled[i].ok /\ settled[i].tx.val = saved)
            => \E i \in DOMAIN settled' :
                 settled'[i].tx.kind = "put" /\ ~settled'[i].ok /\ settled'[i].tx.val = saved
      BY <2>3, StillDue
    <3> QED
      BY <1>1, <1>6, <2>1, <3>1 DEF OnItsWay
  <2> QED
    BY <2>2, <2>3
<1> QED
  BY <1>4, <1>6, <1>7, <1>8, <1>9, <1>10, <1>11

\* The late success of a removed write is removed again.
LEMMA RemovedAgain ==
  ASSUME Inv, TypeOK', Due("put", TRUE), RemovedSince(settled[1].tx),
         txs' = Append(txs, Delete), local' = Empty, UNCHANGED <<copying, landed, refused>>,
         excused' = excused \cup (IF NewerUnderWay THEN {"reissue"} ELSE {})
  PROVE  Inv'
<1> USE DEF Inv, Base
<1>1. UNCHANGED <<idb, up, waiting, pending, lastStamp, generation, count, saved, forgotten>> /\ settled' = Tail(settled)
  BY DEF Due, stamps
<1>2. \A i \in DOMAIN settled' : \E j \in DOMAIN settled : settled'[i] = settled[j]
  BY CallbackTold
<1>3. /\ \A i \in DOMAIN txs : i \in DOMAIN txs' /\ txs'[i] = txs[i] /\ i < Len(txs) + 1 /\ i \in Nat
      /\ \A i \in DOMAIN txs' : \/ i \in DOMAIN txs /\ txs'[i] = txs[i]
                                \/ i = Len(txs) + 1 /\ txs'[i] = Delete
      /\ \E i \in DOMAIN txs' : ~Moves(txs'[i])
      /\ Delete.kind = "delete" /\ ~Moves(Delete) /\ Len(txs) \in Nat
  BY DeleteAppended
<1>4. local'.val = 0
  BY CellFields
<1>5. Carried' \subseteq Carried
  BY <1>1, <1>2, <1>3, <1>4 DEF Carried
<1>6. Down' /\ Ordered' /\ Stamped' /\ Behind' /\ Newest' /\ up
  BY <1>5, CallbackRuns
<1>7. copying = "no"
  BY CallbackTold
<1>8. Queued' /\ Reached' /\ RemovalWaits'
  <2>1. Queued'
    BY <1>1, <1>3 DEF Queued
  <2>2. Reached' /\ RemovalWaits'
    BY <1>1, <1>4, <1>5, Values DEF Reached, RemovalWaits
  <2> QED
    BY <2>1, <2>2
<1>9. Generations'
  <2>1. \A i \in DOMAIN settled' : Moves(settled'[i].tx) /\ Generation(settled[i].tx)'
    BY StillDue
  <2> QED
    BY <1>1, <1>3, <2>1 DEF Generations, Generation
<1>10. Migrating'
  <2>1. \A i \in DOMAIN txs' : txs'[i].kind # "copy"
    BY <1>3, <1>7 DEF Migrating
  <2> QED
    BY <1>7, <2>1, StillDue DEF Migrating
<1>11. "reissue" \notin excused' =>
         landed = 0 /\ idb.val <= forgotten /\ \A i \in DOMAIN txs : Moves(txs[i]) => txs[i].val <= forgotten
  <2> SUFFICES ASSUME ~NewerUnderWay
               PROVE  /\ landed = 0 /\ idb.val <= forgotten
                      /\ \A i \in DOMAIN txs : Moves(txs[i]) => txs[i].val <= forgotten
    OBVIOUS
  <2>1. landed = 0 /\ idb.val <= forgotten
    BY Values DEF NewerUnderWay, Reached
  <2>2. \A i \in DOMAIN txs : txs[i].kind # "copy" /\ txs[i].kind \in {"put", "copy", "delete"} /\ txs[i].val \in Nat
    BY <1>7, TxFields, CellFields DEF Migrating
  <2>3. \A i \in DOMAIN txs : Moves(txs[i]) => txs[i].val <= forgotten
    BY <2>2, Values DEF NewerUnderWay, Moves
  <2> QED
    BY <2>1, <2>3
<1>12. Landing'
  <2> SUFFICES ASSUME excused' \cap {"latch", "reissue"} = {} PROVE DeletesOld' /\ Readable' >= landed'
    BY DEF Landing
  <2>1. /\ landed = 0 /\ idb.val <= forgotten
        /\ \A i \in DOMAIN txs : Moves(txs[i]) => txs[i].val <= forgotten
    BY <1>11
  <2>2. DeletesOld'
    BY <1>1, <1>3, <2>1 DEF DeletesOld
  <2>3. Readable' >= landed'
    BY <1>6, <2>1, ReadsNewestNext
  <2> QED
    BY <2>2, <2>3
<1>13. Removing'
  <2> SUFFICES ASSUME Removed PROVE Removed'
    BY DEF Removing
  <2>1. DeleteDue'
    BY <1>3 DEF DeleteDue
  <2>2. \A i \in DOMAIN settled' : Outdated(settled[i].tx)'
    BY StillDue
  <2>3. \A i \in DOMAIN txs' : Outdated(txs[i])'
    BY <1>1, <1>3 DEF Removed, Outdated, RemovedSince, Moves, RemovalDue
  <2> QED
    BY <1>1, <1>4, <1>6, <2>1, <2>2, <2>3 DEF Removed, New
<1>14. Saving'
  <2> SUFFICES ASSUME excused' = {}, saved # 0 PROVE saved > forgotten /\ OnItsWay'
    BY <1>1 DEF Saving
  <2>1. saved > forgotten /\ OnItsWay
    BY <1>6 DEF Saving
  <2>2. Readable # saved
    BY <1>11, <2>1, Values DEF Reached, Readable
  <2>3. (\E i \in DOMAIN settled :
           settled[i].tx.kind = "put" /\ ~settled[i].ok /\ settled[i].tx.val = saved)
          => \E i \in DOMAIN settled' :
               settled'[i].tx.kind = "put" /\ ~settled'[i].ok /\ settled'[i].tx.val = saved
    BY StillDue
  <2>4. (\E i \in DOMAIN txs : txs[i].kind = "put" /\ txs[i].val = saved)
          => \E i \in DOMAIN txs' : txs'[i].kind = "put" /\ txs'[i].val = saved
    BY <1>3
  <2> QED
    BY <1>1, <2>1, <2>2, <2>3, <2>4 DEF OnItsWay
<1> QED
  BY <1>6, <1>8, <1>9, <1>10, <1>12, <1>13, <1>14

LEMMA WriteCommittedInv == ASSUME Inv, TypeOK', WriteCommitted PROVE Inv'
<1>1. Due("put", TRUE) /\ UNCHANGED <<copying, landed, refused>>
  BY DEF WriteCommitted
<1>2. Head(settled) = settled[1]
  BY <1>1, CallbackTold DEF Inv
<1>3. CASE ~RemovedSince(settled[1].tx)
  BY <1>1, <1>2, <1>3, WriteForgotten DEF WriteCommitted
<1>4. CASE RemovedSince(settled[1].tx)
  BY <1>1, <1>2, <1>4, RemovedAgain DEF WriteCommitted
<1> QED
  BY <1>3, <1>4

\* A failed write that localStorage took.
LEMMA WriteFellBack ==
  ASSUME Inv, TypeOK', Due("put", FALSE), ~RemovedSince(settled[1].tx),
         local' = CellOf(settled[1].tx), Lands(settled[1].tx.val),
         UNCHANGED <<txs, copying, refused>>,
         excused' = excused \cup (IF settled[1].tx.stamp < local.stamp THEN {"latch"} ELSE {})
  PROVE  Inv'
<1> USE DEF Inv, Base
<1> DEFINE tx == settled[1].tx
<1>1. UNCHANGED <<idb, up, waiting, pending, lastStamp, generation, count, saved, forgotten>> /\ settled' = Tail(settled)
  BY DEF Due, stamps
<1>2. \A i \in DOMAIN settled' : \E j \in DOMAIN settled : settled'[i] = settled[j]
  BY CallbackTold
<1>3. /\ tx \in Tx /\ tx.kind = "put" /\ Moves(tx) /\ CellOf(tx) \in Carried
      /\ copying = "no"
  BY CallbackTold
<1>4. CellOf(tx).val = tx.val /\ CellOf(tx).stamp = tx.stamp /\ tx.val \in Nat /\ tx.stamp \in Nat
  BY <1>3, CellFields
<1>5. Carried' \subseteq Carried
  BY <1>1, <1>2, <1>3 DEF Carried
<1>6. Down' /\ Ordered' /\ Stamped' /\ Behind' /\ Newest' /\ up
  BY <1>5, CallbackRuns
<1>7. Queued' /\ Generations' /\ Migrating'
  <2>1. Queued'
    BY <1>1 DEF Queued
  <2>2. \A i \in DOMAIN settled' : Moves(settled'[i].tx) /\ Generation(settled[i].tx)'
    BY StillDue
  <2>3. Generations'
    BY <1>1, <2>2 DEF Generations, Generation
  <2>4. Migrating'
    BY <1>3, StillDue DEF Migrating
  <2> QED
    BY <2>1, <2>3, <2>4
<1>8. /\ landed' \in Nat /\ landed' >= landed /\ (tx.val <= forgotten \/ tx.val <= landed')
      /\ (landed' = landed \/ (landed' = tx.val /\ tx.val > forgotten))
      /\ local'.val = tx.val
  BY <1>4, Values DEF Lands
<1>9. Reached' /\ RemovalWaits'
  <2>1. Reached'
    <3>1. PICK v, w, f, l, n : /\ v = idb.val /\ w = local.val /\ f = forgotten /\ l = landed /\ n = landed'
                               /\ v \in Nat /\ w \in Nat /\ f \in Nat /\ l \in Nat /\ n \in Nat
      BY <1>8, Values
    <3>2. (v <= f \/ v <= l) /\ (l = 0 \/ l > f)
      BY <3>1 DEF Reached
    <3>3. n >= l /\ (tx.val <= f \/ tx.val <= n) /\ (n = l \/ (n = tx.val /\ tx.val > f)) /\ tx.val \in Nat
      BY <1>4, <1>8, <3>1
    <3>4. (v <= f \/ v <= n) /\ (n = 0 \/ n > f)
      BY <3>1, <3>2, <3>3
    <3> QED
      BY <1>1, <1>8, <3>1, <3>3, <3>4 DEF Reached
  <2>2. RemovalDue => tx.val <= forgotten
    BY <1>3, <1>4 DEF RemovalWaits, RemovalDue
  <2>3. RemovalDue => landed' = landed
    BY <1>4, <1>8, <2>2, Values
  <2> QED
    BY <1>1, <1>5, <2>1, <2>3 DEF RemovalWaits, RemovalDue
<1>10. "latch" \notin excused' => local.val <= tx.val
  <2> SUFFICES ASSUME "latch" \notin excused' PROVE local.val <= tx.val
    OBVIOUS
  <2>1. local.stamp <= tx.stamp
    BY <1>4, Values
  <2>2. local.val # 0 => local \in Carried
    BY OnDisk
  <2>3. local.val # 0 => local.val <= tx.val
    BY <1>3, <1>4, <2>1, <2>2 DEF Ordered
  <2> QED
    BY <1>4, <2>3, Values
<1>11. Readable = idb.val \/ Readable = local.val
  BY DEF Readable
<1>12. Landing'
  <2> SUFFICES ASSUME excused' \cap {"latch", "reissue"} = {} PROVE DeletesOld' /\ Readable' >= landed'
    BY DEF Landing
  <2>1. DeletesOld /\ Readable >= landed /\ local.val <= tx.val
    BY <1>10 DEF Landing
  <2>2. DeletesOld'
    BY <1>1, <2>1 DEF DeletesOld
  <2>3. Readable' >= idb.val /\ Readable' >= tx.val /\ Readable' \in Nat
    BY <1>1, <1>6, <1>8, ReadsNewestNext
  <2> QED
    BY <1>4, <1>8, <1>11, <2>1, <2>2, <2>3, Values
<1>13. Removing'
  <2> SUFFICES ASSUME Removed PROVE Removed'
    BY DEF Removing
  <2>1. Outdated(tx)
    BY <1>3, CallbackTold DEF Removed
  <2>2. tx.val > forgotten
    BY <1>3, <1>4, <2>1, Values DEF Outdated
  <2>3. \A i \in DOMAIN settled' : Outdated(settled[i].tx)'
    BY StillDue
  <2>4. \A i \in DOMAIN txs' : Outdated(txs[i])'
    BY <1>1 DEF Removed, Outdated, RemovedSince, Moves, RemovalDue
  <2>5. local'.val > forgotten'
    BY <1>1, <1>8, <2>2
  <2> QED
    BY <1>1, <1>6, <2>3, <2>4, <2>5 DEF Removed, New
<1>14. Saving'
  <2> SUFFICES ASSUME excused' = {}, saved # 0 PROVE saved > forgotten /\ OnItsWay'
    BY <1>1 DEF Saving
  <2>1. saved > forgotten /\ OnItsWay /\ local.val <= tx.val
    BY <1>6, <1>10 DEF Saving
  <2>2. CASE tx.val = saved \/ Readable = saved
    <3>1. saved' # 0 /\ (saved' <= idb'.val \/ saved' <= local'.val)
      <4>1. saved \in Nat /\ saved' = saved /\ idb' = idb /\ tx.val \in Nat /\ local'.val = tx.val
        BY <1>1, <1>4, <1>8, Values
      <4>2. Readable = saved => saved = idb.val \/ saved <= tx.val
        BY <1>11, <2>1
      <4> QED
        BY <2>2, <4>1, <4>2, Values
    <3>2. Readable' = saved'
      BY <1>6, <3>1, ReadsWanted
    <3> QED
      BY <2>1, <3>2 DEF OnItsWay
  <2>3. CASE ~(tx.val = saved \/ Readable = saved)
    <3>1. (\E i \in DOMAIN settled :
             settled[i].tx.kind = "put" /\ ~settled[i].ok /\ settled[i].tx.val = saved)
            => \E i \in DOMAIN settled' :
                 settled'[i].tx.kind = "put" /\ ~settled'[i].ok /\ settled'[i].tx.val = saved
      BY <2>3, StillDue
    <3> QED
      BY <1>1, <2>1, <2>3, <3>1 DEF OnItsWay
  <2> QED
    BY <2>2, <2>3
<1> QED
  BY <1>6, <1>7, <1>9, <1>12, <1>13, <1>14

LEMMA WriteFailedInv == ASSUME Inv, TypeOK', WriteFailed PROVE Inv'
<1> DEFINE tx == settled[1].tx
<1>1. Due("put", FALSE) /\ UNCHANGED <<txs, copying>> /\ Head(settled) = settled[1]
  BY CallbackTold DEF WriteFailed, Inv
<1>2. \/ RemovedSince(tx) /\ UNCHANGED <<local, landed, refused, excused>>
      \/ ~RemovedSince(tx) /\ WriteThrough(tx.val, tx.stamp)
  BY <1>1 DEF WriteFailed, FallBack
<1>3. CASE UNCHANGED <<local, landed, excused>> /\ refused \subseteq refused'
           /\ (RemovedSince(tx) \/ tx.val \in refused')
  BY <1>1, <1>3, WriteForgotten
<1>4. CASE /\ ~RemovedSince(tx) /\ local' = CellOf(tx) /\ Lands(tx.val) /\ UNCHANGED refused
           /\ excused' = excused \cup (IF tx.stamp < local.stamp THEN {"latch"} ELSE {})
  BY <1>1, <1>4, WriteFellBack
<1>5. WriteThrough(tx.val, tx.stamp) =>
        \/ /\ local' = CellOf(tx) /\ Lands(tx.val) /\ UNCHANGED refused
           /\ excused' = excused \cup (IF tx.stamp < local.stamp THEN {"latch"} ELSE {})
        \/ UNCHANGED <<local, landed, excused>> /\ refused' = refused \cup {tx.val}
  BY DEF WriteThrough, CellOf
<1> QED
  BY <1>2, <1>3, <1>4, <1>5

\* A migration settles: the source goes only where its copy is in IndexedDB.
LEMMA CopySettles ==
  ASSUME Inv, TypeOK', NEW ok, Due("copy", ok), copying' = "no",
         UNCHANGED <<txs, landed, refused, excused>>,
         local' = local \/ (local' = Empty /\ local = idb)
  PROVE  Inv'
<1> USE DEF Inv, Base
<1>1. UNCHANGED <<idb, up, waiting, pending, lastStamp, generation, count, saved, forgotten>>
  BY DEF Due, stamps
<1>2. /\ txs = <<>> /\ txs' = <<>> /\ settled' = <<>>
      /\ \A i \in DOMAIN settled : settled[i].tx.kind = "copy"
  BY CallbackTold
<1>3. local'.val = local.val \/ (local'.val = 0 /\ local.val = idb.val)
  BY CellFields
<1>4. Readable' = Readable
  BY <1>1, <1>3, Values DEF Readable, LocalWins, LocalIsNewer
<1>5. Carried' \subseteq Carried
  BY <1>1, <1>2, CellFields DEF Carried
<1>6. Down' /\ Ordered' /\ Stamped' /\ Behind' /\ Newest' /\ up
  BY <1>5, CallbackRuns
<1>7. Queued' /\ Generations' /\ Migrating'
  BY <1>2 DEF Queued, Generations, Migrating
<1>8. Reached' /\ RemovalWaits'
  BY <1>1, <1>3, <1>5, Values DEF Reached, RemovalWaits
<1>9. Landing'
  BY <1>2, <1>4 DEF Landing, DeletesOld
<1>10. Removing'
  <2> SUFFICES ASSUME Removed PROVE Removed'
    BY DEF Removing
  <2>1. DeleteDue => RemovalDue'
    BY <1>1, <1>2 DEF DeleteDue, RemovalDue
  <2>2. (New(idb.val) \/ local.val > forgotten \/ DeleteDue)'
    BY <1>1, <1>3, <2>1 DEF Removed, New, DeleteDue
  <2>3. New(local.val)'
    BY <1>1, <1>3 DEF Removed, New
  <2> QED
    BY <1>1, <1>2, <1>6, <2>2, <2>3 DEF Removed, New
<1>11. Saving'
  <2> SUFFICES ASSUME excused = {}, saved # 0 PROVE saved > forgotten /\ OnItsWay'
    BY <1>1 DEF Saving
  <2>1. saved > forgotten /\ OnItsWay
    BY <1>6 DEF Saving
  <2>2. saved \in refused \/ saved = pending \/ (\E i \in DOMAIN waiting : waiting[i] = saved)
        \/ Readable = saved
    BY <1>2, <2>1 DEF OnItsWay
  <2> QED
    BY <1>1, <1>4, <2>1, <2>2 DEF OnItsWay
<1> QED
  BY <1>6, <1>7, <1>8, <1>9, <1>10, <1>11

LEMMA CopyCommittedInv == ASSUME Inv, TypeOK', CopyCommitted PROVE Inv'
<1>1. Due("copy", TRUE) /\ copying' = "no" /\ UNCHANGED <<txs, landed, refused, excused>>
  BY DEF CopyCommitted
<1>2. /\ settled[1].ok /\ copying \in {"copying", "cancelled"} /\ Len(settled) = 1
      /\ txs = <<>>
  <2>1. copying \in {"no", "copying", "cancelled"}
    BY TypeParts DEF Inv, TypedPage
  <2>2. settled[1].ok = TRUE /\ copying # "no" /\ Len(settled) = 1 /\ txs = <<>>
    BY <1>1, CallbackTold DEF Inv
  <2> QED
    BY <2>1, <2>2
<1>3. copying = "copying" => local = idb
  BY <1>2 DEF Inv, Base, Migrating
<1>4. local' = local \/ (local' = Empty /\ local = idb)
  BY <1>2, <1>3 DEF CopyCommitted
<1> QED
  BY <1>1, <1>4, CopySettles

LEMMA CopyFailedInv == ASSUME Inv, TypeOK', CopyFailed PROVE Inv'
  BY CopySettles DEF CopyFailed, CopySettled

-----------------------------------------------------------------------------
(* Probes, loads and reloads *)

\* A step that leaves everything the invariant speaks of.
LEMMA NothingMoves ==
  ASSUME Inv, TypeOK',
         UNCHANGED <<idb, local, up, pending, txs, settled, copying, waiting, lastStamp,
                     generation, count, saved, forgotten, landed, refused, excused>>
  PROVE  Inv'
<1> USE DEF Inv
<1>1. Carried' = Carried /\ Readable' = Readable
  BY DEF Carried, Readable, LocalWins, LocalIsNewer
<1>2. Base'
  BY <1>1 DEF Base, Down, Ordered, Stamped, Behind, Queued, Generations, Generation, Migrating,
              Reached, RemovalWaits
<1>3. Landing' /\ Newest' /\ Saving'
  BY <1>1 DEF Landing, DeletesOld, Newest, Wanted, Saving, OnItsWay
<1>4. Removing'
  BY <1>1 DEF Removing, Removed, New, Outdated, RemovedSince, RemovalDue, DeleteDue, Moves
<1> QED
  BY <1>2, <1>3, <1>4

LEMMA ProbedInv == ASSUME Inv, TypeOK', Probed PROVE Inv'
  BY NothingMoves DEF Probed, ProbeFails, ProbeSucceeds, stores, stamps, ghosts, bounds

CopyTx == [kind |-> "copy", val |-> local.val, stamp |-> local.stamp, gen |-> 0]

LEMMA CopyFields ==
  ASSUME TypeOK
  PROVE  /\ CopyTx.kind = "copy" /\ CopyTx.val = local.val /\ CopyTx.gen = 0 /\ Moves(CopyTx)
         /\ CellOf(CopyTx) = local
<1>1. local.val \in Nat /\ local.stamp \in Nat /\ local \in Cell
  BY Values
<1>2. CopyTx.kind = "copy" /\ CopyTx.val = local.val /\ CopyTx.stamp = local.stamp /\ CopyTx.gen = 0
  BY DEF CopyTx
<1>3. CellOf(CopyTx) = local
  BY <1>1, <1>2 DEF CellOf, Cell
<1> QED
  BY <1>2, <1>3 DEF Moves

LEMMA LoadInv == ASSUME Inv, TypeOK', Load PROVE Inv'
<1> USE DEF Inv, Base
<1>1. /\ ~up /\ up' /\ saved' = Readable /\ lastStamp' = StampFloor
      /\ UNCHANGED <<idb, pending, settled, waiting, generation, count, forgotten, landed, refused,
                     excused>>
  BY DEF Load
<1>2. pending = 0 /\ txs = <<>> /\ settled = <<>> /\ waiting = <<>> /\ copying = "no" /\ generation = 0
  BY <1>1 DEF Down
<1>3. \/ LocalWins /\ UNCHANGED <<local, txs, copying>>
      \/ LocalWins /\ UNCHANGED local /\ txs' = <<CopyTx>> /\ copying' = "copying"
      \/ ~LocalWins /\ local' = Empty /\ UNCHANGED <<txs, copying>>
  BY DEF Load, StartMigration, CopyTx
<1>4. /\ CopyTx.kind = "copy" /\ CopyTx.val = local.val /\ CopyTx.gen = 0 /\ Moves(CopyTx)
      /\ CellOf(CopyTx) = local
  BY CopyFields
<1>5. \A i \in DOMAIN txs' : i = 1 /\ txs'[i] = CopyTx /\ LocalWins
  BY <1>2, <1>3
<1>6. \/ local' = local /\ local'.val = local.val
      \/ ~LocalWins /\ local'.val = 0
  BY <1>3, CellFields
<1>7. LocalWins => local.val # 0
  BY DEF LocalWins
<1>8. Readable' = Readable
  BY <1>1, <1>3, <1>6 DEF Readable, LocalWins, LocalIsNewer
<1>9. \A c \in Carried' : c \in Carried /\ c \in {idb, local}
  <2>1. \A c \in Carried' : (c \in {idb', local'} /\ c.val # 0) \/ (c = local /\ LocalWins)
    <3>1. settled' = <<>> /\ \A i \in DOMAIN txs' : CellOf(txs'[i]) = local /\ LocalWins
      BY <1>1, <1>2, <1>4, <1>5
    <3> QED
      BY <3>1 DEF Carried
  <2>2. \A c \in Carried' : c \in {idb, local} /\ c.val # 0
    BY <1>1, <1>6, <1>7, <2>1
  <2> QED
    BY <2>2 DEF Carried
<1>10. Down' /\ Ordered' /\ Stamped' /\ Behind'
  <2>1. Ordered'
    BY <1>9, FewerCarried
  <2>2. Stamped'
    <3>1. \A c \in Carried' : c.stamp <= StampFloor
      BY <1>9, Floor
    <3> QED
      BY <1>1, <3>1 DEF Stamped
  <2>3. Behind'
    BY <1>1, <1>2, <1>9 DEF Behind
  <2> QED
    BY <1>1, <2>1, <2>2, <2>3 DEF Down
<1>11. Queued'
  <2>1. LocalWins => idb.val <= local.val
    <3>1. LocalWins => local \in Carried /\ (idb.val = 0 \/ (idb \in Carried /\ idb.stamp <= local.stamp))
      BY OnDisk, Values DEF LocalWins, LocalIsNewer
    <3> QED
      BY <3>1, Values DEF Ordered
  <2> QED
    BY <1>1, <1>4, <1>5, <2>1 DEF Queued
<1>12. Generations'
  BY <1>1, <1>2, <1>4, <1>5 DEF Generations, Generation
<1>13. Migrating'
  <2>1. CASE UNCHANGED <<txs, copying>>
    BY <1>1, <1>2, <2>1 DEF Migrating
  <2>2. CASE UNCHANGED local /\ txs' = <<CopyTx>> /\ copying' = "copying"
    <3>1. Len(txs') = 1 /\ settled' = <<>> /\ txs'[1] = CopyTx
      BY <1>1, <1>2, <2>2
    <3> QED
      BY <1>4, <2>2, <3>1 DEF Migrating
  <2> QED
    BY <1>3, <2>1, <2>2
<1>14. Reached' /\ RemovalWaits'
  BY <1>1, <1>2, <1>6, Values DEF Reached, RemovalWaits
<1>15. Landing'
  BY <1>1, <1>4, <1>5, <1>8 DEF Landing, DeletesOld
<1>16. Removing'
  <2> SUFFICES ASSUME Removed PROVE Removed'
    BY <1>1 DEF Removing
  <2>1. New(local.val)' /\ New(Readable)' /\ ~DeleteDue
    BY <1>1, <1>2, <1>6, <1>8 DEF Removed, New, DeleteDue, RemovalDue
  <2>2. \A i \in DOMAIN txs' : txs'[i].val > forgotten
    BY <1>4, <1>5, <1>7 DEF Removed, New
  <2>3. \A i \in DOMAIN txs' : Outdated(txs[i])'
    BY <1>1, <1>4, <1>5, <2>2, Values DEF Outdated
  <2>4. New(idb.val)' \/ local'.val > forgotten'
    <3>1. CASE local' = local
      BY <1>1, <2>1, <3>1 DEF Removed, New
    <3>2. CASE ~LocalWins
      BY <1>1, <1>8, <2>1, <3>2 DEF New, Readable
    <3> QED
      BY <1>6, <3>1, <3>2
  <2> QED
    BY <1>1, <1>2, <2>1, <2>3, <2>4 DEF Removed
<1>17. Newest'
  <2>1. Readable >= idb.val /\ Readable >= local.val
    BY ReadsNewest
  <2>2. \A c \in Carried' : c.val <= saved'
    BY <1>1, <1>9, <2>1, Values
  <2> QED
    BY <1>1, <1>2, <2>2 DEF Newest, Wanted
<1>18. Saving'
  <2> SUFFICES ASSUME excused = {}, saved' # 0 PROVE saved' > forgotten /\ OnItsWay'
    BY <1>1 DEF Saving
  <2>1. New(Readable)
    BY <1>1 DEF Removing, Removed
  <2>2. saved' > forgotten
    BY <1>1, <2>1 DEF New
  <2>3. Readable' = saved'
    BY <1>1, <1>8
  <2> QED
    BY <2>2, <2>3 DEF OnItsWay
<1> QED
  BY <1>10, <1>11, <1>12, <1>13, <1>14, <1>15, <1>16, <1>17, <1>18

LEMMA ReloadInv == ASSUME Inv, TypeOK', Reload PROVE Inv'
<1> USE DEF Inv, Base
<1>1. /\ ~up' /\ pending' = 0 /\ txs' = <<>> /\ settled' = <<>> /\ copying' = "no" /\ waiting' = <<>>
      /\ generation' = 0
      /\ UNCHANGED <<idb, local, count, saved, forgotten, landed, refused>>
      /\ excused' = excused \cup
           (IF Readable # 0 /\ Readable <= forgotten THEN {"undeleted"} ELSE {})
  BY DEF Reload, stores
<1>2. Carried' \subseteq Carried
  BY <1>1 DEF Carried
<1>3. Readable' = Readable
  BY <1>1 DEF Readable, LocalWins, LocalIsNewer
<1>4. Down' /\ Ordered' /\ Stamped' /\ Behind'
  <2>1. Ordered'
    BY <1>2, FewerCarried
  <2>2. Behind'
    BY <1>1, <1>2 DEF Behind
  <2> QED
    BY <1>1, <2>1, <2>2 DEF Down, Stamped
<1>5. Queued' /\ Generations' /\ Migrating' /\ Reached' /\ RemovalWaits'
  BY <1>1 DEF Queued, Generations, Migrating, Reached, RemovalWaits
<1>6. Landing'
  BY <1>1, <1>3 DEF Landing, DeletesOld
<1>7. Removing'
  <2> SUFFICES ASSUME excused' \cap {"undeleted", "waited"} = {} PROVE Removed'
    BY DEF Removing
  <2>1. Removed /\ New(Readable)
    <3>1. ~(Readable # 0 /\ Readable <= forgotten)
      BY <1>1
    <3>2. New(Readable)
      BY <3>1, OnDisk, Values DEF New
    <3> QED
      BY <1>1, <3>2 DEF Removing
  <2>2. New(idb.val) \/ local.val > forgotten
    BY <2>1 DEF New, Readable, LocalWins
  <2> QED
    BY <1>1, <1>3, <2>1, <2>2 DEF Removed, New
<1>8. Newest' /\ Saving'
  BY <1>1, <1>2 DEF Newest, Wanted, Saving
<1> QED
  BY <1>4, <1>5, <1>6, <1>7, <1>8

-----------------------------------------------------------------------------
(* The theorems *)

LEMMA InvStep == ASSUME Inv, [Next]_vars, ~LoadUnread PROVE Inv'
<1>1. TypeOK'
  BY TypeStep DEF Inv
<1>2. CASE UNCHANGED vars
  BY <1>1, <1>2, NothingMoves DEF vars
<1>3. CASE Settle
  BY <1>1, <1>3, WriteCommittedInv, WriteFailedInv, CopyCommittedInv, CopyFailedInv DEF Settle
<1> QED
  BY <1>1, <1>2, <1>3, SetItemInv, FlushInv, RemoveItemInv, RunWaitingInv, CommitInv, AbortInv,
     ProbedInv, LoadInv, ReloadInv DEF Next

\* A page that has not read IndexedDB is never forgotten.
LEMMA Unread == ASSUME [Next]_vars, ReadBoth' PROVE ReadBoth /\ ~LoadUnread
<1>1. CASE Settle
  BY <1>1
     DEF Settle, WriteCommitted, WriteFailed, CopyCommitted, CopyFailed, FallBack, WriteThrough,
         ReadBoth, LoadUnread
<1>2. CASE SetItem \/ Flush \/ RemoveItem \/ RunWaiting
  BY <1>2
     DEF SetItem, Flush, RemoveItem, RunWaiting, StartWrite, WriteThrough, ReadBoth, LoadUnread
<1>3. CASE Commit \/ Abort \/ Probed
  BY <1>3 DEF Commit, Abort, Probed, ProbeFails, ProbeSucceeds, ghosts, ReadBoth, LoadUnread
<1>4. CASE Load \/ Reload \/ LoadUnread
  BY <1>4 DEF Load, Reload, LoadUnread, ReadBoth
<1>5. CASE UNCHANGED vars
  BY <1>5 DEF vars, ReadBoth, LoadUnread
<1> QED
  BY <1>1, <1>2, <1>3, <1>4, <1>5 DEF Next

LEMMA Invariant == Spec => []ReadBothInv
<1>1. Init => ReadBothInv
  BY InitInv DEF ReadBothInv, Inv
<1>2. ReadBothInv /\ [Next]_vars => ReadBothInv'
  <2> SUFFICES ASSUME ReadBothInv, [Next]_vars PROVE ReadBothInv'
    OBVIOUS
  <2>1. TypeOK'
    BY TypeStep DEF ReadBothInv
  <2>2. ASSUME ReadBoth' PROVE Inv'
    <3>1. ReadBoth /\ ~LoadUnread
      BY <2>2, Unread
    <3> QED
      BY <3>1, InvStep DEF ReadBothInv
  <2> QED
    BY <2>1, <2>2 DEF ReadBothInv
<1> QED
  BY <1>1, <1>2, PTL DEF Spec

(* The stores and the queues of a page hold what IndexedDB, localStorage    *)
(* and the wrapper's variables can hold, whatever the order of the calls,   *)
(* the faults and the reloads (scanPersistStorage.ts).                      *)
THEOREM TypeCorrect == Spec => []TypeOK
<1>1. ReadBothInv => TypeOK
  BY DEF ReadBothInv
<1> QED
  BY <1>1, Invariant, PTL

(* A blob that reached a store is what the next page reads, or a newer one  *)
(* is: readNewestPersistedRaw picks by stamp, and the stamps of every blob  *)
(* in a store, in a transaction or in a callback due keep the blobs' order, *)
(* across pages too, as getItem starts a page's stamps above both stores.   *)
(* Excepted is what the latch, the second removeItem and a page that could  *)
(* not read IndexedDB are known to cost.                                    *)
THEOREM LandedBlobsStand == Spec => []LandedStandsUnless
<1>1. ReadBothInv => LandedStandsUnless
  BY DEF ReadBothInv, ReadBoth, Inv, Landing, LandedStandsUnless
<1> QED
  BY <1>1, Invariant, PTL

(* When nothing is under way the next page reads the blob this page wants   *)
(* kept, or both stores refused it: a write that is pending, waits for the  *)
(* migration, is in IndexedDB's queue or has failed and is about to fall    *)
(* back (writeBlob, scheduleWrite) is never dropped on the way.             *)
THEOREM WantedIsKept == Spec => []SavedIsKept
<1>1. ReadBothInv => SavedIsKept
  <2> SUFFICES ASSUME Inv, Quiet, excused = {} PROVE Readable = saved \/ saved \in refused
    BY DEF SavedIsKept, ReadBothInv, ReadBoth
  <2>1. CASE saved # 0
    <3>1. OnItsWay
      BY <2>1 DEF Inv, Saving, Quiet
    <3>2. saved # pending
      BY <2>1 DEF Quiet
    <3> QED
      BY <3>1, <3>2 DEF OnItsWay, Quiet
  <2>2. CASE saved = 0
    <3>1. Removed
      BY DEF Inv, Removing
    <3>2. Readable # 0 => \E c \in Carried : c.val = Readable
      BY OnDisk DEF Inv
    <3>3. Readable # 0 => Readable <= forgotten
      BY <2>2, <3>2, OnDisk, Values DEF Inv, Newest, Wanted
    <3>4. New(idb.val) \/ local.val > forgotten
      BY <3>1 DEF Removed, DeleteDue, RemovalDue, Quiet
    <3>5. Readable >= idb.val /\ Readable >= local.val /\ Readable \in Nat
      BY ReadsNewest, OnDisk DEF Inv, Base
    <3>6. New(local.val) /\ (Readable = idb.val \/ Readable = local.val)
      BY <3>1 DEF Removed, Readable
    <3>7. Readable = 0
      BY <3>3, <3>4, <3>5, <3>6, Values DEF Inv, New
    <3> QED
      BY <2>2, <3>7
  <2> QED
    BY <2>1, <2>2
<1> QED
  BY <1>1, Invariant, PTL

(* When nothing is under way no removed blob is read: removeItem's delete   *)
(* stands behind every older transaction, a write that was in flight is     *)
(* told by its generation and removed again, and a failed one does not fall *)
(* back.  Excepted is a delete that is lost, and a write that waits; and    *)
(* shown as long as every page has read both stores.                        *)
THEOREM RemovedIsGone == Spec => [](ReadBoth => RemovedStaysRemoved)
<1>1. ReadBothInv => (ReadBoth => RemovedStaysRemoved)
  <2> SUFFICES ASSUME Inv, Quiet, excused \cap {"undeleted", "waited"} = {}
               PROVE  Readable = 0 \/ Readable > forgotten
    BY DEF RemovedStaysRemoved, ReadBothInv
  <2>1. Removed
    BY DEF Inv, Removing
  <2>2. New(idb.val) \/ local.val > forgotten
    BY <2>1 DEF Removed, DeleteDue, RemovalDue, Quiet
  <2>3. Readable >= local.val /\ Readable \in Nat
    BY ReadsNewest, OnDisk DEF Inv, Base
  <2>4. New(local.val) /\ (Readable = idb.val \/ Readable = local.val)
    BY <2>1 DEF Removed, Readable
  <2> QED
    BY <2>2, <2>3, <2>4, Values DEF Inv, New
<1> QED
  BY <1>1, Invariant, PTL
=============================================================================
