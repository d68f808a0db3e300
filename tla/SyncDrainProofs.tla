-------------------------- MODULE SyncDrainProofs ---------------------------
(***************************************************************************)
(* First what the queue counts: the server never sees an event twice, and  *)
(* the drain implements the ledger.  Then its other promises, each with    *)
(* the invariant it needs: what has left the queue stays out of it, the    *)
(* ledger of synced ids is complete and honest, the newest decision on a   *)
(* review stands on the server, and the product lane keeps to its ceiling. *)
(***************************************************************************)
EXTENDS SyncDrain, TLAPS, FiniteSetTheorems

USE DEF Marks, Waiting, Got, Fresh, Statuses, Queued

\* The events that touch the business and the local state at once.
SetContext == \E t \in Tenants : SetBusinessContext(t)
Wipes == ClearLocalCache \/ ClearSession \/ SignOut

LEMMA InitType == Init => TypeOK
<1> SUFFICES ASSUME Init PROVE TypeOK
  OBVIOUS
<1>1. ServerTypeOK
  BY DEF Init, ServerInit, ServerTypeOK
<1>2. /\ made \in Nat /\ recorded \subseteq Items /\ queue \in [Items -> Statuses]
      /\ synced \subseteq Events /\ dropped \subseteq Events /\ saved \in Snapshots
  BY DEF Init, NoItem, Snapshots, Blank
<1>3. att \in [Passes -> [Items -> Marks]]
  BY DEF Init, NoWork
<1> QED
  BY <1>1, <1>2, <1>3, NoneAssumption, OwnersAssumption DEF Init, TypeOK

LEMMA ItemFields ==
  ASSUME NEW i \in Items
  PROVE  /\ Item[i].entity \in Entities /\ Item[i].key \in Keys
         /\ Item[i].delta \in Int
         /\ IsIncrement(i) => Item[i].event \in Events
  BY ItemAssumption, EventAssumption DEF ItemType, IsIncrement

LEMMA TransactType == ASSUME TypeOK, NEW i \in Items, Transact(i) PROVE ServerTypeOK'
<1>1. CASE Unclaimed(i) /\ Increment(i)
  <2>1. marker' \in [Keys -> Items \cup {None}]
    BY <1>1, ItemFields DEF TypeOK, ServerTypeOK, Transact, serverVars
  <2>2. counted' \subseteq Items
    BY <1>1 DEF TypeOK, ServerTypeOK, Increment
  <2>3. qty' \in [Entities -> Int]
    BY <1>1, ItemFields DEF TypeOK, ServerTypeOK, Increment
  <2> QED
    BY <1>1, <2>1, <2>2, <2>3 DEF TypeOK, ServerTypeOK, Increment
<1>2. CASE Unclaimed(i) /\ SetDocument(i)
  BY <1>2, ItemFields DEF TypeOK, ServerTypeOK, Transact, SetDocument, serverVars
<1>3. CASE UNCHANGED serverVars
  BY <1>3 DEF TypeOK, ServerTypeOK, serverVars
<1> QED
  BY <1>1, <1>2, <1>3 DEF Transact

\* What the user does, and what a load that ends does.
LEMMA UserType == ASSUME TypeOK, NEW p \in Passes, User(p) PROVE TypeOK'
<1> USE DEF TypeOK, ServerTypeOK, SyncPending, local, chain, work, net, serverVars
<1>1. ASSUME NEW i \in Items, Enqueue(i, p) \/ StartSession(i, p) PROVE TypeOK'
  <2>1. synced' \subseteq Events /\ dropped' \subseteq Events
    BY <1>1 DEF Enqueue, StartSession, ForgetSynced
  <2>2. EnqueueAndSync(i, p)
    BY <1>1 DEF Enqueue, StartSession
  <2> QED
    BY <2>1, <2>2, ItemsAssumption DEF EnqueueAndSync
<1>2. CASE RetrySync(p)
  BY <1>2 DEF RetrySync
<1>3. CASE GoOnline(p)
  BY <1>3 DEF GoOnline
<1>4. CASE BusinessLoaded(p)
  BY <1>4 DEF BusinessLoaded
<1> QED
  BY <1>1, <1>2, <1>3, <1>4 DEF User

LEMMA FlushType ==
  ASSUME TypeOK, NEW p \in Passes, NEW row \in [Items -> Marks], NEW events \in SUBSET Events,
         FlushProgress(p, row, events)
  PROVE  /\ queue' \in [Items -> Statuses] /\ synced' \subseteq Events
         /\ AfterFlush(row) \in [Items -> Marks]
  BY DEF TypeOK, FlushProgress, AfterFlush

LEMMA ProcType == ASSUME TypeOK, NEW p \in Passes, NEW i \in Items, Process(p, i) PROVE TypeOK'
<1> DEFINE row == [att[p] EXCEPT ![i] = Outcome(att[p][i])]
           events == acc[p] \cup (IF row[i] = "ok" THEN Ids(i) ELSE {})
<1>1. row \in [Items -> Marks] /\ events \in SUBSET Events
  <2>1. Outcome(att[p][i]) \in Fresh
    BY DEF Process, Outcome
  <2>2. att[p] \in [Items -> Marks] /\ acc[p] \in SUBSET Events
    BY DEF TypeOK
  <2>3. row \in [Items -> Marks]
    BY <2>1, <2>2
  <2>4. Ids(i) \subseteq Events
    BY DEF Ids
  <2>5. events \in SUBSET Events
    BY <2>2, <2>4
  <2> QED
    BY <2>3, <2>5
<1>2. /\ acc' = [acc EXCEPT ![p] = events]
      /\ latch' = (IF row[i] = "ok" /\ latch = "stale" THEN "fresh" ELSE latch)
      /\ \/ FlushProgress(p, row, events) /\ att' = [att EXCEPT ![p] = AfterFlush(row)]
         \/ att' = [att EXCEPT ![p] = row] /\ UNCHANGED <<queue, synced>>
  BY DEF Process
<1> HIDE DEF row, events
<1>3. /\ queue' \in [Items -> Statuses] /\ synced' \subseteq Events
      /\ att' \in [Passes -> [Items -> Marks]] /\ acc' \in [Passes -> SUBSET Events]
      /\ latch' \in {"null", "fresh", "stale"}
  <2>1. CASE FlushProgress(p, row, events) /\ att' = [att EXCEPT ![p] = AfterFlush(row)]
    <3>1. /\ queue' \in [Items -> Statuses] /\ synced' \subseteq Events
          /\ AfterFlush(row) \in [Items -> Marks]
      BY <1>1, <2>1, FlushType
    <3> QED
      BY <1>1, <1>2, <2>1, <3>1 DEF TypeOK
  <2>2. CASE att' = [att EXCEPT ![p] = row] /\ UNCHANGED <<queue, synced>>
    BY <1>1, <1>2, <2>2 DEF TypeOK
  <2> QED
    BY <1>2, <2>1, <2>2
<1> QED
  BY <1>3 DEF TypeOK, ServerTypeOK, Process, net, serverVars

\* The steps of a pass.
LEMMA PassType == ASSUME TypeOK, NEW p \in Passes, PassStep(p) PROVE TypeOK'
<1>1. CASE StartPass(p)
  BY <1>1 DEF TypeOK, ServerTypeOK, StartPass, local, net, serverVars
<1>2. CASE SkipPass(p)
  BY <1>2 DEF TypeOK, ServerTypeOK, SkipPass, Release, local, work, net, serverVars
<1>3. CASE FinishPass(p)
  BY <1>3 DEF TypeOK, ServerTypeOK, FinishPass, FlushProgress, Release, NoWork, net, serverVars
<1>4. ASSUME NEW i \in Items,
             OpenProduct(p, i) \/ Join(p, i) \/ Sleep(p, i) \/ StopWaiting(p, i)
      PROVE  TypeOK'
  <2>1. PICK m \in Marks : att' = [att EXCEPT ![p][i] = m]
    <3>1. CASE OpenProduct(p, i)
      BY <3>1 DEF OpenProduct
    <3>2. CASE Join(p, i)
      BY <3>2 DEF Join
    <3>3. CASE Sleep(p, i)
      BY <3>3 DEF Sleep
    <3>4. CASE StopWaiting(p, i)
      BY <3>4 DEF StopWaiting
    <3> QED
      BY <1>4, <3>1, <3>2, <3>3, <3>4
  <2>2. UNCHANGED <<local, chain, ctx, acc, net, serverVars>>
    BY <1>4 DEF OpenProduct, Join, Sleep, StopWaiting
  <2>3. att' \in [Passes -> [Items -> Marks]]
    BY <2>1 DEF TypeOK
  <2> QED
    BY <2>2, <2>3 DEF TypeOK, ServerTypeOK, local, chain, net, serverVars
<1>5. ASSUME NEW i \in Items, Own(p, i) \/ SendSerial(p, i) PROVE TypeOK'
  <2>1. wire' \subseteq Items \X (Passes \cup {Lane, Orphan})
    <3>1. PICK by \in Passes \cup {Lane} : wire' = wire \cup {<<i, by>>}
      BY <1>5 DEF Own, SendSerial
    <3> QED
      BY <3>1 DEF TypeOK
  <2>2. att' = [att EXCEPT ![p][i] = "sent"] /\ (phys' = phys \/ phys' = [phys EXCEPT ![i] = "open"])
    BY <1>5 DEF Own, SendSerial
  <2>3. att' \in [Passes -> [Items -> Marks]] /\ phys' \in [Items -> {"none", "open", "timedout"}]
    BY <2>2 DEF TypeOK
  <2> QED
    BY <1>5, <2>1, <2>3 DEF TypeOK, ServerTypeOK, Own, SendSerial, local, chain, serverVars
<1>6. ASSUME NEW i \in Items, Process(p, i) PROVE TypeOK'
  BY <1>6, ProcType
<1> QED
  BY <1>1, <1>2, <1>3, <1>4, <1>5, <1>6 DEF PassStep

\* Answers of the network.
LEMMA SettleType ==
  ASSUME TypeOK, NEW w \in wire, NEW got \in Got, ServerTypeOK', SettleWith(w[1], w[2], got)
  PROVE  TypeOK'
  BY DEF TypeOK, SettleWith, local, chain

LEMMA NetworkType == ASSUME TypeOK, Network PROVE TypeOK'
<1> PICK w \in wire : Commit(w[1], w[2]) \/ CommitUnacked(w[1], w[2])
                        \/ Fail(w[1], w[2]) \/ Deny(w[1], w[2])
  BY DEF Network
<1>0. w[1] \in Items
  BY DEF TypeOK
<1>1. CASE Commit(w[1], w[2])
  BY <1>0, <1>1, SettleType, TransactType DEF Commit, Verdict
<1>2. CASE CommitUnacked(w[1], w[2])
  <2>1. ServerTypeOK'
    BY <1>0, <1>2, TransactType DEF CommitUnacked
  <2> QED
    BY <1>2, <2>1 DEF TypeOK, CommitUnacked, local, chain, work, net
<1>3. CASE Fail(w[1], w[2]) \/ Deny(w[1], w[2])
  <2>1. ServerTypeOK'
    BY <1>3 DEF TypeOK, ServerTypeOK, Fail, Deny, serverVars
  <2> QED
    BY <1>3, <2>1, SettleType DEF Fail, Deny
<1> QED
  BY <1>1, <1>2, <1>3

LEMMA TimerType == ASSUME TypeOK, Timer PROVE TypeOK'
<1>1. CASE Stall
  BY <1>1 DEF TypeOK, ServerTypeOK, Stall, local, work, net, serverVars
<1>2. ASSUME NEW i \in Items, LaneTimeout(i) PROVE TypeOK'
  BY <1>2 DEF TypeOK, ServerTypeOK, LaneTimeout, local, chain, serverVars
<1>3. ASSUME NEW i \in Items, NEW p \in Passes, AttemptTimeout(p, i) PROVE TypeOK'
  BY <1>3 DEF TypeOK, ServerTypeOK, AttemptTimeout, local, chain, serverVars
<1> QED
  BY <1>1, <1>2, <1>3 DEF Timer

\* What is stored of the ledger is part of it.
LEMMA KeptPart == ASSUME NEW ids, NEW kept \in KeptIds(ids) PROVE kept \subseteq ids
  BY DEF KeptIds

LEMMA DeviceType ==
  ASSUME TypeOK, GoOffline \/ SetContext \/ Persist \/ Wipes PROVE TypeOK'
<1>1. CASE GoOffline \/ SetContext
  BY <1>1 DEF TypeOK, ServerTypeOK, GoOffline, SetContext, SetBusinessContext, ForgetSynced,
              chain, work, net, serverVars
<1>2. CASE Persist
  <2>1. PICK kept \in KeptIds(synced) :
          saved' = [recorded |-> recorded, queue |-> queue, synced |-> kept,
                    dropped |-> dropped \cup (synced \ kept), business |-> business]
    BY <1>2 DEF Persist
  <2>2. kept \subseteq synced
    BY KeptPart
  <2>3. saved' \in Snapshots
    BY <2>1, <2>2 DEF TypeOK, Snapshots
  <2> QED
    BY <1>2, <2>3 DEF TypeOK, ServerTypeOK, Persist, chain, work, net, serverVars
<1>3. CASE Wipes
  BY <1>3 DEF TypeOK, ServerTypeOK, Snapshots, NoItem, Wipes, ClearLocalCache, ClearSession,
              SignOut, Wiped,
              Blank, chain, work, net, serverVars
<1> QED
  BY <1>1, <1>2, <1>3

LEMMA ReloadType == ASSUME TypeOK, Reload PROVE TypeOK'
  BY DEF TypeOK, ServerTypeOK, Snapshots, NoWork, Reload, serverVars

LEMMA NextType == ASSUME TypeOK, [Next]_vars PROVE TypeOK'
<1>1. CASE UNCHANGED vars
  BY <1>1 DEF TypeOK, ServerTypeOK, vars, local, chain, work, net, serverVars
<1> QED
  BY <1>1, UserType, PassType, NetworkType, TimerType, DeviceType, ReloadType DEF Next, Event,
                        SetContext, Wipes

\* Every reachable state of the queue, the passes and the server is well typed.
THEOREM TypeCorrect == Spec => []TypeOK
  BY InitType, NextType, PTL DEF Spec

-----------------------------------------------------------------------------
(* Nothing is lost.  NothingLost is not inductive: it needs to know that    *)
(* whoever holds a positive answer for an item, handled or not, holds it    *)
(* because the item's own write is on the server.                           *)

Acked == \A p \in Passes, i \in Items : att[p][i] \in {"gotOk", "ok"} => Settled(i)

IInv == TypeOK /\ Acked /\ NothingLost

\* A step changes the server by one transaction or not at all.
LEMMA ServerStep ==
  ASSUME TypeOK, [Next]_vars
  PROVE  (\E i \in Items : Transact(i)) \/ UNCHANGED serverVars
<1>1. CASE UNCHANGED vars
  BY <1>1 DEF vars
<1>2. ASSUME NEW p \in Passes, PassStep(p) PROVE UNCHANGED serverVars
  BY <1>2 DEF PassStep, StartPass, SkipPass, FinishPass, OpenProduct, Join, Sleep, Own,
              StopWaiting, SendSerial, Process
<1>3. ASSUME NEW p \in Passes, User(p) PROVE UNCHANGED serverVars
  BY <1>3 DEF User, Enqueue, StartSession, EnqueueAndSync, RetrySync, GoOnline, BusinessLoaded
<1>4. CASE Timer
  BY <1>4 DEF Timer, Stall, LaneTimeout, AttemptTimeout
<1>5. CASE GoOffline \/ SetContext \/ Persist \/ Reload \/ Wipes
  BY <1>5 DEF GoOffline, SetContext, SetBusinessContext, Persist, Reload, Wipes, ClearLocalCache,
              ClearSession,
              SignOut, Wiped, Blank
<1>6. CASE Network
  <2> PICK w \in wire : Commit(w[1], w[2]) \/ CommitUnacked(w[1], w[2])
                        \/ Fail(w[1], w[2]) \/ Deny(w[1], w[2])
    BY <1>6 DEF Network
  <2>1. w[1] \in Items
    BY DEF TypeOK
  <2>2. Transact(w[1]) \/ UNCHANGED serverVars
    BY DEF Commit, CommitUnacked, Fail, Deny
  <2> QED
    BY <2>1, <2>2
<1> QED
  BY <1>1, <1>2, <1>3, <1>4, <1>5, <1>6 DEF Next, Event, SetContext, Wipes

\* A marker, once written, stays: a settled item stays settled.
LEMMA SettledStable ==
  ASSUME TypeOK, [Next]_vars, NEW j \in Items, Settled(j)
  PROVE  Settled(j)'
<1>1. ASSUME NEW i \in Items, Transact(i)
      PROVE  marker'[Item[j].key] = marker[Item[j].key]
  BY <1>1, ItemFields DEF Transact, Settled, Unclaimed, TypeOK, ServerTypeOK, serverVars
<1>2. marker'[Item[j].key] = marker[Item[j].key]
  BY <1>1, ServerStep DEF serverVars
<1> QED
  BY <1>2 DEF Settled, Unclaimed, Envelope

\* A transaction that answers ok leaves its item settled.
LEMMA VerdictSettles ==
  ASSUME TypeOK, NEW i \in Items, Transact(i), Verdict(i) = "gotOk"
  PROVE  Settled(i)'
<1>1. CASE Unclaimed(i)
  <2>1. marker' = [marker EXCEPT ![Item[i].key] = i] /\ i # None
    BY <1>1, NoneAssumption DEF Transact
  <2>2. marker'[Item[i].key] = i
    BY <2>1, ItemFields DEF TypeOK, ServerTypeOK
  <2> QED
    BY <2>1, <2>2 DEF Settled, Unclaimed, Envelope
<1>2. CASE ~Unclaimed(i)
  BY <1>2 DEF Transact, Verdict, Settled, Unclaimed, Envelope, serverVars
<1> QED
  BY <1>1, <1>2

\* A positive answer was already there, or the item's transaction just gave it.
LEMMA AckOrigin ==
  ASSUME TypeOK, [Next]_vars, NEW p \in Passes, NEW i \in Items,
         att'[p][i] \in {"gotOk", "ok"}, att[p][i] \notin {"gotOk", "ok"}
  PROVE  Transact(i) /\ Verdict(i) = "gotOk"
<1>0. att \in [Passes -> [Items -> Marks]]
  BY DEF TypeOK
<1>1. att' # att
  OBVIOUS
<1>2. ASSUME NEW q \in Passes, PassStep(q) PROVE FALSE
  <2>1. CASE StartPass(q) \/ SkipPass(q) \/ FinishPass(q)
    BY <1>0, <2>1 DEF StartPass, SkipPass, FinishPass, NoWork, work
  <2>2. ASSUME NEW j \in Items, NEW m \in {"open", "sent", "wait", "stop", "gotErr"},
               att' = [att EXCEPT ![q][j] = m]
        PROVE  FALSE
    BY <1>0, <2>2
  <2>3. ASSUME NEW j \in Items,
               OpenProduct(q, j) \/ Join(q, j) \/ Sleep(q, j) \/ Own(q, j)
                 \/ StopWaiting(q, j) \/ SendSerial(q, j)
        PROVE  FALSE
    <3>1. \E m \in {"open", "sent", "wait", "stop", "gotErr"} : att' = [att EXCEPT ![q][j] = m]
      BY <2>3 DEF OpenProduct, Join, Sleep, Own, StopWaiting, SendSerial
    <3> QED
      BY <2>2, <3>1
  <2>4. ASSUME NEW j \in Items, Process(q, j) PROVE FALSE
    <3> DEFINE row == [att[q] EXCEPT ![j] = Outcome(att[q][j])]
    <3>1. att' = [att EXCEPT ![q] = AfterFlush(row)] \/ att' = [att EXCEPT ![q] = row]
      BY <2>4 DEF Process
    <3>2. Outcome(att[q][j]) = "ok" => att[q][j] = "gotOk"
      BY <2>4 DEF Process, Outcome
    <3>3. Outcome(att[q][j]) # "gotOk"
      BY <2>4 DEF Process, Outcome
    <3>4. row \in [Items -> Marks \cup {Outcome(att[q][j])}]
      BY <1>0
    <3>5. row[i] \in {"gotOk", "ok"} => att[q][i] \in {"gotOk", "ok"}
      BY <1>0, <3>2, <3>3
    <3>6. AfterFlush(row)[i] \in {"gotOk", "ok"} => row[i] \in {"gotOk", "ok"}
      BY DEF AfterFlush
    <3> HIDE DEF row
    <3> QED
      BY <1>0, <3>1, <3>5, <3>6
  <2> QED
    BY <1>2, <2>1, <2>3, <2>4 DEF PassStep
<1>3. ASSUME NEW q \in Passes, User(q) PROVE FALSE
  BY <1>1, <1>3 DEF User, Enqueue, StartSession, EnqueueAndSync, RetrySync, GoOnline,
                    BusinessLoaded, work
<1>4. CASE Timer
  <2>1. CASE Stall
    BY <1>1, <2>1 DEF Stall, work
  <2>2. ASSUME NEW j \in Items, LaneTimeout(j) PROVE FALSE
    BY <1>0, <2>2 DEF LaneTimeout
  <2>3. ASSUME NEW j \in Items, NEW q \in Passes, AttemptTimeout(q, j) PROVE FALSE
    BY <1>0, <2>3 DEF AttemptTimeout
  <2> QED
    BY <1>4, <2>1, <2>2, <2>3 DEF Timer
<1>5. CASE GoOffline \/ SetContext \/ Persist \/ Reload \/ Wipes
  BY <1>1, <1>5 DEF GoOffline, SetContext, SetBusinessContext, Persist, Reload, Wipes,
                    ClearLocalCache, ClearSession, SignOut, Wiped, Blank, NoWork, work
<1>6. CASE Network
  <2> PICK w \in wire : Commit(w[1], w[2]) \/ CommitUnacked(w[1], w[2])
                        \/ Fail(w[1], w[2]) \/ Deny(w[1], w[2])
    BY <1>6 DEF Network
  <2>1. ASSUME NEW got, SettleWith(w[1], w[2], got)
        PROVE  got \in {"gotOk", "ok"} /\ i = w[1]
    BY <2>1 DEF SettleWith, Awaits
  <2>2. CASE Commit(w[1], w[2])
    BY <2>1, <2>2 DEF Commit, Verdict
  <2>3. CASE Fail(w[1], w[2]) \/ Deny(w[1], w[2])
    BY <2>1, <2>3 DEF Fail, Deny
  <2>4. CASE CommitUnacked(w[1], w[2])
    BY <1>1, <2>4 DEF CommitUnacked, work
  <2> QED
    BY <2>2, <2>3, <2>4
<1>7. CASE UNCHANGED vars
  BY <1>1, <1>7 DEF vars, work
<1> QED
  BY <1>2, <1>3, <1>4, <1>5, <1>6, <1>7 DEF Next, Event, SetContext, Wipes

LEMMA AckedStep == ASSUME TypeOK, Acked, [Next]_vars PROVE Acked'
<1> SUFFICES ASSUME NEW p \in Passes, NEW i \in Items, att'[p][i] \in {"gotOk", "ok"}
             PROVE  Settled(i)'
  BY DEF Acked
<1>1. CASE att[p][i] \in {"gotOk", "ok"}
  BY <1>1, SettledStable DEF Acked
<1>2. CASE att[p][i] \notin {"gotOk", "ok"}
  BY <1>2, AckOrigin, VerdictSettles
<1> QED
  BY <1>1, <1>2

\* Only a positive answer takes an item off the queue.
LEMMA FlushHonest ==
  ASSUME NEW p \in Passes, NEW row, NEW events, FlushProgress(p, row, events),
         NEW i \in Items, queue'[i] = "absent"
  PROVE  queue[i] = "absent" \/ row[i] = "ok"
  BY DEF FlushProgress

LEMMA Dequeue ==
  ASSUME TypeOK, [Next]_vars, ~Reload, ~Wipes,
         NEW i \in Items, queue'[i] = "absent", queue[i] # "absent"
  PROVE  \E p \in Passes : att[p][i] \in {"gotOk", "ok"}
<1>1. ASSUME NEW p \in Passes, PassStep(p) PROVE att[p][i] \in {"gotOk", "ok"}
  <2>1. CASE FinishPass(p)
    BY <2>1, FlushHonest DEF FinishPass
  <2>2. ASSUME NEW j \in Items, Process(p, j) PROVE att[p][i] \in {"gotOk", "ok"}
    <3> DEFINE row == [att[p] EXCEPT ![j] = Outcome(att[p][j])]
               events == acc[p] \cup (IF row[j] = "ok" THEN Ids(j) ELSE {})
    <3>1. FlushProgress(p, row, events)
      BY <2>2 DEF Process
    <3>2. row[i] = "ok"
      BY <3>1, FlushHonest
    <3>3. Outcome(att[p][j]) = "ok" => att[p][j] = "gotOk"
      BY <2>2 DEF Process, Outcome
    <3> QED
      BY <3>2, <3>3 DEF TypeOK
  <2>3. ASSUME NEW j \in Items,
               OpenProduct(p, j) \/ Join(p, j) \/ Sleep(p, j) \/ Own(p, j)
                 \/ StopWaiting(p, j) \/ SendSerial(p, j)
        PROVE  FALSE
    BY <2>3 DEF OpenProduct, Join, Sleep, Own, StopWaiting, SendSerial, local
  <2>4. CASE StartPass(p) \/ SkipPass(p)
    BY <2>4 DEF StartPass, SkipPass, local
  <2> QED
    BY <1>1, <2>1, <2>2, <2>3, <2>4 DEF PassStep
<1>2. ASSUME NEW p \in Passes, User(p) PROVE FALSE
  BY <1>2 DEF User, Enqueue, StartSession, EnqueueAndSync, RetrySync, GoOnline, BusinessLoaded,
              TypeOK
<1>3. CASE Timer \/ Network \/ GoOffline \/ SetContext \/ Persist
  BY <1>3 DEF Timer, Stall, LaneTimeout, AttemptTimeout, Network, Commit, CommitUnacked, Fail,
              Deny, SettleWith, GoOffline, SetContext, SetBusinessContext, Persist, local
<1>4. CASE UNCHANGED vars
  BY <1>4 DEF vars, local
<1> QED
  BY <1>1, <1>2, <1>3, <1>4 DEF Next, Event, SetContext, Wipes

\* Only enqueueAndSync adds to what is recorded, and it queues what it adds.
LEMMA RecordedOrigin ==
  ASSUME TypeOK, [Next]_vars, ~Reload, NEW i \in recorded', i \notin recorded
  PROVE  queue'[i] # "absent"
<1>0. recorded' # recorded
  OBVIOUS
<1>1. ASSUME NEW p \in Passes, PassStep(p) PROVE FALSE
  BY <1>0, <1>1 DEF PassStep, StartPass, SkipPass, FinishPass, OpenProduct, Join, Sleep, Own,
                    StopWaiting, SendSerial, Process, local
<1>2. ASSUME NEW p \in Passes, User(p) PROVE queue'[i] # "absent"
  <2>1. PICK j \in Items : EnqueueAndSync(j, p)
    BY <1>0, <1>2 DEF User, Enqueue, StartSession, RetrySync, GoOnline, BusinessLoaded
  <2>2. i = j /\ queue' = [queue EXCEPT ![i] = "pending"]
    BY <2>1 DEF EnqueueAndSync
  <2> QED
    BY <2>1, <2>2 DEF TypeOK
<1>3. CASE Timer \/ Network \/ GoOffline \/ SetContext \/ Persist \/ Wipes
  BY <1>0, <1>3 DEF Timer, Stall, LaneTimeout, AttemptTimeout, Network, Commit, CommitUnacked,
                    Fail, Deny, SettleWith, GoOffline, SetContext, SetBusinessContext, Persist,
                    Wipes, ClearLocalCache, ClearSession, SignOut, Wiped, Blank,
                    local
<1>4. CASE UNCHANGED vars
  BY <1>0, <1>4 DEF vars, local
<1> QED
  BY <1>1, <1>2, <1>3, <1>4 DEF Next, Event, SetContext, Wipes

\* The stored copy changes only by Persist and by a wipe.
LEMMA SavedStep ==
  ASSUME [Next]_vars, ~Persist, ~Wipes
  PROVE  saved' = saved
<1>1. ASSUME NEW p \in Passes, PassStep(p) PROVE saved' = saved
  BY <1>1 DEF PassStep, StartPass, SkipPass, FinishPass, OpenProduct, Join, Sleep, Own,
              StopWaiting, SendSerial, Process, local
<1>2. ASSUME NEW p \in Passes, User(p) PROVE saved' = saved
  BY <1>2 DEF User, Enqueue, StartSession, EnqueueAndSync, RetrySync, GoOnline, BusinessLoaded
<1>3. CASE Timer \/ Network \/ GoOffline \/ SetContext \/ Reload
  BY <1>3 DEF Timer, Stall, LaneTimeout, AttemptTimeout, Network, Commit, CommitUnacked,
              Fail, Deny, SettleWith, GoOffline, SetContext, SetBusinessContext, Reload, local
<1>4. CASE UNCHANGED vars
  BY <1>4 DEF vars, local
<1> QED
  BY <1>1, <1>2, <1>3, <1>4 DEF Next, Event, SetContext, Wipes

LEMMA NothingLostStep == ASSUME IInv, [Next]_vars PROVE NothingLost'
<1> USE DEF IInv
<1>1. CASE Reload
  BY <1>1, SettledStable DEF NothingLost, Reload, TypeOK, Snapshots
<1>2. CASE Wipes
  <2>1. recorded' = {} /\ UNCHANGED serverVars /\ (saved' = saved \/ saved'.recorded = {})
    BY <1>2 DEF Wipes, ClearLocalCache, ClearSession, SignOut, Wiped, Blank
  <2>2. \A i \in Items : Settled(i) => Settled(i)'
    BY SettledStable
  <2> QED
    BY <2>1, <2>2 DEF NothingLost, TypeOK, Snapshots
<1>3. CASE ~Reload /\ ~Wipes
  <2>1. ASSUME NEW i \in recorded' PROVE queue'[i] # "absent" \/ Settled(i)'
    <3>0. i \in Items
      BY NextType DEF TypeOK
    <3>1. CASE i \notin recorded
      BY <1>3, <3>1, RecordedOrigin
    <3>2. CASE i \in recorded /\ Settled(i)
      BY <3>0, <3>2, SettledStable
    <3>3. CASE i \in recorded /\ queue[i] # "absent" /\ queue'[i] = "absent"
      <4>1. Settled(i)
        BY <1>3, <3>0, <3>3, Dequeue DEF Acked
      <4> QED
        BY <3>0, <4>1, SettledStable
    <3> QED
      BY <3>1, <3>2, <3>3 DEF NothingLost
  <2>2. ASSUME NEW i \in saved'.recorded PROVE saved'.queue[i] # "absent" \/ Settled(i)'
    <3>1. CASE Persist
      <4>1. i \in recorded' /\ saved'.queue[i] = queue'[i]
        BY <3>1 DEF Persist
      <4> QED
        BY <2>1, <4>1
    <3>2. CASE ~Persist
      BY <1>3, <3>2, SavedStep, SettledStable DEF NothingLost, TypeOK, Snapshots
    <3> QED
      BY <3>1, <3>2
  <2> QED
    BY <2>1, <2>2 DEF NothingLost
<1> QED
  BY <1>1, <1>2, <1>3

\* Whatever is recorded locally, or would be brought back by a reload, is still
\* queued or has its own write on the server: for any number of items, passes
\* and disturbances, including every crash, timeout and abandoned pass.
THEOREM NothingIsLost == Spec => []NothingLost
<1>1. Init => IInv
  <2> SUFFICES ASSUME Init PROVE IInv
    OBVIOUS
  <2>1. Acked
    BY DEF Init, NoWork, Acked
  <2>2. NothingLost
    BY DEF Init, NothingLost, Blank
  <2> QED
    BY <2>1, <2>2, InitType DEF IInv
<1>2. IInv /\ [Next]_vars => IInv'
  <2> SUFFICES ASSUME IInv, [Next]_vars PROVE IInv'
    OBVIOUS
  <2>1. TypeOK' /\ Acked' /\ NothingLost'
    BY NextType, AckedStep, NothingLostStep DEF IInv
  <2> QED
    BY <2>1 DEF IInv
<1>3. IInv => NothingLost
  BY DEF IInv
<1> QED
  BY <1>1, <1>2, <1>3, PTL DEF Spec

-----------------------------------------------------------------------------
(* No double count. *)

\* A step counts nothing, or one increment whose event its row does not hold.
LEMMA CountStep ==
  ASSUME TypeOK, [Next]_vars
  PROVE  \/ UNCHANGED <<counted, qty>>
         \/ \E i \in Items : Increment(i) /\ ~ScanEventAlreadyCounted(i)
  BY ServerStep DEF Transact, SetDocument, Increment, serverVars

\* An event reaches a count row at most once, whatever the passes do.
THEOREM NoDoubleCount == Spec => []OncePerEvent
<1>1. Init => OncePerEvent
  BY DEF Init, ServerInit, OncePerEvent
<1>2. TypeOK /\ OncePerEvent /\ [Next]_vars => OncePerEvent'
  BY CountStep DEF Increment, ScanEventAlreadyCounted, OncePerEvent
<1> QED
  BY <1>1, <1>2, TypeCorrect, PTL DEF Spec

\* The queue, with its retries, timeouts, watchdog and reloads, implements the
\* ledger that posts an event to a row once or not at all.
THEOREM ImplementsLedger == Spec => LedgerSpec
<1>1. Init => Ledger!Init
  BY DEF Init, ServerInit, Ledger!Init
<1>2. TypeOK /\ [Next]_vars => [Ledger!Next]_<<{<<Item[i].entity, Item[i].event>> : i \in counted}, qty>>
  <2> SUFFICES ASSUME TypeOK, [Next]_vars
               PROVE  [Ledger!Next]_<<{<<Item[i].entity, Item[i].event>> : i \in counted}, qty>>
    OBVIOUS
  <2>1. CASE UNCHANGED <<counted, qty>>
    BY <2>1
  <2>2. ASSUME NEW j \in Items, Increment(j), ~ScanEventAlreadyCounted(j)
        PROVE  Ledger!Post(Item[j].entity, Item[j].event, Item[j].delta)
    <3>1. <<Item[j].entity, Item[j].event>> \notin {<<Item[i].entity,
    Item[i].event>> : i \in counted}
      BY <2>2 DEF ScanEventAlreadyCounted
    <3>2. counted' = counted \cup {j} /\ qty' = [qty EXCEPT ![Item[j].entity] = @ + Item[j].delta]
      BY <2>2 DEF Increment
    <3> QED
      BY <3>1, <3>2 DEF Ledger!Post
  <2>3. ASSUME NEW j \in Items, Increment(j), ~ScanEventAlreadyCounted(j)
        PROVE  Ledger!Next
    BY <2>2, <2>3, ItemFields DEF Ledger!Next, Increment
  <2> QED
    BY <2>1, <2>3, CountStep
<1> QED
  BY <1>1, <1>2, TypeCorrect, PTL DEF Spec, LedgerSpec, Ledger!Spec

-----------------------------------------------------------------------------
(* What has left the queue does not come back. *)

\* A flush never puts an item back.
LEMMA FlushKeepsGone ==
  ASSUME NEW p \in Passes, NEW row, NEW events, FlushProgress(p, row, events),
         NEW i \in Items, queue[i] = "absent"
  PROVE  queue'[i] = "absent"
  BY DEF FlushProgress

\* Only a new item or a reload fills a place of the queue that was empty.
LEMMA Revival ==
  ASSUME TypeOK, [Next]_vars, NEW i \in Items, queue[i] = "absent", queue'[i] # "absent"
  PROVE  Reload \/ \E p \in Passes : Enqueue(i, p) \/ StartSession(i, p)
<1>1. ASSUME NEW p \in Passes, PassStep(p) PROVE FALSE
  <2>1. CASE FinishPass(p)
    BY <2>1, FlushKeepsGone DEF FinishPass
  <2>2. ASSUME NEW j \in Items, Process(p, j) PROVE FALSE
    <3> DEFINE row == [att[p] EXCEPT ![j] = Outcome(att[p][j])]
               events == acc[p] \cup (IF row[j] = "ok" THEN Ids(j) ELSE {})
    <3>1. FlushProgress(p, row, events) \/ queue' = queue
      BY <2>2 DEF Process
    <3> QED
      BY <3>1, FlushKeepsGone
  <2>3. ASSUME NEW j \in Items,
               OpenProduct(p, j) \/ Join(p, j) \/ Sleep(p, j) \/ Own(p, j)
                 \/ StopWaiting(p, j) \/ SendSerial(p, j)
        PROVE  FALSE
    BY <2>3 DEF OpenProduct, Join, Sleep, Own, StopWaiting, SendSerial, local
  <2>4. CASE StartPass(p) \/ SkipPass(p)
    BY <2>4 DEF StartPass, SkipPass, local
  <2> QED
    BY <1>1, <2>1, <2>2, <2>3, <2>4 DEF PassStep
<1>2. ASSUME NEW p \in Passes, User(p) PROVE Enqueue(i, p) \/ StartSession(i, p)
  <2>1. ASSUME NEW j \in Items, Enqueue(j, p) \/ StartSession(j, p) PROVE j = i
    BY <2>1 DEF Enqueue, StartSession, EnqueueAndSync, TypeOK
  <2>2. CASE RetrySync(p)
    BY <2>2 DEF RetrySync
  <2> QED
    BY <1>2, <2>1, <2>2 DEF User, GoOnline, BusinessLoaded
<1>3. CASE Timer \/ Network \/ GoOffline \/ SetContext \/ Persist
  BY <1>3 DEF Timer, Stall, LaneTimeout, AttemptTimeout, Network, Commit, CommitUnacked, Fail,
              Deny, SettleWith, GoOffline, SetContext, SetBusinessContext, Persist, local
<1>4. CASE Wipes
  BY <1>4 DEF Wipes, ClearLocalCache, ClearSession, SignOut, Wiped, Blank, NoItem
<1>5. CASE UNCHANGED vars
  BY <1>5 DEF vars, local
<1> QED
  BY <1>1, <1>2, <1>3, <1>4, <1>5 DEF Next, Event, SetContext, Wipes

\* Late answers, retries and abandoned passes never put an item back that has
\* left the queue: only a reload brings the stored queue back.
THEOREM NothingComesBack == Spec => NoResurrection
<1>1. TypeOK /\ [Next]_vars =>
        [\A i \in Items : queue[i] = "absent" /\ queue'[i] # "absent"
           => Reload \/ \E p \in Passes : Enqueue(i, p) \/ StartSession(i, p)]_vars
  BY Revival
<1> QED
  BY <1>1, TypeCorrect, PTL DEF Spec, NoResurrection

-----------------------------------------------------------------------------
(* The newest decision stands.  A settled review has a document, and it      *)
(* belongs to a decision at least as late.                                   *)

DecisionInv ==
  \A i \in Items : Item[i].op = "SAVE_UNKNOWN_SCAN" /\ Settled(i) =>
    /\ doc[Item[i].entity] # None
    /\ Item[doc[Item[i].entity]].clock >= Item[i].clock

\* A transaction that settles an item wrote the document with that very clock.
LEMMA NewlySettled ==
  ASSUME TypeOK, NEW j \in Items, Transact(j), NEW i \in Items, ~Settled(i), Settled(i)'
  PROVE  Unclaimed(j) /\ Envelope(j) = Envelope(i)
<1>1. Unclaimed(j) /\ marker' = [marker EXCEPT ![Item[j].key] = j]
  BY DEF Transact, serverVars, Settled, Unclaimed
<1>2. marker'[Item[i].key] # marker[Item[i].key]
  BY DEF Settled, Unclaimed
<1>3. marker'[Item[i].key] = j
  BY <1>1, <1>2, ItemFields DEF TypeOK, ServerTypeOK
<1>4. Envelope(marker'[Item[i].key]) = Envelope(i)
  BY DEF Settled, Envelope
<1> QED
  BY <1>1, <1>3, <1>4

\* One transaction and one review document: it is left alone, or it is given
\* to a decision at least as late.
LEMMA DocumentStep ==
  ASSUME TypeOK, NEW j \in Items, Transact(j), NEW e \in Entities
  PROVE  \/ doc'[e] = doc[e]
         \/ Item[j].entity = e /\ doc'[e] = j /\ ~StaleReviewDecision(j)
  BY ItemFields DEF Transact, Increment, SetDocument, TypeOK, ServerTypeOK, serverVars

LEMMA DecisionStep == ASSUME TypeOK, DecisionInv, [Next]_vars PROVE DecisionInv'
<1> SUFFICES ASSUME NEW i \in Items, Item[i].op = "SAVE_UNKNOWN_SCAN", Settled(i)'
             PROVE  /\ doc'[Item[i].entity] # None
                    /\ Item[doc'[Item[i].entity]].clock >= Item[i].clock
  BY DEF DecisionInv
<1> DEFINE e == Item[i].entity
<1>0. e \in Entities /\ None \notin Items /\ doc[e] \in Items \cup {None}
  BY ItemFields, NoneAssumption DEF TypeOK, ServerTypeOK
<1>a. \A k \in Items : Item[k].clock \in Nat
  BY ItemAssumption DEF ItemType
<1>1. CASE UNCHANGED serverVars
  BY <1>1 DEF serverVars, DecisionInv, Settled, Unclaimed, Envelope
<1>2. ASSUME NEW j \in Items, Transact(j)
      PROVE  doc'[e] # None /\ Item[doc'[e]].clock >= Item[i].clock
  <2>1. CASE Settled(i)
    <3>1. doc[e] # None /\ Item[doc[e]].clock >= Item[i].clock
      BY <2>1 DEF DecisionInv
    <3>2. CASE doc'[e] = doc[e]
      BY <3>1, <3>2
    <3>3. CASE Item[j].entity = e /\ doc'[e] = j /\ ~StaleReviewDecision(j)
      <4>1. Item[j].op = "SAVE_UNKNOWN_SCAN"
        BY <3>3, EntityAssumption
      <4>2. Item[doc[e]].clock <= Item[j].clock
        BY <1>0, <1>a, <3>1, <3>3, <4>1 DEF StaleReviewDecision
      <4> QED
        BY <1>0, <1>a, <3>1, <3>3, <4>2
    <3> QED
      BY <1>0, <1>2, <3>2, <3>3, DocumentStep
  <2>2. CASE ~Settled(i)
    <3>1. /\ Unclaimed(j) /\ Item[j].op = "SAVE_UNKNOWN_SCAN"
          /\ Item[j].entity = e /\ Item[j].clock = Item[i].clock
      BY <1>2, <2>2, NewlySettled DEF Envelope
    <3>2. SetDocument(j)
      BY <1>0, <1>2, <3>1 DEF Transact, Increment, IsIncrement
    <3>3. CASE StaleReviewDecision(j)
      BY <1>0, <1>a, <3>1, <3>2, <3>3 DEF SetDocument, StaleReviewDecision
    <3>4. CASE ~StaleReviewDecision(j)
      <4>1. doc'[e] = j
        BY <1>0, <3>1, <3>2, <3>4 DEF SetDocument, TypeOK, ServerTypeOK
      <4> QED
        BY <1>0, <1>a, <3>1, <4>1
    <3> QED
      BY <3>3, <3>4
  <2> QED
    BY <2>1, <2>2
<1> QED
  BY <1>1, <1>2, ServerStep

\* In whatever order retries, reloads and abandoned attempts land, a decision
\* that reached the server is never overlaid by an earlier one.
THEOREM DecisionsStand == Spec => []NewestDecisionStands
<1>1. Init => DecisionInv
  <2>1. ASSUME Init, NEW i \in Items PROVE ~Settled(i)
    BY <2>1, ItemFields DEF Init, ServerInit, Settled, Unclaimed
  <2> QED
    BY <2>1 DEF DecisionInv
<1>2. TypeOK /\ DecisionInv /\ [Next]_vars => DecisionInv'
  BY DecisionStep
<1>3. DecisionInv => NewestDecisionStands
  BY DEF DecisionInv, NewestDecisionStands
<1> QED
  BY <1>1, <1>2, <1>3, TypeCorrect, PTL DEF Spec

-----------------------------------------------------------------------------
(* The ledger of synced ids.  What a pass is about to flush is in its        *)
(* accumulator, and accumulators and stored ledgers name only what landed.   *)

Landed(e) == \E i \in Items : Item[i].event = e /\ Settled(i)

AccInv ==
  /\ \A p \in Passes, i \in Items : att[p][i] = "ok" => Ids(i) \subseteq acc[p]
  /\ \A p \in Passes : \A e \in acc[p] : Landed(e)

LedgerInv ==
  /\ AccInv
  /\ DequeuedIsSynced
  /\ \A i \in saved.recorded :
       saved.queue[i] = "absent" => Ids(i) \subseteq saved.synced \cup saved.dropped
  /\ \A e \in saved.synced : Landed(e)

\* What has landed stays landed.
LEMMA LandedStable ==
  ASSUME TypeOK, [Next]_vars, NEW e, Landed(e)
  PROVE  Landed(e)'
  BY SettledStable DEF Landed

\* A handled success is in the accumulator of its pass the moment it is handled.
LEMMA AccProcess ==
  ASSUME TypeOK, Acked, AccInv, NEW p \in Passes, NEW i \in Items, Process(p, i)
  PROVE  \E row, events :
           /\ acc' = [acc EXCEPT ![p] = events]
           /\ \A j \in Items : row[j] = "ok" => Ids(j) \subseteq events
           /\ \A e \in events : Landed(e)
           /\ \/ FlushProgress(p, row, events) /\ att' = [att EXCEPT ![p] = AfterFlush(row)]
              \/ att' = [att EXCEPT ![p] = row] /\ UNCHANGED <<queue, synced>>
<1> DEFINE row == [att[p] EXCEPT ![i] = Outcome(att[p][i])]
           events == acc[p] \cup (IF row[i] = "ok" THEN Ids(i) ELSE {})
<1>0. att[p] \in [Items -> Marks]
  BY DEF TypeOK
<1>1. acc' = [acc EXCEPT ![p] = events]
  BY DEF Process
<1>2. \A j \in Items : row[j] = "ok" => Ids(j) \subseteq events
  BY <1>0 DEF AccInv
<1>3. row[i] = "ok" => \A e \in Ids(i) : Landed(e)
  <2>1. row[i] = "ok" => att[p][i] = "gotOk"
    BY <1>0 DEF Process, Outcome
  <2> QED
    BY <2>1 DEF Acked, Landed, Ids
<1>4. \A e \in events : Landed(e)
  BY <1>3 DEF AccInv
<1>5. \/ FlushProgress(p, row, events) /\ att' = [att EXCEPT ![p] = AfterFlush(row)]
      \/ att' = [att EXCEPT ![p] = row] /\ UNCHANGED <<queue, synced>>
  BY DEF Process
<1> HIDE DEF row, events
<1> QED
  BY <1>1, <1>2, <1>4, <1>5

\* Elsewhere a pass handles no new success, and its accumulator is kept or
\* begun afresh.
LEMMA AccElsewhere ==
  ASSUME TypeOK, [Next]_vars, \A q \in Passes, i \in Items : ~Process(q, i), NEW p \in Passes
  PROVE  \/ acc'[p] = acc[p] /\ \A i \in Items : att'[p][i] = "ok" => att[p][i] = "ok"
         \/ acc'[p] \in {synced, {}} /\ \A i \in Items : att'[p][i] # "ok"
<1> DEFINE Kept == acc'[p] = acc[p] /\ \A i \in Items : att'[p][i] = "ok" => att[p][i] = "ok"
           Begun == acc'[p] \in {synced, {}} /\ \A i \in Items : att'[p][i] # "ok"
<1>0. att \in [Passes -> [Items -> Marks]] /\ acc \in [Passes -> SUBSET Events]
  BY DEF TypeOK
<1>1. ASSUME NEW q \in Passes, PassStep(q) PROVE Kept \/ Begun
  <2>1. CASE StartPass(q) \/ FinishPass(q)
    BY <1>0, <2>1 DEF StartPass, FinishPass, NoWork
  <2>2. CASE SkipPass(q)
    BY <2>2 DEF SkipPass, work
  <2>3. ASSUME NEW j \in Items,
               OpenProduct(q, j) \/ Join(q, j) \/ Sleep(q, j) \/ Own(q, j)
                 \/ StopWaiting(q, j) \/ SendSerial(q, j)
        PROVE  Kept
    <3>1. PICK m \in {"open", "sent", "wait", "stop", "gotErr"} : att' = [att EXCEPT ![q][j] = m]
      BY <2>3 DEF OpenProduct, Join, Sleep, Own, StopWaiting, SendSerial
    <3>2. acc' = acc
      BY <2>3 DEF OpenProduct, Join, Sleep, Own, StopWaiting, SendSerial
    <3> QED
      BY <1>0, <3>1, <3>2
  <2> QED
    BY <1>1, <2>1, <2>2, <2>3 DEF PassStep
<1>2. ASSUME NEW q \in Passes, User(q) PROVE Kept
  BY <1>2 DEF User, Enqueue, StartSession, EnqueueAndSync, RetrySync, GoOnline, BusinessLoaded, work
<1>3. CASE Timer
  <2>1. CASE Stall
    BY <2>1 DEF Stall, work
  <2>2. ASSUME NEW j \in Items, LaneTimeout(j) PROVE Kept
    BY <1>0, <2>2 DEF LaneTimeout
  <2>3. ASSUME NEW j \in Items, NEW q \in Passes, AttemptTimeout(q, j) PROVE Kept
    BY <1>0, <2>3 DEF AttemptTimeout
  <2> QED
    BY <1>3, <2>1, <2>2, <2>3 DEF Timer
<1>4. CASE GoOffline \/ SetContext \/ Persist \/ Wipes
  BY <1>4 DEF GoOffline, SetContext, SetBusinessContext, Persist, Wipes, ClearLocalCache,
              ClearSession, SignOut,
              Wiped, Blank, work
<1>5. CASE Reload
  BY <1>5 DEF Reload, NoWork
<1>6. CASE Network
  <2> PICK w \in wire : Commit(w[1], w[2]) \/ CommitUnacked(w[1], w[2])
                        \/ Fail(w[1], w[2]) \/ Deny(w[1], w[2])
    BY <1>6 DEF Network
  <2>1. ASSUME NEW got \in Got, SettleWith(w[1], w[2], got) PROVE Kept
    BY <2>1 DEF SettleWith
  <2>2. CASE Commit(w[1], w[2])
    BY <2>1, <2>2 DEF Commit, Verdict
  <2>3. CASE Fail(w[1], w[2]) \/ Deny(w[1], w[2])
    BY <2>1, <2>3 DEF Fail, Deny
  <2>4. CASE CommitUnacked(w[1], w[2])
    BY <2>4 DEF CommitUnacked, work
  <2> QED
    BY <2>2, <2>3, <2>4
<1>7. CASE UNCHANGED vars
  BY <1>7 DEF vars, work
<1> QED
  BY <1>1, <1>2, <1>3, <1>4, <1>5, <1>6, <1>7 DEF Next, Event, SetContext, Wipes

LEMMA AccStep == ASSUME TypeOK, Acked, LedgerInv, [Next]_vars PROVE AccInv'
<1> SUFFICES ASSUME NEW p \in Passes
             PROVE  /\ \A i \in Items : att'[p][i] = "ok" => Ids(i) \subseteq acc'[p]
                    /\ \A e \in acc'[p] : Landed(e)
  BY LandedStable DEF AccInv
<1>1. CASE \A q \in Passes, i \in Items : ~Process(q, i)
  BY <1>1, AccElsewhere DEF LedgerInv, AccInv, DequeuedIsSynced, Landed
<1>2. ASSUME NEW q \in Passes, NEW j \in Items, Process(q, j)
      PROVE  /\ \A i \in Items : att'[p][i] = "ok" => Ids(i) \subseteq acc'[p]
             /\ \A e \in acc'[p] : Landed(e)
  <2>1. PICK row, events :
          /\ acc' = [acc EXCEPT ![q] = events]
          /\ \A i \in Items : row[i] = "ok" => Ids(i) \subseteq events
          /\ \A e \in events : Landed(e)
          /\ att' = [att EXCEPT ![q] = AfterFlush(row)] \/ att' = [att EXCEPT ![q] = row]
    BY <1>2, AccProcess DEF LedgerInv
  <2>2. \A i \in Items : AfterFlush(row)[i] # "ok"
    BY DEF AfterFlush
  <2> QED
    BY <2>1, <2>2 DEF TypeOK, LedgerInv, AccInv
<1> QED
  BY <1>1, <1>2

\* A flush adds the pass's events to the ledger, and the event of every item it
\* takes off the queue is among them.
LEMMA FlushRecords ==
  ASSUME NEW p \in Passes, NEW row, NEW events, FlushProgress(p, row, events),
         \A j \in Items : row[j] = "ok" => Ids(j) \subseteq events
  PROVE  /\ synced' \in {synced, synced \cup events}
         /\ \A i \in Items : queue'[i] = "absent" /\ queue[i] # "absent" => Ids(i) \subseteq synced'
  BY DEF FlushProgress

\* Short of a reload or a wipe nothing leaves the ledger but what is dropped on
\* purpose; it grows by what has landed, and takes in the event of whatever
\* leaves the queue.
LEMMA SyncedStep ==
  ASSUME TypeOK, Acked, LedgerInv, [Next]_vars, ~Reload, ~Wipes
  PROVE  /\ synced \cup dropped \subseteq synced' \cup dropped'
         /\ \A e \in synced' : Landed(e)
         /\ \A i \in Items : queue'[i] = "absent" /\ queue[i] # "absent" => Ids(i) \subseteq synced'
<1> DEFINE Goal == /\ synced \cup dropped \subseteq synced' \cup dropped'
                   /\ \A e \in synced' : Landed(e)
                   /\ \A i \in Items : queue'[i] = "absent" /\ queue[i] # "absent"
                                         => Ids(i) \subseteq synced'
<1>0. \A e \in synced : Landed(e)
  BY DEF LedgerInv, DequeuedIsSynced, Landed
<1>1. ASSUME UNCHANGED <<queue, synced, dropped>> PROVE Goal
  BY <1>0, <1>1
<1>2. ASSUME NEW p \in Passes, PassStep(p) PROVE Goal
  <2>1. CASE FinishPass(p)
    <3>1. FlushProgress(p, att[p], acc[p]) /\ dropped' = dropped
      BY <2>1 DEF FinishPass
    <3> QED
      BY <1>0, <3>1, FlushRecords DEF LedgerInv, AccInv
  <2>2. ASSUME NEW j \in Items, Process(p, j) PROVE Goal
    <3>1. PICK row, events :
            /\ \A i \in Items : row[i] = "ok" => Ids(i) \subseteq events
            /\ \A e \in events : Landed(e)
            /\ FlushProgress(p, row, events) \/ UNCHANGED <<queue, synced>>
      BY <2>2, AccProcess DEF LedgerInv
    <3>2. dropped' = dropped
      BY <2>2 DEF Process
    <3> QED
      BY <1>0, <1>1, <3>1, <3>2, FlushRecords
  <2>3. ASSUME NEW j \in Items,
               OpenProduct(p, j) \/ Join(p, j) \/ Sleep(p, j) \/ Own(p, j)
                 \/ StopWaiting(p, j) \/ SendSerial(p, j)
        PROVE  UNCHANGED <<queue, synced, dropped>>
    BY <2>3 DEF OpenProduct, Join, Sleep, Own, StopWaiting, SendSerial, local
  <2>4. CASE StartPass(p) \/ SkipPass(p)
    BY <1>1, <2>4 DEF StartPass, SkipPass, local
  <2> QED
    BY <1>1, <1>2, <2>1, <2>2, <2>3, <2>4 DEF PassStep
<1>3. ASSUME NEW p \in Passes, User(p) PROVE Goal
  <2>1. UNCHANGED <<synced, dropped>> \/ ForgetSynced
    BY <1>3 DEF User, Enqueue, StartSession, RetrySync, GoOnline, BusinessLoaded
  <2>2. ASSUME NEW i \in Items, queue'[i] = "absent", queue[i] # "absent" PROVE FALSE
    BY <1>3, <2>2 DEF User, Enqueue, StartSession, EnqueueAndSync, RetrySync, GoOnline,
                      BusinessLoaded, TypeOK
  <2> QED
    BY <1>0, <2>1, <2>2 DEF ForgetSynced
<1>4. CASE Timer \/ Network \/ GoOffline \/ Persist
  BY <1>1, <1>4 DEF Timer, Stall, LaneTimeout, AttemptTimeout, Network, Commit, CommitUnacked,
                    Fail, Deny, SettleWith, GoOffline, Persist, local
<1>5. CASE SetContext
  BY <1>0, <1>5 DEF SetContext, SetBusinessContext, ForgetSynced
<1>6. CASE UNCHANGED vars
  BY <1>1, <1>6 DEF vars, local
<1> QED
  BY <1>2, <1>3, <1>4, <1>5, <1>6 DEF Next, Event, SetContext, Wipes

LEMMA LedgerStep == ASSUME TypeOK, Acked, LedgerInv, [Next]_vars PROVE LedgerInv'
<1>0. AccInv'
  BY AccStep
<1>1. CASE Reload
  <2>1. /\ \A i \in recorded' : queue'[i] = "absent" => Ids(i) \subseteq synced' \cup dropped'
        /\ \A i \in saved'.recorded :
             saved'.queue[i] = "absent" => Ids(i) \subseteq saved'.synced \cup saved'.dropped
    BY <1>1 DEF LedgerInv, Reload
  <2>2. /\ \A e \in synced' : Landed(e)
        /\ \A e \in saved'.synced : Landed(e)
    BY <1>1 DEF LedgerInv, Reload
  <2>3. /\ \A e \in synced' : Landed(e)'
        /\ \A e \in saved'.synced : Landed(e)'
    BY <2>2, LandedStable
  <2> QED
    BY <1>0, <2>1, <2>3 DEF LedgerInv, DequeuedIsSynced, Landed, Ids
<1>2. CASE Wipes
  <2>1. recorded' = {} /\ synced' = {} /\ (saved' = saved \/ saved' = Blank)
    BY <1>2 DEF Wipes, ClearLocalCache, ClearSession, SignOut, Wiped
  <2>2. \A e \in saved'.synced : Landed(e)'
    BY <2>1, LandedStable DEF LedgerInv, Blank
  <2> QED
    BY <1>0, <2>1, <2>2 DEF LedgerInv, DequeuedIsSynced, Blank, Ids
<1>3. CASE ~Reload /\ ~Wipes
  <2>1. /\ synced \cup dropped \subseteq synced' \cup dropped'
        /\ \A e \in synced' : Landed(e)
        /\ \A i \in Items : queue'[i] = "absent" /\ queue[i] # "absent" => Ids(i) \subseteq synced'
    BY <1>3, SyncedStep
  <2>2. ASSUME NEW i \in recorded', queue'[i] = "absent" PROVE Ids(i) \subseteq synced' \cup dropped'
    <3>1. i \in Items /\ i \in recorded
      BY <1>3, <2>2, NextType, RecordedOrigin DEF TypeOK
    <3> QED
      BY <2>1, <2>2, <3>1 DEF LedgerInv, DequeuedIsSynced
  <2>3. \A e \in synced' : Landed(e)'
    BY <2>1, LandedStable
  <2>4. /\ \A i \in saved'.recorded :
             saved'.queue[i] = "absent" => Ids(i) \subseteq saved'.synced \cup saved'.dropped
        /\ \A e \in saved'.synced : Landed(e)'
    <3>1. CASE Persist
      <4>1. PICK kept \in KeptIds(synced) :
              saved' = [recorded |-> recorded, queue |-> queue, synced |-> kept,
                        dropped |-> dropped \cup (synced \ kept), business |-> business]
        BY <3>1 DEF Persist
      <4>2. kept \subseteq synced
        BY KeptPart
      <4>3. UNCHANGED <<recorded, queue, synced, dropped>>
        BY <3>1 DEF Persist
      <4> QED
        BY <2>2, <2>3, <4>1, <4>2, <4>3
    <3>2. CASE ~Persist
      <4>1. saved' = saved
        BY <1>3, <3>2, SavedStep
      <4> QED
        BY <4>1, LandedStable DEF LedgerInv
    <3> QED
      BY <3>1, <3>2
  <2> QED
    BY <1>0, <2>2, <2>3, <2>4 DEF LedgerInv, DequeuedIsSynced, Landed, Ids
<1> QED
  BY <1>1, <1>2, <1>3

\* The event of what has left the queue is in the ledger of synced ids, whichever
\* pass wrote it there, unless a new session, another business or the cap of the
\* stored copy took it off; and the ledger names only events a write of which is
\* on the server.
THEOREM LedgerIsComplete == Spec => []DequeuedIsSynced
<1> DEFINE Inv == TypeOK /\ Acked /\ LedgerInv
<1>1. Init => Inv
  BY InitType DEF Init, NoWork, Acked, LedgerInv, AccInv, DequeuedIsSynced, Blank
<1>2. Inv /\ [Next]_vars => Inv'
  BY NextType, AckedStep, LedgerStep
<1>3. Inv => DequeuedIsSynced
  BY DEF LedgerInv
<1> QED
  BY <1>1, <1>2, <1>3, PTL DEF Spec

-----------------------------------------------------------------------------
(* The ceiling of the product lane.  The registry of physical applies and    *)
(* the lane's transactions on the wire are the same items; the registry is   *)
(* finite, within the slots, and holds one write of each product.            *)

LaneInv ==
  /\ \A i \in Items : <<i, Lane>> \in wire <=> i \in Owned
  /\ IsFiniteSet(Owned)
  /\ Cardinality(Owned) <= Slots
  /\ \A i, j \in Owned : SameProduct(i, j) => i = j

\* A registry that only loses items keeps to the ceiling.
LEMMA RegistryShrinks ==
  ASSUME LaneInv, Owned' \subseteq Owned,
         \A i \in Items : <<i, Lane>> \in wire' <=> i \in Owned'
  PROVE  LaneInv'
<1>1. IsFiniteSet(Owned') /\ Cardinality(Owned') <= Cardinality(Owned)
  BY FS_Subset DEF LaneInv
<1>2. Cardinality(Owned) \in Nat /\ Cardinality(Owned') \in Nat
  BY <1>1, FS_CardinalityType DEF LaneInv
<1>3. Cardinality(Owned') <= Slots
  BY <1>1, <1>2, SlotsAssumption DEF LaneInv
<1>4. \A i, j \in Owned' : SameProduct(i, j) => i = j
  BY DEF LaneInv
<1>5. \A i, j : SameProduct(i, j)' <=> SameProduct(i, j)
  BY DEF SameProduct, IsProduct
<1> QED
  BY <1>1, <1>3, <1>4, <1>5 DEF LaneInv

LEMMA RegistryKept ==
  ASSUME TypeOK, LaneInv, phys' = phys,
         \A i \in Items : <<i, Lane>> \in wire' <=> <<i, Lane>> \in wire
  PROVE  LaneInv'
<1>1. Owned' = Owned
  BY DEF Owned
<1> QED
  BY <1>1, RegistryShrinks DEF LaneInv

\* A transaction of the lane begins: the registry takes one item more, for
\* which there was a slot and of whose product it held none.
LEMMA RegistryGrows ==
  ASSUME TypeOK, LaneInv, NEW p \in Passes, NEW i \in Items, Own(p, i)
  PROVE  LaneInv'
<1>1. Owned' = Owned \cup {i}
  BY DEF Owned, Own, TypeOK
<1>2. /\ i \notin Owned /\ Cardinality(Owned) < Slots
      /\ \A j \in Owned : ~SameProduct(i, j)
  <2>1. Cardinality(Owned) \in Nat
    BY FS_CardinalityType DEF LaneInv
  <2> QED
    BY <2>1, SlotsAssumption DEF Own, MustWait
<1>3. IsFiniteSet(Owned') /\ Cardinality(Owned') = Cardinality(Owned) + 1
  BY <1>1, <1>2, FS_AddElement DEF LaneInv
<1>4. Cardinality(Owned') <= Slots
  BY <1>2, <1>3, FS_CardinalityType, SlotsAssumption DEF LaneInv
<1>5. \A j \in Items : <<j, Lane>> \in wire' <=> j \in Owned'
  BY <1>1 DEF LaneInv, Own
<1>6. \A j, k : SameProduct(j, k)' <=> SameProduct(j, k)
  BY DEF SameProduct, IsProduct
<1>7. \A j, k \in Owned' : SameProduct(j, k) => j = k
  BY <1>1, <1>2 DEF LaneInv, SameProduct
<1> QED
  BY <1>3, <1>4, <1>5, <1>6, <1>7 DEF LaneInv

\* A transaction settles: one of the lane leaves the registry, another's is
\* none of its business.
LEMMA RegistrySettles ==
  ASSUME TypeOK, LaneInv, NEW w \in wire, NEW got, SettleWith(w[1], w[2], got)
  PROVE  LaneInv'
<1>0. w[1] \in Items /\ w = <<w[1], w[2]>> /\ phys \in [Items -> {"none", "open", "timedout"}]
  BY DEF TypeOK
<1>1. wire' = wire \ {<<w[1], w[2]>>}
  BY DEF SettleWith
<1>2. CASE w[2] = Lane
  <2>1. phys' = [phys EXCEPT ![w[1]] = "none"]
    BY <1>2 DEF SettleWith
  <2>2. Owned' = Owned \ {w[1]}
    BY <1>0, <2>1 DEF Owned
  <2> QED
    BY <1>0, <1>1, <1>2, <2>2, RegistryShrinks DEF LaneInv
<1>3. CASE w[2] # Lane
  <2>1. phys' = phys
    BY <1>3 DEF SettleWith
  <2> QED
    BY <1>0, <1>1, <1>3, <2>1, RegistryKept
<1> QED
  BY <1>2, <1>3

LEMMA LaneStep == ASSUME TypeOK, LaneInv, [Next]_vars PROVE LaneInv'
<1>1. ASSUME NEW p \in Passes, PassStep(p) PROVE LaneInv'
  <2>1. ASSUME NEW i \in Items, Own(p, i) PROVE LaneInv'
    BY <2>1, RegistryGrows
  <2>2. ASSUME NEW i \in Items, SendSerial(p, i) PROVE LaneInv'
    <3>1. phys' = phys /\ wire' = wire \cup {<<i, p>>} /\ p # Lane
      BY <2>2, OwnersAssumption DEF SendSerial
    <3> QED
      BY <3>1, RegistryKept
  <2>3. CASE UNCHANGED net
    BY <2>3, RegistryKept DEF net
  <2>4. CASE StartPass(p) \/ SkipPass(p) \/ FinishPass(p)
    BY <2>3, <2>4 DEF StartPass, SkipPass, FinishPass
  <2>5. ASSUME NEW i \in Items,
               OpenProduct(p, i) \/ Join(p, i) \/ Sleep(p, i) \/ StopWaiting(p, i) \/ Process(p, i)
        PROVE  LaneInv'
    BY <2>3, <2>5 DEF OpenProduct, Join, Sleep, StopWaiting, Process
  <2> QED
    BY <1>1, <2>1, <2>2, <2>4, <2>5 DEF PassStep
<1>2. CASE UNCHANGED net
  BY <1>2, RegistryKept DEF net
<1>3. ASSUME NEW p \in Passes, User(p) PROVE LaneInv'
  BY <1>2, <1>3 DEF User, Enqueue, StartSession, EnqueueAndSync, RetrySync, GoOnline, BusinessLoaded
<1>4. CASE Timer
  <2>1. CASE Stall
    BY <1>2, <2>1 DEF Stall
  <2>2. ASSUME NEW i \in Items, LaneTimeout(i) PROVE LaneInv'
    <3>1. Owned' = Owned /\ wire' = wire
      BY <2>2 DEF LaneTimeout, Owned, TypeOK
    <3> QED
      BY <3>1, RegistryShrinks DEF LaneInv
  <2>3. ASSUME NEW i \in Items, NEW p \in Passes, AttemptTimeout(p, i) PROVE LaneInv'
    <3>1. phys' = phys /\ p # Lane /\ Orphan # Lane
      BY <2>3, OwnersAssumption DEF AttemptTimeout
    <3>2. wire' = wire \/ wire' = (wire \ {<<i, p>>}) \cup {<<i, Orphan>>}
      BY <2>3 DEF AttemptTimeout
    <3> QED
      BY <3>1, <3>2, RegistryKept
  <2> QED
    BY <1>4, <2>1, <2>2, <2>3 DEF Timer
<1>5. CASE Network
  <2> PICK w \in wire : Commit(w[1], w[2]) \/ CommitUnacked(w[1], w[2])
                        \/ Fail(w[1], w[2]) \/ Deny(w[1], w[2])
    BY <1>5 DEF Network
  <2>1. CASE CommitUnacked(w[1], w[2])
    BY <1>2, <2>1 DEF CommitUnacked
  <2>2. CASE Commit(w[1], w[2]) \/ Fail(w[1], w[2]) \/ Deny(w[1], w[2])
    BY <2>2, RegistrySettles DEF Commit, Fail, Deny
  <2> QED
    BY <2>1, <2>2
<1>6. CASE Reload
  <2>1. Owned' = {}
    BY <1>6 DEF Reload, Owned
  <2>2. \A i \in Items : <<i, Lane>> \notin wire'
    BY <1>6, OwnersAssumption DEF Reload
  <2> QED
    BY <2>1, <2>2, RegistryShrinks
<1>7. CASE GoOffline \/ SetContext \/ Persist \/ Wipes
  BY <1>2, <1>7 DEF GoOffline, SetContext, SetBusinessContext, Persist, Wipes, ClearLocalCache,
                    ClearSession,
                    SignOut, Wiped, Blank
<1>8. CASE UNCHANGED vars
  BY <1>2, <1>8 DEF vars
<1> QED
  BY <1>1, <1>3, <1>4, <1>5, <1>6, <1>7, <1>8 DEF Next, Event, SetContext, Wipes

\* Across all passes, with every timeout, abandoned pass and reload: at most
\* Slots product transactions are physically unsettled, at most one of each
\* product.
THEOREM LaneIsBounded == Spec => []PhysicalCeiling
<1>1. Init => LaneInv
  <2> SUFFICES ASSUME Init PROVE LaneInv
    OBVIOUS
  <2>1. Owned = {} /\ wire = {}
    BY DEF Init, Owned
  <2> QED
    BY <2>1, FS_EmptySet, SlotsAssumption DEF LaneInv
<1>2. TypeOK /\ LaneInv /\ [Next]_vars => LaneInv'
  BY LaneStep
<1>3. LaneInv => PhysicalCeiling
  <2> SUFFICES ASSUME LaneInv PROVE PhysicalCeiling
    OBVIOUS
  <2>1. {i \in Items : <<i, Lane>> \in wire} = Owned
    BY DEF LaneInv, Owned
  <2> QED
    BY <2>1 DEF LaneInv, PhysicalCeiling
<1> QED
  BY <1>1, <1>2, <1>3, TypeCorrect, PTL DEF Spec

-----------------------------------------------------------------------------
(* What a step does to the progress of a pass: the pass begins, its work is  *)
(* dropped, or each of its items makes one move.                             *)

Move(p, i) ==
  \/ att'[p][i] = att[p][i]
  \/ OpenProduct(p, i) /\ att'[p][i] = "open"
  \/ SendSerial(p, i) /\ att'[p][i] = "sent"
  \/ att[p][i] \in Waiting /\ att'[p][i] \in Waiting \cup {"stop", "gotErr"}
  \/ att[p][i] \in Waiting /\ att'[p][i] = "gotQuar" /\ "deny" \in May
  \/ att[p][i] \in Waiting /\ att'[p][i] \in Got /\ Transact(i)
  \/ att[p][i] \in {"gotOk", "ok"} /\ att'[p][i] \in {"ok", "won"}
  \/ att[p][i] \in {"gotErr", "err"} /\ att'[p][i] \in {"err", "lost"}
  \/ att[p][i] \in {"gotQuar", "quar"} /\ att'[p][i] \in {"quar", "lost"}

RowMoves(p) ==
  \/ StartPass(p)
  \/ \A i \in Items : att'[p][i] = "out"
  \/ ctx'[p] = ctx[p] /\ \A i \in Items : Move(p, i)

\* Handling a result moves that item, and a flush the items handled before it.
LEMMA ProcessMoves ==
  ASSUME TypeOK, NEW q \in Passes, NEW j \in Items, Process(q, j), NEW p \in Passes, NEW i \in Items
  PROVE  Move(p, i)
<1> DEFINE row == [att[q] EXCEPT ![j] = Outcome(att[q][j])]
<1>0. att \in [Passes -> [Items -> Marks]]
  BY DEF TypeOK
<1>1. att' = [att EXCEPT ![q] = AfterFlush(row)] \/ att' = [att EXCEPT ![q] = row]
  BY DEF Process
<1>2. CASE p # q
  BY <1>0, <1>1, <1>2 DEF Move
<1>3. CASE p = q
  <2>1. att'[p][i] = AfterFlush(row)[i] \/ att'[p][i] = row[i]
    BY <1>0, <1>1, <1>3
  <2>2. \/ row[i] = att[p][i]
        \/ att[p][i] = "gotOk" /\ row[i] = "ok"
        \/ att[p][i] = "gotErr" /\ row[i] = "err"
        \/ att[p][i] = "gotQuar" /\ row[i] = "quar"
    BY <1>0, <1>3 DEF Process, Outcome
  <2>3. AfterFlush(row)[i] = CASE row[i] = "ok" -> "won"
                               [] row[i] \in {"err", "quar"} -> "lost"
                               [] OTHER -> row[i]
    BY DEF AfterFlush
  <2> HIDE DEF row
  <2> QED
    BY <2>1, <2>2, <2>3 DEF Move
<1> QED
  BY <1>2, <1>3

LEMMA RowStep == ASSUME TypeOK, [Next]_vars, NEW p \in Passes PROVE RowMoves(p)
<1>0. att \in [Passes -> [Items -> Marks]] /\ ctx \in [Passes -> Tenants \cup {None}]
  BY DEF TypeOK
<1>1. ASSUME UNCHANGED <<ctx, att>> PROVE RowMoves(p)
  BY <1>1 DEF RowMoves, Move
<1>2. ASSUME NEW q \in Passes, PassStep(q) PROVE RowMoves(p)
  <2>1. CASE StartPass(q)
    <3>1. CASE p = q
      BY <2>1, <3>1 DEF RowMoves
    <3>2. CASE p # q
      <4>1. ctx'[p] = ctx[p] /\ att'[p] = att[p]
        BY <1>0, <2>1, <3>2 DEF StartPass
      <4> QED
        BY <4>1 DEF RowMoves, Move
    <3> QED
      BY <3>1, <3>2
  <2>2. CASE FinishPass(q)
    BY <1>0, <2>2 DEF FinishPass, NoWork, RowMoves, Move
  <2>3. CASE SkipPass(q)
    BY <1>1, <2>3 DEF SkipPass, work
  <2>4. ASSUME NEW j \in Items, OpenProduct(q, j) PROVE RowMoves(p)
    <3>1. att' = [att EXCEPT ![q][j] = "open"] /\ ctx' = ctx
      BY <2>4 DEF OpenProduct
    <3>2. \A i \in Items : Move(p, i)
      BY <1>0, <2>4, <3>1 DEF Move
    <3> QED
      BY <3>1, <3>2 DEF RowMoves
  <2>5. ASSUME NEW j \in Items, SendSerial(q, j) PROVE RowMoves(p)
    <3>1. att' = [att EXCEPT ![q][j] = "sent"] /\ ctx' = ctx
      BY <2>5 DEF SendSerial
    <3>2. \A i \in Items : Move(p, i)
      BY <1>0, <2>5, <3>1 DEF Move
    <3> QED
      BY <3>1, <3>2 DEF RowMoves
  <2>6. ASSUME NEW j \in Items,
               Join(q, j) \/ Sleep(q, j) \/ Own(q, j) \/ StopWaiting(q, j)
        PROVE  RowMoves(p)
    <3>1. att[q][j] = "open" /\ ctx' = ctx
      BY <2>6 DEF Join, Sleep, Own, StopWaiting
    <3>2. PICK m \in {"sent", "gotErr", "wait", "stop"} : att' = [att EXCEPT ![q][j] = m]
      BY <2>6 DEF Join, Sleep, Own, StopWaiting
    <3>3. \A i \in Items : Move(p, i)
      BY <1>0, <3>1, <3>2 DEF Move
    <3> QED
      BY <3>1, <3>3 DEF RowMoves
  <2>7. ASSUME NEW j \in Items, Process(q, j) PROVE RowMoves(p)
    <3>1. ctx' = ctx
      BY <2>7 DEF Process
    <3> QED
      BY <2>7, <3>1, ProcessMoves DEF RowMoves
  <2> QED
    BY <1>2, <2>1, <2>2, <2>3, <2>4, <2>5, <2>6, <2>7 DEF PassStep
<1>3. ASSUME NEW q \in Passes, User(q) PROVE RowMoves(p)
  BY <1>1, <1>3 DEF User, Enqueue, StartSession, EnqueueAndSync, RetrySync, GoOnline,
                    BusinessLoaded, work
<1>4. CASE Timer
  <2>1. CASE Stall
    BY <1>1, <2>1 DEF Stall, work
  <2>2. ASSUME NEW j \in Items, LaneTimeout(j) PROVE RowMoves(p)
    <3>1. \A i \in Items : Move(p, i)
      BY <1>0, <2>2 DEF LaneTimeout, Awaits, Move
    <3> QED
      BY <2>2, <3>1 DEF RowMoves, LaneTimeout
  <2>3. ASSUME NEW j \in Items, NEW q \in Passes, AttemptTimeout(q, j) PROVE RowMoves(p)
    <3>1. \A i \in Items : Move(p, i)
      BY <1>0, <2>3 DEF AttemptTimeout, Move
    <3> QED
      BY <2>3, <3>1 DEF RowMoves, AttemptTimeout
  <2> QED
    BY <1>4, <2>1, <2>2, <2>3 DEF Timer
<1>5. CASE GoOffline \/ SetContext \/ Persist \/ Wipes
  BY <1>1, <1>5 DEF GoOffline, SetContext, SetBusinessContext, Persist, Wipes, ClearLocalCache,
                    ClearSession,
                    SignOut, Wiped, Blank, work
<1>6. CASE Reload
  BY <1>6 DEF Reload, NoWork, RowMoves
<1>7. CASE Network
  <2> PICK w \in wire : Commit(w[1], w[2]) \/ CommitUnacked(w[1], w[2])
                        \/ Fail(w[1], w[2]) \/ Deny(w[1], w[2])
    BY <1>7 DEF Network
  <2>1. ASSUME NEW got \in Got, SettleWith(w[1], w[2], got), NEW i \in Items
        PROVE  \/ att'[p][i] = att[p][i]
               \/ att[p][i] \in Waiting /\ att'[p][i] = "open"
               \/ att[p][i] \in Waiting /\ att'[p][i] = got /\ i = w[1]
    BY <2>1 DEF SettleWith, Awaits, SleepsOn
  <2>2. CASE Commit(w[1], w[2])
    <3>1. Verdict(w[1]) \in Got /\ SettleWith(w[1], w[2], Verdict(w[1])) /\ Transact(w[1])
      BY <2>2 DEF Commit, Verdict
    <3>2. \A i \in Items : Move(p, i)
      BY <2>1, <3>1 DEF Move
    <3> QED
      BY <3>1, <3>2 DEF RowMoves, SettleWith
  <2>3. CASE Fail(w[1], w[2])
    <3>1. SettleWith(w[1], w[2], "gotErr")
      BY <2>3 DEF Fail
    <3>2. \A i \in Items : Move(p, i)
      BY <2>1, <3>1 DEF Move
    <3> QED
      BY <3>1, <3>2 DEF RowMoves, SettleWith
  <2>4. CASE Deny(w[1], w[2])
    <3>1. SettleWith(w[1], w[2], "gotQuar") /\ "deny" \in May
      BY <2>4 DEF Deny
    <3>2. \A i \in Items : Move(p, i)
      BY <2>1, <3>1 DEF Move
    <3> QED
      BY <3>1, <3>2 DEF RowMoves, SettleWith
  <2>5. CASE CommitUnacked(w[1], w[2])
    BY <1>1, <2>5 DEF CommitUnacked, work
  <2> QED
    BY <2>2, <2>3, <2>4, <2>5
<1>8. CASE UNCHANGED vars
  BY <1>1, <1>8 DEF vars, work
<1> QED
  BY <1>2, <1>3, <1>4, <1>5, <1>6, <1>7, <1>8 DEF Next, Event, SetContext, Wipes

\* What is on the wire was there, was orphaned, or a pass puts it there now.
LEMMA WireStep ==
  ASSUME TypeOK, [Next]_vars, NEW w \in wire'
  PROVE  \/ w \in wire
         \/ w[2] = Orphan /\ \E v \in wire : v[1] = w[1]
         \/ \E p \in Passes : Own(p, w[1]) \/ SendSerial(p, w[1])
<1>1. ASSUME NEW p \in Passes, PassStep(p)
      PROVE  w \in wire \/ Own(p, w[1]) \/ SendSerial(p, w[1])
  <2>1. ASSUME NEW i \in Items, Own(p, i) PROVE w \in wire \/ Own(p, w[1])
    <3>1. w \in wire \/ w[1] = i
      BY <2>1 DEF Own
    <3> QED
      BY <2>1, <3>1
  <2>2. ASSUME NEW i \in Items, SendSerial(p, i) PROVE w \in wire \/ SendSerial(p, w[1])
    <3>1. w \in wire \/ w[1] = i
      BY <2>2 DEF SendSerial
    <3> QED
      BY <2>2, <3>1
  <2>3. CASE StartPass(p) \/ SkipPass(p) \/ FinishPass(p)
    BY <2>3 DEF StartPass, SkipPass, FinishPass, net
  <2>4. ASSUME NEW i \in Items,
               OpenProduct(p, i) \/ Join(p, i) \/ Sleep(p, i) \/ StopWaiting(p, i) \/ Process(p, i)
        PROVE  w \in wire
    BY <2>4 DEF OpenProduct, Join, Sleep, StopWaiting, Process, net
  <2> QED
    BY <1>1, <2>1, <2>2, <2>3, <2>4 DEF PassStep
<1>2. ASSUME NEW p \in Passes, User(p) PROVE w \in wire
  BY <1>2 DEF User, Enqueue, StartSession, EnqueueAndSync, RetrySync, GoOnline, BusinessLoaded, net
<1>3. CASE Timer
  <2>1. ASSUME NEW i \in Items, NEW p \in Passes, AttemptTimeout(p, i)
        PROVE  w \in wire \/ (w[2] = Orphan /\ \E v \in wire : v[1] = w[1])
    <3>1. CASE <<i, p>> \in wire /\ wire' = (wire \ {<<i, p>>}) \cup {<<i, Orphan>>}
      BY <3>1
    <3> QED
      BY <2>1, <3>1 DEF AttemptTimeout
  <2> QED
    BY <1>3, <2>1 DEF Timer, Stall, LaneTimeout, net
<1>4. CASE Network
  BY <1>4 DEF Network, Commit, CommitUnacked, Fail, Deny, SettleWith, net
<1>5. CASE Reload
  BY <1>5 DEF Reload
<1>6. CASE GoOffline \/ SetContext \/ Persist \/ Wipes
  BY <1>6 DEF GoOffline, SetContext, SetBusinessContext, Persist, Wipes, ClearLocalCache,
              ClearSession, SignOut,
              Wiped, Blank, net
<1>7. CASE UNCHANGED vars
  BY <1>7 DEF vars, net
<1> QED
  BY <1>1, <1>2, <1>3, <1>4, <1>5, <1>6, <1>7 DEF Next, Event, SetContext, Wipes

-----------------------------------------------------------------------------
(* A pass works for one business: the one it captured when it began.         *)

BatchInv == \A p \in Passes, i \in Items : att[p][i] # "out" => Item[i].tenant = ctx[p]

LEMMA BatchStep == ASSUME TypeOK, BatchInv, [Next]_vars PROVE BatchInv'
<1> SUFFICES ASSUME NEW p \in Passes, NEW i \in Items, att'[p][i] # "out"
             PROVE  Item[i].tenant = ctx'[p]
  BY DEF BatchInv
<1>1. CASE StartPass(p)
  <2>1. ctx'[p] = business
    BY <1>1 DEF StartPass, TypeOK
  <2>2. att'[p][i] # "out" => Item[i].tenant = business
    BY <1>1 DEF StartPass, TypeOK
  <2> QED
    BY <2>1, <2>2
<1>2. CASE ctx'[p] = ctx[p] /\ Move(p, i)
  <2>1. att[p][i] # "out"
    BY <1>2 DEF Move, OpenProduct, ReadyProduct, SendSerial, ReadySerial
  <2> QED
    BY <1>2, <2>1 DEF BatchInv
<1> QED
  BY <1>1, <1>2, RowStep DEF RowMoves

\* A transaction begins only while the business its item belongs to is the
\* active one, however the user switches while passes run.
THEOREM SendsKeepTenant == Spec => SentUnderItsBusiness
<1>1. Init => BatchInv
  BY DEF Init, NoWork, BatchInv
<1>2. TypeOK /\ BatchInv /\ [Next]_vars => BatchInv'
  BY BatchStep
<1>3. TypeOK /\ BatchInv /\ [Next]_vars =>
        [\A i \in Items : (\E by \in Passes \cup {Lane} : <<i, by>> \in wire' \ wire)
           => business = Item[i].tenant]_vars
  <2> SUFFICES ASSUME TypeOK, BatchInv, [Next]_vars, NEW i \in Items,
                      NEW by \in Passes \cup {Lane}, <<i, by>> \in wire' \ wire
               PROVE  business = Item[i].tenant
    OBVIOUS
  <2>1. by # Orphan
    BY OwnersAssumption
  <2>2. PICK p \in Passes : Own(p, i) \/ SendSerial(p, i)
    BY <2>1, WireStep
  <2>3. ContextActive(p) /\ att[p][i] # "out"
    BY <2>2 DEF Own, SendSerial, ReadySerial
  <2> QED
    BY <2>3 DEF ContextActive, BatchInv
<1> QED
  BY <1>1, <1>2, <1>3, TypeCorrect, PTL DEF Spec, SentUnderItsBusiness

-----------------------------------------------------------------------------
(* The newest product write stands.  Writes of a product are sent oldest     *)
(* first, a write is sent only once every older one is closed (its key is    *)
(* claimed on the server, so nothing of it can still be written), and what   *)
(* is closed stays closed: so no transaction left behind, by whatever pass,  *)
(* can overlay a newer write.                                                *)

\* Nothing is refused for good, lost by a reload or wiped: after that an older write
\* may legitimately land after a newer one.
NothingGivenUp == May \cap {"deny", "crash", "clear", "discard", "signout"} = {}

\* Two product writes under one key do not carry the same.
KeysTellApart ==
  \A i, j \in Items :
    IsProduct(i) /\ Item[i].key = Item[j].key /\ Envelope(i) = Envelope(j) => i = j

InOrder(j) == \A i \in Items : i < j /\ SameProduct(i, j) => ~Unclaimed(i)

Numbered ==
  /\ recorded = {i \in Items : i <= made}
  /\ \A i \in Items : queue[i] # "absent" => i \in recorded

AnsweredClosed ==
  /\ \A i \in Items : queue[i] = "quarantined" => ~Unclaimed(i)
  /\ \A p \in Passes, i \in Items :
       att[p][i] \in {"gotOk", "ok", "won", "gotQuar", "quar"} => ~Unclaimed(i)

\* An older write of a product in the batch is in the batch too, or closed.
BatchClosed ==
  \A p \in Passes, i, j \in Items :
    i < j /\ SameProduct(i, j) /\ att[p][j] # "out" /\ att[p][i] = "out" => ~Unclaimed(i)

SentInOrder ==
  /\ \A p \in Passes, j \in Items : att[p][j] \in Waiting => InOrder(j)
  /\ \A w \in wire : InOrder(w[1])

MarkedInOrder ==
  \A k \in Keys, j \in Items : marker[k] = j => Item[j].key = k /\ InOrder(j)

ProductsInOrder ==
  \A i \in Items : IsProduct(i) /\ Settled(i) =>
    doc[Item[i].entity] # None /\ doc[Item[i].entity] >= i

OrderInv == Numbered /\ AnsweredClosed /\ BatchClosed /\ SentInOrder
              /\ MarkedInOrder /\ ProductsInOrder

\* A claimed key stays claimed, and a transaction claims its own.
LEMMA ClosedStable ==
  ASSUME TypeOK, [Next]_vars, NEW i \in Items, ~Unclaimed(i)
  PROVE  ~Unclaimed(i)'
<1>1. ASSUME NEW j \in Items, Transact(j) PROVE marker'[Item[i].key] = marker[Item[i].key]
  BY <1>1, ItemFields DEF Transact, Unclaimed, TypeOK, ServerTypeOK, serverVars
<1> QED
  BY <1>1, ServerStep DEF Unclaimed, serverVars

LEMMA TransactCloses ==
  ASSUME TypeOK, NEW i \in Items, Transact(i)
  PROVE  ~Unclaimed(i)'
  BY ItemFields, NoneAssumption DEF Transact, Unclaimed, TypeOK, ServerTypeOK, serverVars

LEMMA InOrderStable ==
  ASSUME TypeOK, [Next]_vars, NEW j \in Items, InOrder(j)
  PROVE  InOrder(j)'
<1>1. \A i \in Items : SameProduct(i, j)' <=> SameProduct(i, j)
  BY DEF SameProduct, IsProduct
<1> QED
  BY <1>1, ClosedStable DEF InOrder

\* A pass opens an attempt of a product write once the older ones in its batch
\* are won: in the lane by the order of the group, on the serial lane because
\* a failure blocks those behind it.
LEMMA StartInOrder ==
  ASSUME TypeOK, OrderInv, NEW p \in Passes, NEW j \in Items,
         OpenProduct(p, j) \/ SendSerial(p, j)
  PROVE  InOrder(j)
<1> SUFFICES ASSUME NEW i \in Items, i < j, SameProduct(i, j) PROVE ~Unclaimed(i)
  BY DEF InOrder
<1>0. /\ att[p][j] = "todo" /\ j \in Batch(p)
      /\ \A k \in Items : k \in Int
  BY ItemsAssumption DEF OpenProduct, ReadyProduct, SendSerial, ReadySerial, Batch
<1>1. CASE att[p][i] = "out"
  BY <1>0, <1>1 DEF OrderInv, BatchClosed
<1>2. CASE att[p][i] \in Won
  BY <1>2 DEF OrderInv, AnsweredClosed, Won
<1>3. CASE i \in Batch(p) /\ att[p][i] \notin Won
  <2>1. CASE OpenProduct(p, j)
    <3>1. Independent(p, j) /\ WorkerReaches(p, j)
      BY <2>1 DEF OpenProduct, ReadyProduct
    <3>2. i \in Group(p, j)
      BY <1>3, <3>1 DEF Group, Independent, SameProduct
    <3> QED
      BY <1>3, <3>1, <3>2 DEF WorkerReaches
  <2>2. CASE SendSerial(p, j)
    <3>1. ~Independent(p, j) /\ ~Blocked(p, j)
      BY <2>2 DEF SendSerial, ReadySerial
    <3>2. ~Independent(p, i)
      BY <3>1 DEF Independent, SameProduct
    <3>3. att[p][i] \in Won \cup Lost \/ Blocked(p, i)
      BY <1>3, <2>2, <3>2 DEF SendSerial, ReadySerial
    <3>4. CASE att[p][i] \in Lost
      BY <1>3, <3>1, <3>2, <3>4 DEF Blocked, SameProduct
    <3>5. CASE Blocked(p, i)
      <4>1. PICK k \in Batch(p) : k < i /\ SameProduct(i, k) /\ ~Independent(p,
      k) /\ att[p][k] \in Lost
        BY <3>5 DEF Blocked
      <4>2. k < j /\ SameProduct(j, k)
        BY <1>0, <4>1 DEF SameProduct, Batch
      <4> QED
        BY <3>1, <4>1, <4>2 DEF Blocked
    <3> QED
      BY <1>3, <3>3, <3>4, <3>5
  <2> QED
    BY <2>1, <2>2
<1> QED
  BY <1>1, <1>2, <1>3 DEF Batch

LEMMA SentInOrderStep ==
  ASSUME TypeOK, OrderInv, [Next]_vars
  PROVE  SentInOrder'
<1>1. ASSUME NEW p \in Passes, NEW j \in Items, att'[p][j] \in Waiting
      PROVE  InOrder(j)'
  <2>1. CASE StartPass(p)
    BY <1>1, <2>1 DEF StartPass, TypeOK
  <2>2. CASE Move(p, j)
    <3>1. \/ att[p][j] \in Waiting
          \/ OpenProduct(p, j) \/ SendSerial(p, j)
      BY <1>1, <2>2 DEF Move
    <3>2. InOrder(j)
      BY <3>1, StartInOrder DEF OrderInv, SentInOrder
    <3> QED
      BY <3>2, InOrderStable
  <2> QED
    BY <1>1, <2>1, <2>2, RowStep DEF RowMoves
<1>2. ASSUME NEW w \in wire' PROVE InOrder(w[1])'
  <2>0. w[1] \in Items
    BY NextType DEF TypeOK
  <2>1. \/ \E v \in wire : v[1] = w[1]
        \/ \E p \in Passes : att[p][w[1]] = "open" \/ SendSerial(p, w[1])
    BY WireStep DEF Own
  <2>2. InOrder(w[1])
    BY <2>0, <2>1, StartInOrder DEF OrderInv, SentInOrder
  <2> QED
    BY <2>0, <2>2, InOrderStable
<1> QED
  BY <1>1, <1>2 DEF SentInOrder

\* Items are numbered as they are made, and only enqueueAndSync makes one.
LEMMA MadeStep ==
  ASSUME [Next]_vars, ~Reload, ~Wipes
  PROVE  (\E i \in Items, p \in Passes : EnqueueAndSync(i, p)) \/ UNCHANGED <<made, recorded>>
<1>1. ASSUME NEW p \in Passes, PassStep(p) PROVE UNCHANGED <<made, recorded>>
  BY <1>1 DEF PassStep, StartPass, SkipPass, FinishPass, OpenProduct, Join, Sleep, Own,
              StopWaiting, SendSerial, Process, local
<1>2. ASSUME NEW p \in Passes, User(p)
      PROVE  (\E i \in Items : EnqueueAndSync(i, p)) \/ UNCHANGED <<made, recorded>>
  BY <1>2 DEF User, Enqueue, StartSession, RetrySync, GoOnline, BusinessLoaded
<1>3. CASE Timer \/ Network \/ GoOffline \/ SetContext \/ Persist
  BY <1>3 DEF Timer, Stall, LaneTimeout, AttemptTimeout, Network, Commit, CommitUnacked, Fail,
              Deny, SettleWith, GoOffline, SetContext, SetBusinessContext, Persist, local
<1>4. CASE UNCHANGED vars
  BY <1>4 DEF vars, local
<1> QED
  BY <1>1, <1>2, <1>3, <1>4 DEF Next, Event, SetContext, Wipes

LEMMA NumberedStep ==
  ASSUME NothingGivenUp, TypeOK, Numbered, [Next]_vars
  PROVE  Numbered'
<1>0. ~Reload /\ ~Wipes
  BY DEF NothingGivenUp, Reload, Wipes, ClearLocalCache, ClearSession, SignOut, Wiped, Blank
<1>1. CASE UNCHANGED <<made, recorded>>
  <2>1. ASSUME NEW i \in Items, queue'[i] # "absent", queue[i] = "absent" PROVE i \in recorded'
    <3>1. \E p \in Passes : EnqueueAndSync(i, p)
      BY <1>0, <2>1, Revival DEF Enqueue, StartSession
    <3> QED
      BY <3>1 DEF EnqueueAndSync
  <2> QED
    BY <1>1, <2>1 DEF Numbered
<1>2. ASSUME NEW j \in Items, NEW p \in Passes, EnqueueAndSync(j, p) PROVE Numbered'
  <2>1. /\ j = made + 1 /\ made' = made + 1 /\ recorded' = recorded \cup {j}
        /\ queue' = [queue EXCEPT ![j] = "pending"]
    BY <1>2 DEF EnqueueAndSync
  <2>2. \A i \in Items : i <= made + 1 <=> i <= made \/ i = made + 1
    BY ItemsAssumption DEF TypeOK
  <2>3. recorded' = {i \in Items : i <= made'}
    BY <2>1, <2>2 DEF Numbered
  <2>4. \A i \in Items : queue'[i] # "absent" => i \in recorded'
    BY <2>1 DEF Numbered, TypeOK
  <2> QED
    BY <2>3, <2>4 DEF Numbered
<1> QED
  BY <1>0, <1>1, <1>2, MadeStep

\* Only a refused result, or the queue itself, says an item is quarantined.
LEMMA QuarantineOrigin ==
  ASSUME TypeOK, [Next]_vars, ~Reload, NEW i \in Items, queue'[i] = "quarantined"
  PROVE  queue[i] = "quarantined" \/ \E p \in Passes : att[p][i] \in {"gotQuar", "quar"}
<1>0. att \in [Passes -> [Items -> Marks]]
  BY DEF TypeOK
<1>1. ASSUME NEW p \in Passes, PassStep(p)
      PROVE  queue[i] = "quarantined" \/ att[p][i] \in {"gotQuar", "quar"}
  <2>1. ASSUME NEW row, NEW events, FlushProgress(p, row, events)
        PROVE  queue[i] = "quarantined" \/ row[i] = "quar"
    BY <2>1 DEF FlushProgress
  <2>2. CASE FinishPass(p)
    BY <2>1, <2>2 DEF FinishPass
  <2>3. ASSUME NEW j \in Items, Process(p, j)
        PROVE  queue[i] = "quarantined" \/ att[p][i] \in {"gotQuar", "quar"}
    <3> DEFINE row == [att[p] EXCEPT ![j] = Outcome(att[p][j])]
    <3>1. row[i] = "quar" => att[p][i] \in {"gotQuar", "quar"}
      BY <1>0, <2>3 DEF Process, Outcome
    <3>2. (\E events : FlushProgress(p, row, events)) \/ queue' = queue
      BY <2>3 DEF Process
    <3> HIDE DEF row
    <3> QED
      BY <2>1, <3>1, <3>2
  <2>4. ASSUME NEW j \in Items,
               OpenProduct(p, j) \/ Join(p, j) \/ Sleep(p, j) \/ Own(p, j)
                 \/ StopWaiting(p, j) \/ SendSerial(p, j)
        PROVE  queue[i] = "quarantined"
    BY <2>4 DEF OpenProduct, Join, Sleep, Own, StopWaiting, SendSerial, local
  <2>5. CASE StartPass(p) \/ SkipPass(p)
    BY <2>5 DEF StartPass, SkipPass, local
  <2> QED
    BY <1>1, <2>2, <2>3, <2>4, <2>5 DEF PassStep
<1>2. ASSUME NEW p \in Passes, User(p) PROVE queue[i] = "quarantined"
  BY <1>2 DEF User, Enqueue, StartSession, EnqueueAndSync, RetrySync, GoOnline, BusinessLoaded,
              TypeOK
<1>3. CASE Timer \/ Network \/ GoOffline \/ SetContext \/ Persist
  BY <1>3 DEF Timer, Stall, LaneTimeout, AttemptTimeout, Network, Commit, CommitUnacked, Fail,
              Deny, SettleWith, GoOffline, SetContext, SetBusinessContext, Persist, local
<1>4. CASE Wipes
  BY <1>4 DEF Wipes, ClearLocalCache, ClearSession, SignOut, Wiped, Blank, NoItem
<1>5. CASE UNCHANGED vars
  BY <1>5 DEF vars, local
<1> QED
  BY <1>1, <1>2, <1>3, <1>4, <1>5 DEF Next, Event, SetContext, Wipes

LEMMA AnsweredStep ==
  ASSUME NothingGivenUp, TypeOK, AnsweredClosed, [Next]_vars
  PROVE  AnsweredClosed'
<1>0. ~Reload /\ "deny" \notin May
  BY DEF NothingGivenUp, Reload
<1>1. ASSUME NEW i \in Items, queue'[i] = "quarantined" PROVE ~Unclaimed(i)'
  <2>1. ~Unclaimed(i)
    BY <1>0, <1>1, QuarantineOrigin DEF AnsweredClosed
  <2> QED
    BY <2>1, ClosedStable
<1>2. ASSUME NEW p \in Passes, NEW i \in Items,
             att'[p][i] \in {"gotOk", "ok", "won", "gotQuar", "quar"}
      PROVE  ~Unclaimed(i)'
  <2>1. CASE StartPass(p)
    BY <1>2, <2>1 DEF StartPass, TypeOK
  <2>2. CASE Move(p, i)
    <3>1. \/ att[p][i] \in {"gotOk", "ok", "won", "gotQuar", "quar"}
          \/ Transact(i)
      BY <1>0, <1>2, <2>2 DEF Move
    <3>2. CASE att[p][i] \in {"gotOk", "ok", "won", "gotQuar", "quar"}
      BY <3>2, ClosedStable DEF AnsweredClosed
    <3> QED
      BY <3>1, <3>2, TransactCloses
  <2> QED
    BY <1>2, <2>1, <2>2, RowStep DEF RowMoves
<1> QED
  BY <1>1, <1>2 DEF AnsweredClosed

LEMMA BatchClosedStep ==
  ASSUME TypeOK, NothingLost, OrderInv, [Next]_vars
  PROVE  BatchClosed'
<1> SUFFICES ASSUME NEW p \in Passes, NEW i \in Items, NEW j \in Items,
                    i < j, SameProduct(i, j), att'[p][j] # "out", att'[p][i] = "out"
             PROVE  ~Unclaimed(i)'
  <2>1. \A i, j \in Items : SameProduct(i, j)' <=> SameProduct(i, j)
    BY DEF SameProduct, IsProduct
  <2> QED
    BY <2>1 DEF BatchClosed
<1>1. CASE StartPass(p)
  <2>1. /\ queue[j] \in {"pending", "error"} /\ Item[j].tenant = business
        /\ queue[i] \notin {"pending", "error"} \/ Item[i].tenant # business
    BY <1>1 DEF StartPass, TypeOK
  <2>2. queue[i] \in {"absent", "quarantined"}
    BY <2>1, EntityAssumption DEF SameProduct, TypeOK
  <2>3. i \in recorded
    <3>1. j <= made /\ made \in Nat /\ i \in Nat /\ j \in Nat
      BY <2>1, ItemsAssumption DEF OrderInv, Numbered, TypeOK
    <3> QED
      BY <3>1 DEF OrderInv, Numbered
  <2>4. ~Unclaimed(i)
    BY <2>2, <2>3 DEF NothingLost, Settled, OrderInv, AnsweredClosed
  <2> QED
    BY <2>4, ClosedStable
<1>2. CASE Move(p, i) /\ Move(p, j)
  <2>1. att[p][i] = "out"
    BY <1>2 DEF Move
  <2>2. att[p][j] # "out"
    BY <1>2 DEF Move, OpenProduct, ReadyProduct, SendSerial, ReadySerial
  <2> QED
    BY <2>1, <2>2, ClosedStable DEF OrderInv, BatchClosed
<1> QED
  BY <1>1, <1>2, RowStep DEF RowMoves

\* Only what is on the wire writes to the server.
LEMMA ServerFromWire ==
  ASSUME TypeOK, [Next]_vars
  PROVE  (\E w \in wire : Transact(w[1])) \/ UNCHANGED serverVars
<1>1. CASE UNCHANGED vars
  BY <1>1 DEF vars
<1>2. ASSUME NEW p \in Passes, PassStep(p) PROVE UNCHANGED serverVars
  BY <1>2 DEF PassStep, StartPass, SkipPass, FinishPass, OpenProduct, Join, Sleep, Own,
              StopWaiting, SendSerial, Process
<1>3. ASSUME NEW p \in Passes, User(p) PROVE UNCHANGED serverVars
  BY <1>3 DEF User, Enqueue, StartSession, EnqueueAndSync, RetrySync, GoOnline, BusinessLoaded
<1>4. CASE Timer \/ GoOffline \/ SetContext \/ Persist \/ Reload \/ Wipes
  BY <1>4 DEF Timer, Stall, LaneTimeout, AttemptTimeout, GoOffline, SetContext, SetBusinessContext,
              Persist,
              Reload, Wipes, ClearLocalCache, ClearSession, SignOut, Wiped, Blank
<1>5. CASE Network
  <2> PICK w \in wire : Commit(w[1], w[2]) \/ CommitUnacked(w[1], w[2])
                        \/ Fail(w[1], w[2]) \/ Deny(w[1], w[2])
    BY <1>5 DEF Network
  <2>1. Transact(w[1]) \/ UNCHANGED serverVars
    BY DEF Commit, CommitUnacked, Fail, Deny
  <2> QED
    BY <2>1
<1> QED
  BY <1>1, <1>2, <1>3, <1>4, <1>5 DEF Next, Event, SetContext, Wipes

\* The server takes one write in order, under a key nobody had claimed, or
\* nothing changes there.
LEMMA WriteInOrder ==
  ASSUME TypeOK, SentInOrder, [Next]_vars
  PROVE  \/ UNCHANGED serverVars
         \/ \E j \in Items : /\ Unclaimed(j) /\ InOrder(j)
                             /\ marker' = [marker EXCEPT ![Item[j].key] = j]
                             /\ Increment(j) \/ SetDocument(j)
<1>1. ASSUME NEW w \in wire, Transact(w[1])
      PROVE  \/ UNCHANGED serverVars
             \/ \E j \in Items : /\ Unclaimed(j) /\ InOrder(j)
                                 /\ marker' = [marker EXCEPT ![Item[j].key] = j]
                                 /\ Increment(j) \/ SetDocument(j)
  <2>1. PICK j \in Items : j = w[1]
    BY DEF TypeOK
  <2>2. Transact(j) /\ InOrder(j)
    BY <1>1, <2>1 DEF SentInOrder
  <2> QED
    BY <2>2 DEF Transact
<1> QED
  BY <1>1, ServerFromWire

LEMMA MarkedStep ==
  ASSUME TypeOK, SentInOrder, MarkedInOrder, [Next]_vars
  PROVE  MarkedInOrder'
<1> SUFFICES ASSUME NEW k \in Keys, NEW j \in Items, marker'[k] = j
             PROVE  Item[j].key = k /\ InOrder(j)'
  BY DEF MarkedInOrder
<1>1. Item[j].key = k /\ InOrder(j)
  <2>1. CASE marker'[k] = marker[k]
    BY <2>1 DEF MarkedInOrder
  <2>2. ASSUME NEW i \in Items, InOrder(i), marker' = [marker EXCEPT ![Item[i].key] = i],
               marker'[k] # marker[k]
        PROVE  Item[j].key = k /\ InOrder(j)
    <3>1. k = Item[i].key /\ j = i
      BY <2>2 DEF TypeOK, ServerTypeOK
    <3> QED
      BY <2>2, <3>1
  <2> QED
    BY <2>1, <2>2, WriteInOrder DEF serverVars
<1> QED
  BY <1>1, InOrderStable

LEMMA ProductsStep ==
  ASSUME KeysTellApart, TypeOK, OrderInv, [Next]_vars
  PROVE  ProductsInOrder'
<1> SUFFICES ASSUME NEW i \in Items, IsProduct(i), Settled(i)'
             PROVE  doc'[Item[i].entity] # None /\ doc'[Item[i].entity] >= i
  BY DEF ProductsInOrder, IsProduct
<1> DEFINE e == Item[i].entity
<1>0. /\ e \in Entities /\ None \notin Items /\ doc[e] \in Items \cup {None}
      /\ \A k \in Items : k \in Nat
  BY ItemFields, NoneAssumption, ItemsAssumption DEF TypeOK, ServerTypeOK
<1>1. CASE UNCHANGED serverVars
  BY <1>1 DEF serverVars, OrderInv, ProductsInOrder, Settled, Unclaimed, Envelope
<1>2. ASSUME NEW j \in Items, Unclaimed(j), InOrder(j),
             marker' = [marker EXCEPT ![Item[j].key] = j], Increment(j) \/ SetDocument(j)
      PROVE  doc'[e] # None /\ doc'[e] >= i
  <2>0. Transact(j)
    BY <1>2 DEF Transact
  <2>1. CASE Settled(i)
    <3>1. doc[e] # None /\ doc[e] >= i
      BY <2>1 DEF OrderInv, ProductsInOrder
    <3>2. CASE Item[j].entity = e /\ doc'[e] = j
      <4>1. marker[Item[i].key] = i
        <5>1. PICK m \in Items : m = marker[Item[i].key]
          BY <2>1, ItemFields DEF Settled, Unclaimed, TypeOK, ServerTypeOK
        <5>2. Item[m].key = Item[i].key /\ Envelope(m) = Envelope(i)
          BY <2>1, <5>1, ItemFields DEF OrderInv, MarkedInOrder, Settled
        <5> QED
          BY <5>1, <5>2 DEF KeysTellApart
      <4>2. InOrder(i)
        BY <4>1, ItemFields DEF OrderInv, MarkedInOrder
      <4>3. SameProduct(j, i)
        BY <3>2, EntityAssumption DEF SameProduct, IsProduct
      <4>4. ~(j < i)
        BY <1>2, <4>2, <4>3 DEF InOrder
      <4> QED
        BY <1>0, <3>2, <4>4
    <3> QED
      BY <1>0, <2>0, <3>1, <3>2, DocumentStep
  <2>2. CASE ~Settled(i)
    <3>1. Envelope(j) = Envelope(i) /\ Item[j].key = Item[i].key
      <4>1. Envelope(j) = Envelope(i)
        BY <2>0, <2>2, NewlySettled
      <4>2. marker'[Item[i].key] # marker[Item[i].key]
        BY <2>2 DEF Settled, Unclaimed
      <4> QED
        BY <1>2, <4>1, <4>2, ItemFields DEF TypeOK, ServerTypeOK
    <3>2. i = j
      BY <3>1 DEF KeysTellApart
    <3>3. SetDocument(j) /\ ~StaleReviewDecision(j)
      BY <1>2, <3>2 DEF Increment, IsIncrement, IsProduct, StaleReviewDecision
    <3>4. doc'[e] = i
      BY <1>0, <3>2, <3>3 DEF SetDocument, TypeOK, ServerTypeOK
    <3> QED
      BY <1>0, <3>4
  <2> QED
    BY <2>1, <2>2
<1> QED
  BY <1>1, <1>2, WriteInOrder DEF OrderInv

\* Whatever passes are abandoned, time out, fail, are retried or outlive a
\* switch of business: a product write that reached the server is never
\* overlaid by an older one, as long as none is refused for good, lost by a
\* reload or wiped.
THEOREM NewestProductsStand ==
  NothingGivenUp /\ KeysTellApart => (Spec => []NewestProductStands)
<1> SUFFICES ASSUME NothingGivenUp, KeysTellApart
             PROVE  Spec => []NewestProductStands
  OBVIOUS
<1> DEFINE Inv == IInv /\ OrderInv
<1>1. Init => Inv
  <2> SUFFICES ASSUME Init PROVE Inv
    OBVIOUS
  <2>1. IInv
    BY InitType DEF IInv, Init, NoWork, Acked, NothingLost, Blank
  <2>2. \A i \in Items : Unclaimed(i)
    BY ItemFields DEF Init, ServerInit, Unclaimed
  <2>3. Numbered
    <3>1. \A i \in Items : ~(i <= 0)
      BY ItemsAssumption
    <3>2. recorded = {i \in Items : i <= made}
      BY <3>1 DEF Init
    <3> QED
      BY <3>2 DEF Init, NoItem, Numbered
  <2>4. AnsweredClosed /\ BatchClosed /\ SentInOrder
    BY DEF Init, NoItem, NoWork, AnsweredClosed, BatchClosed, SentInOrder
  <2>5. MarkedInOrder /\ ProductsInOrder
    BY <2>2, NoneAssumption DEF Init, ServerInit, MarkedInOrder, ProductsInOrder, Settled
  <2> QED
    BY <2>1, <2>3, <2>4, <2>5 DEF OrderInv
<1>2. Inv /\ [Next]_vars => Inv'
  <2> SUFFICES ASSUME IInv, OrderInv, [Next]_vars PROVE IInv' /\ OrderInv'
    OBVIOUS
  <2>1. IInv'
    BY NextType, AckedStep, NothingLostStep DEF IInv
  <2>2. Numbered' /\ AnsweredClosed' /\ BatchClosed'
    BY NumberedStep, AnsweredStep, BatchClosedStep DEF IInv, OrderInv
  <2>3. SentInOrder' /\ MarkedInOrder' /\ ProductsInOrder'
    BY SentInOrderStep, MarkedStep, ProductsStep DEF IInv, OrderInv
  <2> QED
    BY <2>1, <2>2, <2>3 DEF OrderInv
<1>3. Inv => NewestProductStands
  BY DEF OrderInv, ProductsInOrder, NewestProductStands
<1> QED
  BY <1>1, <1>2, <1>3, PTL DEF Spec
=============================================================================
