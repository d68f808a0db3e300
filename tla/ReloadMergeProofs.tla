------------------------- MODULE ReloadMergeProofs --------------------------
(***************************************************************************)
(* What the reloads promise, for any number of businesses, scans, sessions, *)
(* products and loads in flight: tenant isolation, a gate that opens, a    *)
(* feed and counts that no merge takes back.                               *)
(***************************************************************************)
EXTENDS ReloadMerge, TLAPS, WellFoundedInduction, SequenceTheorems, FiniteSetTheorems

Loads == UNION {Load(D) : D \in SUBSET RowKeys}
Scanned == [session: Sessions, here: BOOLEAN]

\* TypeOK by the part of the state, with the loads as a sequence.
TypedScreen ==
  /\ tenant \in Tenants \cup {None} /\ loaded \in BOOLEAN /\ (loaded => tenant # None)
  /\ session \in Sessions \cup {None} /\ RowMap(rows, Row)
  /\ feed \subseteq Events /\ archived \subseteq Products /\ products \in Products
TypedQueue == queue \subseteq Item /\ landed \subseteq queue /\ others \subseteq Item
TypedLoads == loads \in Seq(Loads) /\ Len(loads) <= MaxLoads
TypedCloud ==
  /\ RowMap(cloudRows, Int) /\ cloudFeed \subseteq Events
  /\ cloudSessions \subseteq Sessions /\ cloudArchived \subseteq Tenants \X Products
TypedHistory ==
  /\ scans \in Seq(Scanned) /\ Len(scans) <= MaxScans
  /\ owner \in Seq(Tenants) /\ Len(owner) <= MaxSessions
Typed == TypedScreen /\ TypedQueue /\ TypedLoads /\ TypedCloud /\ TypedHistory

Owned(s, t) == s \in 1..Len(owner) /\ owner[s] = t
Begun(s) == s \in 1..Len(owner)
Made(e) == e \in 1..Len(scans) /\ Begun(scans[e].session)

\* What is on screen is of the current business.
ScreenOwned ==
  /\ session # None => Owned(session, tenant)
  /\ \A k \in DOMAIN rows : Owned(k[1], tenant)
  /\ \A e \in feed : Made(e) /\ owner[scans[e].session] = tenant

\* What a load has read is of the business it was begun for.
LoadOwned(r) ==
  /\ \A k \in DOMAIN r.rows : Owned(k[1], r.tenant)
  /\ \A s \in r.sessions : Owned(s, r.tenant)
  /\ \A e \in r.feed : Made(e) /\ owner[scans[e].session] = r.tenant
  /\ r.phase = "rows" => r.sessions # {}
LoadsOwned == \A l \in DOMAIN loads : LoadOwned(loads[l])

\* What travels and what the cloud holds names sessions and scans that exist.
ItemGrounded(i) == Begun(i.session) /\ (i.event # None => Made(i.event))
ItemsGrounded == \A i \in queue \cup others : ItemGrounded(i)
CloudGrounded ==
  /\ \A k \in DOMAIN cloudRows : Begun(k[1])
  /\ \A s \in cloudSessions : Begun(s)
  /\ \A e \in cloudFeed : Made(e)
ScansGrounded == \A e \in 1..Len(scans) : Begun(scans[e].session)

IInv ==
  Typed /\ ScreenOwned /\ LoadsOwned /\ ItemsGrounded /\ CloudGrounded /\ ScansGrounded

-----------------------------------------------------------------------------

LEMMA Bounds ==
  /\ MaxScans \in Nat /\ MaxSessions \in Nat /\ MaxProducts \in Nat /\ MaxLoads \in Nat
  /\ MaxProducts >= 1
  BY BoundsAssumption

\* A non-empty set of sessions has a newest one.
LEMMA MaxOfSessions ==
  ASSUME NEW S \in SUBSET Sessions, S # {}
  PROVE  Max(S) \in S /\ \A s \in S : Max(S) >= s
<1> DEFINE T == {MaxSessions - s : s \in S}
           R == OpToRel(<, Nat)
<1>1. T \subseteq Nat /\ T # {}
  <2>1. \A s \in S : MaxSessions - s \in Nat
    BY Bounds DEF Sessions
  <2> QED
    BY <2>1
<1>2. PICK x \in T : \A y \in T : ~(<<y, x>> \in R)
  <2>1. IsWellFoundedOn(R, Nat)
    BY NatLessThanWellFounded
  <2> HIDE DEF T, R
  <2> QED
    BY <1>1, <2>1, WFMin
<1>3. PICK m \in S : x = MaxSessions - m
  BY <1>2
<1>4. ASSUME NEW y \in S PROVE m >= y
  <2>1. MaxSessions - y \in T /\ MaxSessions - y \in Nat /\ x \in Nat
    BY <1>1
  <2>2. ~(MaxSessions - y < x)
    BY <1>2, <2>1 DEF OpToRel
  <2> QED
    BY <1>3, <2>2, Bounds DEF Sessions
<1> QED
  BY <1>4 DEF Max

LEMMA LoadFields ==
  ASSUME Typed, NEW l \in DOMAIN loads
  PROVE  /\ l \in 1..Len(loads)
         /\ loads[l] \in Load(DOMAIN loads[l].rows) /\ RowMap(loads[l].rows, Int)
<1>1. loads[l] \in Loads
  BY DEF Typed, TypedLoads
<1>2. PICK D \in SUBSET RowKeys : loads[l] \in Load(D)
  BY <1>1 DEF Loads
<1>3. loads[l].rows \in [D -> Int]
  BY <1>2 DEF Load
<1>4. DOMAIN loads[l].rows = D
  BY <1>3
<1>5. l \in 1..Len(loads)
  BY DEF Typed, TypedLoads
<1> QED
  BY <1>2, <1>3, <1>4, <1>5 DEF RowMap

LEMMA TypedType == ASSUME Typed PROVE TypeOK
<1>1. \A l \in DOMAIN loads :
        RowMap(loads[l].rows, Int) /\ loads[l] \in Load(DOMAIN loads[l].rows)
  BY LoadFields
<1> QED
  BY <1>1 DEF Typed, TypedScreen, TypedQueue, TypedLoads, TypedCloud, TypedHistory, TypeOK, Scanned


\* A load is begun, or replaced by another one of its kind and business.
LEMMA BeginTyped ==
  ASSUME Typed, NEW k \in {"load", "refresh"}, Begin(k), tenant' \in Tenants
  PROVE  /\ loads' \in Seq(Loads) /\ Len(loads') = Len(loads) + 1 /\ Len(loads') <= MaxLoads
         /\ \A l \in 1..Len(loads) : loads'[l] = loads[l]
         /\ loads'[Len(loads) + 1] = Asked(k)
<1>1. Asked(k) \in Load({})
  BY DEF Asked, Load, NoRows
<1>2. Asked(k) \in Loads
  BY <1>1 DEF Loads
<1> QED
  BY <1>2, Bounds DEF Begin, Typed, TypedLoads

LEMMA InitInv == Init => IInv
<1> SUFFICES ASSUME Init PROVE IInv
  OBVIOUS
<1>1. Typed
  <2>1. RowMap(rows, Row) /\ RowMap(cloudRows, Int)
    BY DEF Init, NoRows, RowMap
  <2>2. loads \in Seq(Loads) /\ scans \in Seq(Scanned) /\ owner \in Seq(Tenants)
    BY DEF Init
  <2>3. Len(loads) = 0 /\ Len(scans) = 0 /\ Len(owner) = 0
    BY DEF Init
  <2>4. products \in Products
    BY Bounds DEF Init, Products
  <2>5. /\ ~loaded /\ tenant \in Tenants \cup {None} /\ loaded \in BOOLEAN /\ session \in Sessions \cup {None}
        /\ feed \subseteq Events /\ archived \subseteq Products
    BY DEF Init
  <2>6. /\ queue \subseteq Item /\ landed \subseteq queue /\ others \subseteq Item
        /\ cloudFeed \subseteq Events /\ cloudSessions \subseteq Sessions
        /\ cloudArchived \subseteq Tenants \X Products
    BY DEF Init
  <2> QED
    BY <2>1, <2>2, <2>3, <2>4, <2>5, <2>6, Bounds
       DEF Typed, TypedScreen, TypedQueue, TypedLoads, TypedCloud, TypedHistory
<1>2. /\ ScreenOwned /\ LoadsOwned
      /\ ItemsGrounded /\ CloudGrounded /\ ScansGrounded
  BY DEF Init, NoRows, ScreenOwned, LoadsOwned, ItemsGrounded, CloudGrounded, ScansGrounded
<1> QED
  BY <1>1, <1>2 DEF IInv

-----------------------------------------------------------------------------
(* Items *)

LEMMA ItemFields ==
  ASSUME NEW i \in Item
  PROVE  /\ i.tenant \in Tenants /\ i.session \in Sessions /\ i.delta \in Int
         /\ i.op \in {"INCREMENT_COUNT", "SAVE_PRODUCT"} => i.product \in Products
         /\ i.op = "SAVE_SCAN_EVENT" => i.event \in Events
         /\ i.event \in Events \cup {None}
<1>1. CASE i.op = "SAVE_SCAN_EVENT"
  BY <1>1 DEF Item
<1>2. CASE i.op = "SAVE_SESSION"
  BY <1>2 DEF Item
<1>3. CASE i.op = "SAVE_PRODUCT"
  BY <1>3 DEF Item
<1>4. CASE i.op = "INCREMENT_COUNT"
  BY <1>4 DEF Item
<1> QED
  BY <1>1, <1>2, <1>3, <1>4 DEF Item

LEMMA ItemsMade ==
  ASSUME NEW t \in Tenants, NEW s \in Sessions, NEW p \in Products
  PROVE  /\ \A e \in Events : EventItem(t, s, e) \in Item
         /\ SessionItem(t, s) \in Item /\ ArchiveItem(t, s, p) \in Item
         /\ \A id \in RowIds, e \in Events \cup {None}, d \in Int :
              CountItem(t, <<s, p>>, id, e, d) \in Item
<1>1. \A e \in Events : EventItem(t, s, e) \in Item
  BY DEF EventItem, Item
<1>2. SessionItem(t, s) \in Item /\ ArchiveItem(t, s, p) \in Item
  BY DEF SessionItem, ArchiveItem, Item
<1>3. \A id \in RowIds, e \in Events \cup {None}, d \in Int :
        CountItem(t, <<s, p>>, id, e, d) \in Item
  BY DEF CountItem, Item
<1> QED
  BY <1>1, <1>2, <1>3

LEMMA TransfersMade ==
  ASSUME NEW t \in Tenants, NEW p \in Products, NEW q \in Products, NEW R, RowMap(R, Row)
  PROVE  /\ TransferItems(t, p, q, R) \subseteq Item
         /\ \A i \in TransferItems(t, p, q, R) :
              i.event = None /\ \E k \in DOMAIN R : i.session = k[1]
<1> SUFFICES ASSUME NEW i \in TransferItems(t, p, q, R)
             PROVE  i \in Item /\ i.event = None /\ \E k \in DOMAIN R : i.session = k[1]
  OBVIOUS
<1>1. PICK k \in DOMAIN R : /\ k[2] = p
                            /\ \/ i = CountItem(t, k, R[k].id, None, -R[k].qty)
                               \/ i = CountItem(t, <<k[1], q>>, R[k].id, None, R[k].qty)
  BY DEF TransferItems
<1>2. k \in RowKeys /\ R[k] \in Row
  BY DEF RowMap
<1>3. k = <<k[1], k[2]>> /\ k[1] \in Sessions /\ k[2] \in Products
      /\ R[k].id \in RowIds /\ R[k].qty \in Int /\ -R[k].qty \in Int
  BY <1>2 DEF RowKeys, Row
<1>4. i \in Item
  BY <1>1, <1>3, ItemsMade
<1> QED
  BY <1>1, <1>4 DEF CountItem

LEMMA LandInv ==
  ASSUME IInv, NEW i \in Item, ItemGrounded(i), Land(i),
         UNCHANGED <<owner, scans>>
  PROVE  TypedCloud' /\ CloudGrounded'
<1>1. RowMap(cloudRows', Int) /\ \A k \in DOMAIN cloudRows' : Begun(k[1])
  <2>1. CASE i.op # "INCREMENT_COUNT"
    BY <2>1 DEF Land, IInv, Typed, TypedCloud, CloudGrounded
  <2>2. CASE i.op = "INCREMENT_COUNT"
    <3>1. <<i.session, i.product>> \in RowKeys
      BY <2>2, ItemFields DEF RowKeys
    <3>2. DOMAIN cloudRows \subseteq RowKeys /\ \A c \in DOMAIN cloudRows : cloudRows[c] \in Int
      BY DEF IInv, Typed, TypedCloud, RowMap
    <3> DEFINE k == <<i.session, i.product>>
               D == DOMAIN cloudRows \cup {k}
    <3>3. cloudRows' = [c \in D |-> Quantity(cloudRows, c) + (IF c = k THEN i.delta ELSE 0)]
      BY <2>2 DEF Land
    <3>4. \A c \in D : Quantity(cloudRows, c) \in Int
      BY <3>2 DEF Quantity
    <3>6. i.delta \in Int
      BY ItemFields
    <3>5. RowMap(cloudRows', Int)
      <4> HIDE DEF k
      <4>1. k \in RowKeys
        BY <3>1 DEF k
      <4>2. \A c \in D : Quantity(cloudRows, c) + (IF c = k THEN i.delta ELSE 0) \in Int
        BY <3>4, <3>6
      <4>3. DOMAIN cloudRows' = D /\ D \subseteq RowKeys
        BY <3>2, <3>3, <4>1
      <4> QED
        BY <3>3, <4>2, <4>3 DEF RowMap
    <3> QED
      BY <3>3, <3>5 DEF IInv, CloudGrounded, ItemGrounded
  <2> QED
    BY <2>1, <2>2
<1>2. cloudFeed' \subseteq Events /\ \A e \in cloudFeed' : Made(e)
  <2>1. i.op = "SAVE_SCAN_EVENT" => i.event \in Events /\ Made(i.event)
    BY ItemFields, MayAssumption DEF ItemGrounded, Events
  <2> QED
    BY <2>1 DEF Land, IInv, Typed, TypedCloud, CloudGrounded
<1>3. cloudSessions' \subseteq Sessions /\ \A s \in cloudSessions' : Begun(s)
  BY ItemFields DEF Land, IInv, Typed, TypedCloud, CloudGrounded, ItemGrounded
<1>4. cloudArchived' \subseteq Tenants \X Products
  BY ItemFields DEF Land, IInv, Typed, TypedCloud
<1> QED
  BY <1>1, <1>2, <1>3, <1>4 DEF TypedCloud, CloudGrounded, Begun, Made

-----------------------------------------------------------------------------
(* The loads.  Most of their steps change nothing but the loads.            *)

LEMMA OnlyLoads ==
  ASSUME IInv, TypedLoads', LoadsOwned', loaded' \in BOOLEAN, loaded' => tenant # None,
         UNCHANGED <<tenant, view, queue, landed, others, cloud, scans, owner, products>>
  PROVE  IInv'
<1>1. TypedScreen' /\ TypedQueue' /\ TypedCloud' /\ TypedHistory'
  BY DEF IInv, Typed, TypedScreen, TypedQueue, TypedCloud, TypedHistory, view, cloud, RowMap
<1>2. ScreenOwned' /\ ItemsGrounded' /\ CloudGrounded' /\ ScansGrounded'
  BY DEF IInv, ScreenOwned, ItemsGrounded, CloudGrounded, ScansGrounded, ItemGrounded,
         Owned, Begun, Made, view, cloud
<1> QED
  BY <1>1, <1>2 DEF IInv, Typed

LEMMA ReplacedLoad ==
  ASSUME IInv, NEW l \in DOMAIN loads, NEW r \in Loads, LoadOwned(r),
         loads' = [loads EXCEPT ![l] = r], UNCHANGED <<scans, owner>>
  PROVE  TypedLoads' /\ LoadsOwned'
<1>1. TypedLoads' /\ Len(loads') = Len(loads)
  BY DEF IInv, Typed, TypedLoads
<1>2. \A m \in DOMAIN loads' : loads'[m] = r \/ (m \in DOMAIN loads /\ loads'[m] = loads[m])
  BY DEF IInv, Typed, TypedLoads
<1>3. \A x : LoadOwned(x) => LoadOwned(x)'
  BY DEF LoadOwned, Owned, Begun, Made
<1>4. LoadsOwned'
  BY <1>2, <1>3 DEF IInv, LoadsOwned, LoadOwned, Owned, Begun, Made
<1> QED
  BY <1>1, <1>4

LEMMA FinishedLoad ==
  ASSUME IInv, NEW l \in DOMAIN loads, loads' = Finished(l), UNCHANGED <<scans, owner>>
  PROVE  TypedLoads' /\ LoadsOwned'
<1> DEFINE r == [loads[l] EXCEPT !.phase = "done", !.rows = NoRows, !.feed = {},
                                 !.sessions = {}, !.archived = {}]
<1>1. r \in Load({}) /\ LoadOwned(r)
  BY LoadFields DEF IInv, Load, LoadOwned, NoRows
<1>2. r \in Loads
  BY <1>1 DEF Loads
<1>3. loads' = [loads EXCEPT ![l] = r]
  BY DEF Finished
<1> HIDE DEF r
<1> QED
  BY <1>1, <1>2, <1>3, ReplacedLoad

LEMMA ReadRowsInv ==
  ASSUME IInv, NEW l \in DOMAIN loads, ReadRows(l)
  PROVE  IInv'
<1> DEFINE t == loads[l].tenant
           mine == {k \in DOMAIN cloudRows : owner[k[1]] = t}
           known == {s \in cloudSessions : owner[s] = t}
           r == [loads[l] EXCEPT !.phase = IF known = {} THEN "read" ELSE "rows",
                                 !.rows = [k \in mine |-> cloudRows[k]],
                                 !.sessions = known,
                                 !.archived = {p \in Products : <<t, p>> \in cloudArchived}]
<1>1. mine \subseteq RowKeys /\ [k \in mine |-> cloudRows[k]] \in [mine -> Int]
      /\ known \subseteq Sessions
  BY DEF IInv, Typed, TypedCloud, RowMap
<1>2. loads[l] \in Load(DOMAIN loads[l].rows)
  BY LoadFields DEF IInv
<1>3. r \in Load(mine)
  BY <1>1, <1>2 DEF Load
<1>4. r \in Loads
  BY <1>1, <1>3 DEF Loads
<1>5. LoadOwned(r)
  <2>1. /\ r.tenant = t /\ r.sessions = known /\ r.feed = loads[l].feed
        /\ DOMAIN r.rows = mine /\ (r.phase = "rows" => known # {})
    BY <1>2 DEF Load
  <2>2. \A k \in mine : Owned(k[1], t)
    BY DEF IInv, CloudGrounded, Owned, Begun
  <2>3. \A s \in known : Owned(s, t)
    BY DEF IInv, CloudGrounded, Owned, Begun
  <2>4. \A e \in loads[l].feed : Made(e) /\ owner[scans[e].session] = t
    BY DEF IInv, LoadsOwned, LoadOwned
  <2> HIDE DEF r, mine, known, t
  <2> QED
    BY <2>1, <2>2, <2>3, <2>4 DEF LoadOwned
<1>6. loads' = [loads EXCEPT ![l] = r]
  BY DEF ReadRows
<1>7. TypedLoads' /\ LoadsOwned'
  <2> HIDE DEF r
  <2> QED
    BY <1>4, <1>5, <1>6, ReplacedLoad DEF ReadRows
<1> QED
  BY <1>7, OnlyLoads DEF ReadRows, IInv, Typed, TypedScreen

LEMMA RestoredOwned ==
  ASSUME IInv, NEW l \in DOMAIN loads, loads[l].sessions # {}
  PROVE  Restored(l) \in Sessions /\ Owned(Restored(l), loads[l].tenant)
<1>1. loads[l].sessions \in SUBSET Sessions
  BY LoadFields DEF IInv, Load
<1>2. Restored(l) \in loads[l].sessions
  BY <1>1, MaxOfSessions DEF Restored
<1> QED
  BY <1>1, <1>2 DEF IInv, LoadsOwned, LoadOwned

LEMMA ReadFeedInv ==
  ASSUME IInv, NEW l \in DOMAIN loads, ReadFeed(l)
  PROVE  IInv'
<1> DEFINE f == {e \in cloudFeed : scans[e].session = Restored(l)}
           r == [loads[l] EXCEPT !.phase = "read", !.feed = f]
<1>1. loads[l] \in Load(DOMAIN loads[l].rows) /\ DOMAIN loads[l].rows \subseteq RowKeys
  BY LoadFields DEF IInv, RowMap
<1>2. r \in Loads
  <2>1. f \in SUBSET Events
    BY DEF IInv, Typed, TypedCloud
  <2>2. r \in Load(DOMAIN loads[l].rows)
    BY <1>1, <2>1 DEF Load
  <2> QED
    BY <1>1, <2>2 DEF Loads
<1>3. LoadOwned(r)
  <2>1. LoadOwned(loads[l]) /\ loads[l].sessions # {}
    BY DEF IInv, LoadsOwned, LoadOwned, ReadFeed
  <2>2. \A e \in f : Made(e) /\ owner[scans[e].session] = loads[l].tenant
    BY <2>1, RestoredOwned DEF IInv, CloudGrounded, Owned
  <2>3. /\ r.rows = loads[l].rows /\ r.sessions = loads[l].sessions
        /\ r.tenant = loads[l].tenant /\ r.feed = f /\ r.phase = "read"
    BY <1>1 DEF Load
  <2> HIDE DEF f, r
  <2> QED
    BY <2>1, <2>2, <2>3 DEF LoadOwned
<1>4. loads' = [loads EXCEPT ![l] = r]
  BY DEF ReadFeed
<1>5. TypedLoads' /\ LoadsOwned'
  <2> HIDE DEF r
  <2> QED
    BY <1>2, <1>3, <1>4, ReplacedLoad DEF ReadFeed
<1> QED
  BY <1>5, OnlyLoads DEF ReadFeed, IInv, Typed, TypedScreen

LEMMA FailReadInv ==
  ASSUME IInv, NEW l \in DOMAIN loads, FailRead(l)
  PROVE  IInv'
<1>1. TypedLoads' /\ LoadsOwned'
  BY FinishedLoad DEF FailRead
<1>2. loads[l].tenant # None
  BY LoadFields, MayAssumption DEF IInv, Load
<1> QED
  BY <1>1, <1>2, OnlyLoads DEF FailRead, IInv, Typed, TypedScreen, Live

LEMMA SupersededInv ==
  ASSUME IInv, NEW l \in DOMAIN loads, Superseded(l)
  PROVE  IInv'
<1>1. TypedLoads' /\ LoadsOwned'
  BY FinishedLoad DEF Superseded
<1> QED
  BY <1>1, OnlyLoads DEF Superseded, IInv, Typed, TypedScreen

-----------------------------------------------------------------------------
(* The merges *)

LEMMA LoadedOwned ==
  ASSUME IInv, NEW l \in DOMAIN loads, Live(l)
  PROVE  /\ tenant \in Tenants /\ loads[l].tenant = tenant
         /\ loads[l].feed \subseteq Events /\ loads[l].archived \subseteq Products
         /\ DOMAIN loads[l].rows \subseteq RowKeys
         /\ \A k \in DOMAIN loads[l].rows : loads[l].rows[k] \in Int /\ Owned(k[1], tenant)
         /\ \A e \in loads[l].feed : Made(e) /\ owner[scans[e].session] = tenant
<1>1. /\ loads[l].tenant \in Tenants /\ loads[l].tenant = tenant
      /\ loads[l].feed \subseteq Events /\ loads[l].archived \subseteq Products
  BY LoadFields DEF IInv, Load, Live
<1>2. RowMap(loads[l].rows, Int)
  BY LoadFields DEF IInv
<1>3. DOMAIN loads[l].rows \subseteq RowKeys /\ \A k \in DOMAIN loads[l].rows : loads[l].rows[k] \in Int
  BY <1>2 DEF RowMap
<1>4. LoadOwned(loads[l])
  BY DEF IInv, LoadsOwned
<1> QED
  BY <1>1, <1>3, <1>4 DEF LoadOwned

\* Taking rows of a live load into rows of the business leaves both typed and owned.
LEMMA MergedRows ==
  ASSUME IInv, NEW l \in DOMAIN loads, Live(l), NEW R, RowMap(R, Row),
         \A k \in DOMAIN R : Owned(k[1], tenant),
         NEW taken \in SUBSET DOMAIN loads[l].rows
  PROVE  /\ RowMap(Merged(R, l, taken), Row)
         /\ \A k \in DOMAIN Merged(R, l, taken) : Owned(k[1], tenant)
<1> DEFINE D == DOMAIN R \cup taken
           v(k) == IF k \in taken THEN [qty |-> loads[l].rows[k], id |-> ReadId(k)] ELSE R[k]
<1>1. Merged(R, l, taken) = [k \in D |-> v(k)]
  BY DEF Merged
<1>2. D \subseteq RowKeys /\ \A k \in D : Owned(k[1], tenant)
  BY LoadedOwned DEF RowMap
<1>3. \A k \in D : v(k) \in Row
  <2>1. \A k \in taken : [qty |-> loads[l].rows[k], id |-> ReadId(k)] \in Row
    BY LoadedOwned DEF Row, RowIds, ReadId, RowKeys
  <2>2. \A k \in DOMAIN R : R[k] \in Row
    BY DEF RowMap
  <2> QED
    BY <2>1, <2>2
<1> HIDE DEF D, v
<1> QED
  BY <1>1, <1>2, <1>3 DEF RowMap

LEMMA MergeInv ==
  ASSUME IInv, NEW l \in DOMAIN loads, Merge(l)
  PROVE  IInv'
<1> USE DEF Merge
<1>1. TypedLoads' /\ LoadsOwned'
  BY FinishedLoad
<1>2. TypedQueue' /\ TypedCloud' /\ TypedHistory'
  BY DEF IInv, Typed, TypedQueue, TypedCloud, TypedHistory, cloud, RowMap
<1>3. ItemsGrounded' /\ CloudGrounded' /\ ScansGrounded'
  BY DEF IInv, ItemsGrounded, CloudGrounded, ScansGrounded, ItemGrounded, Begun, Made, cloud
<1>4. /\ RowMap(rows, Row) /\ \A k \in DOMAIN rows : Owned(k[1], tenant)
      /\ session \in Sessions \cup {None} /\ (session # None => Owned(session, tenant))
      /\ feed \subseteq Events /\ archived \subseteq Products /\ products \in Products
      /\ loaded \in BOOLEAN
      /\ \A e \in feed : Made(e) /\ owner[scans[e].session] = tenant
  BY DEF IInv, Typed, TypedScreen, ScreenOwned
<1>5. archived' \subseteq Products /\ tenant # None
  BY <1>4, LoadedOwned, MayAssumption DEF MergedArchive
<1>6. /\ RowMap(rows', Row) /\ \A k \in DOMAIN rows' : Owned(k[1], tenant)
      /\ session' \in Sessions \cup {None} /\ (session' # None => Owned(session', tenant))
      /\ feed' \subseteq Events /\ loaded' \in BOOLEAN
      /\ \A e \in feed' : Made(e) /\ owner[scans[e].session] = tenant
  <2>1. CASE MergeRefresh(l)
    <3>1. rows' = Merged(rows, l, {k \in DOMAIN loads[l].rows : ~Kept(k) /\ ~DeletedHere(k)})
      BY <2>1 DEF MergeRefresh, RefreshedRows
    <3>2. RowMap(rows', Row) /\ \A k \in DOMAIN rows' : Owned(k[1], tenant)
      BY <1>4, <3>1, MergedRows
    <3> QED
      BY <1>4, <2>1, <3>2 DEF MergeRefresh
  <2>2. CASE MergeLoad(l) /\ loads[l].sessions = {}
    BY <1>4, <2>2 DEF MergeLoad
  <2>3. CASE MergeLoad(l) /\ loads[l].sessions # {}
    <3> DEFINE R == [k \in {k \in DOMAIN rows : Seeded(l, k)} |-> rows[k]]
    <3>1. RowMap(R, Row) /\ \A k \in DOMAIN R : Owned(k[1], tenant)
      BY <1>4 DEF RowMap
    <3>2. rows' = Merged(R, l, {k \in DOMAIN loads[l].rows :
                                  k[1] = Restored(l) /\ ~KeptByLoad(k)})
      BY <2>3 DEF MergeLoad, LoadedRows
    <3>3. RowMap(rows', Row) /\ \A k \in DOMAIN rows' : Owned(k[1], tenant)
      <4> HIDE DEF R
      <4> QED
        BY <3>1, <3>2, MergedRows
    <3>4. session' \in Sessions /\ Owned(session', tenant)
      BY <2>3, RestoredOwned, LoadedOwned DEF MergeLoad
    <3>5. feed' \subseteq Events /\ \A e \in feed' : Made(e) /\ owner[scans[e].session] = tenant
      BY <1>4, <2>3, LoadedOwned DEF MergeLoad, RestoredFeed
    <3> QED
      BY <2>3, <3>3, <3>4, <3>5 DEF MergeLoad
  <2> QED
    BY <2>1, <2>2, <2>3
<1>7. TypedScreen'
  BY <1>4, <1>5, <1>6 DEF IInv, Typed, TypedScreen
<1>8. ScreenOwned'
  BY <1>6 DEF ScreenOwned, Owned, Made, Begun
<1> QED
  BY <1>1, <1>2, <1>3, <1>7, <1>8 DEF IInv, Typed

-----------------------------------------------------------------------------
(* Loads begun *)

LEMMA BegunLoad ==
  ASSUME IInv, NEW k \in {"load", "refresh"}, Begin(k), tenant' \in Tenants,
         UNCHANGED <<scans, owner>>
  PROVE  TypedLoads' /\ LoadsOwned'
<1>1. TypedLoads' /\ DOMAIN loads' = 1..(Len(loads) + 1)
  BY BeginTyped DEF IInv, TypedLoads
<1>2. \A l \in 1..Len(loads) : LoadOwned(loads'[l])
  BY BeginTyped DEF IInv, Typed, TypedLoads, LoadsOwned
<1>3. LoadOwned(loads'[Len(loads) + 1])
  BY BeginTyped DEF IInv, Asked, NoRows, LoadOwned
<1>4. Len(loads) \in Nat
  BY DEF IInv, Typed, TypedLoads
<1>5. \A l \in DOMAIN loads' : LoadOwned(loads'[l])
  BY <1>1, <1>2, <1>3, <1>4
<1> QED
  BY <1>1, <1>5 DEF LoadsOwned, LoadOwned, Owned, Begun, Made

LEMMA SetBusinessContextInv ==
  ASSUME IInv, NEW t \in Tenants, SetBusinessContext(t)
  PROVE  IInv'
<1> USE DEF SetBusinessContext
<1>1. TypedLoads' /\ LoadsOwned'
  BY BegunLoad
<1>2. TypedQueue' /\ TypedCloud' /\ TypedHistory'
  BY DEF IInv, Typed, TypedQueue, TypedCloud, TypedHistory, cloud, RowMap
<1>3. ItemsGrounded' /\ CloudGrounded' /\ ScansGrounded'
  BY DEF IInv, ItemsGrounded, CloudGrounded, ScansGrounded, ItemGrounded, Begun, Made, cloud
<1>4. TypedScreen' /\ ScreenOwned'
  <2>1. CASE t = tenant
    BY <2>1 DEF IInv, Typed, TypedScreen, ScreenOwned, Owned, Begun, Made, view, RowMap
  <2>2. CASE t # tenant
    BY <2>2 DEF IInv, Typed, TypedScreen, ScreenOwned, Wiped, NoRows, RowMap
  <2> QED
    BY <2>1, <2>2
<1> QED
  BY <1>1, <1>2, <1>3, <1>4 DEF IInv, Typed

LEMMA RefreshFromCloudInv ==
  ASSUME IInv, RefreshFromCloud
  PROVE  IInv'
<1>1. tenant' \in Tenants
  BY DEF RefreshFromCloud, IInv, Typed, TypedScreen
<1>2. TypedLoads' /\ LoadsOwned'
  BY <1>1, BegunLoad DEF RefreshFromCloud
<1> QED
  BY <1>2, OnlyLoads DEF RefreshFromCloud, IInv, Typed, TypedScreen

-----------------------------------------------------------------------------
(* Steps that add to the history: a session, a scan *)

Grows ==
  /\ TypedHistory'
  /\ Len(owner) <= Len(owner') /\ \A s \in 1..Len(owner) : owner'[s] = owner[s]
  /\ Len(scans) <= Len(scans') /\ \A e \in 1..Len(scans) : scans'[e] = scans[e]

\* What a session or a scan belongs to is never changed by a later one.
LEMMA Growth ==
  ASSUME IInv, Grows
  PROVE  /\ \A s : Begun(s) => Begun(s)' /\ owner'[s] = owner[s]
         /\ \A s, t : Owned(s, t) => Owned(s, t)'
         /\ \A e : Made(e) => Made(e)' /\ scans'[e] = scans[e]
                              /\ owner'[scans'[e].session] = owner[scans[e].session]
         /\ \A i : ItemGrounded(i) => ItemGrounded(i)'
<1>1. Len(owner) \in Nat /\ Len(owner') \in Nat /\ Len(scans) \in Nat /\ Len(scans') \in Nat
  BY DEF IInv, Typed, TypedHistory, Grows
<1>2. \A s : Begun(s) => Begun(s)' /\ owner'[s] = owner[s]
  BY <1>1 DEF Begun, Grows
<1>3. \A s, t : Owned(s, t) => Owned(s, t)'
  BY <1>1 DEF Owned, Grows
<1>4. \A e : Made(e) => Made(e)' /\ scans'[e] = scans[e]
                        /\ owner'[scans'[e].session] = owner[scans[e].session]
  BY <1>1, <1>2 DEF Made, Begun, Grows
<1>5. \A i : ItemGrounded(i) => ItemGrounded(i)'
  BY <1>2, <1>4 DEF ItemGrounded
<1> QED
  BY <1>2, <1>3, <1>4, <1>5

\* The loads and the cloud do not notice.
LEMMA GrowthKeeps ==
  ASSUME IInv, Grows, UNCHANGED <<loads, cloud>>
  PROVE  /\ TypedLoads' /\ LoadsOwned' /\ TypedCloud' /\ CloudGrounded'
         /\ \A i \in queue \cup others : ItemGrounded(i)'
<1>1. TypedLoads' /\ TypedCloud'
  BY DEF IInv, Typed, TypedLoads, TypedCloud, cloud, RowMap
<1>2. \A l \in DOMAIN loads : LoadOwned(loads[l])'
  BY Growth DEF IInv, LoadsOwned, LoadOwned
<1>3. LoadsOwned'
  BY <1>2 DEF LoadsOwned, LoadOwned, Owned, Begun, Made
<1>4. CloudGrounded'
  BY Growth DEF IInv, CloudGrounded, cloud
<1>5. \A i \in queue \cup others : ItemGrounded(i)'
  BY Growth DEF IInv, ItemsGrounded
<1> QED
  BY <1>1, <1>3, <1>4, <1>5

LEMMA NewSessionInv ==
  ASSUME IInv, NewSession
  PROVE  IInv'
<1> USE DEF NewSession
<1>1. /\ tenant \in Tenants /\ Len(owner) \in Nat /\ owner \in Seq(Tenants)
      /\ Len(owner) < MaxSessions /\ owner' = Append(owner, tenant)
  BY DEF IInv, Typed, TypedScreen, TypedHistory
<1>2. /\ owner' \in Seq(Tenants) /\ Len(owner') = Len(owner) + 1
      /\ owner'[Len(owner) + 1] = tenant /\ \A s \in 1..Len(owner) : owner'[s] = owner[s]
  BY <1>1
<1>3. session' \in Sessions /\ Owned(session, tenant)' /\ session' = Len(owner) + 1
  BY <1>1, <1>2, Bounds DEF Sessions, Owned
<1>4. Grows
  BY <1>1, <1>2, Bounds DEF Grows, IInv, Typed, TypedHistory
<1>5. TypedLoads' /\ LoadsOwned' /\ TypedCloud' /\ CloudGrounded'
  BY <1>4, GrowthKeeps
<1>6. ScansGrounded'
  BY <1>4, Growth DEF IInv, ScansGrounded
<1>7. TypedScreen'
  BY <1>3 DEF IInv, Typed, TypedScreen, RowMap
<1>8. ScreenOwned'
  <2>1. \A k \in DOMAIN rows' : Owned(k[1], tenant)'
    BY <1>4, Growth DEF IInv, ScreenOwned
  <2> QED
    BY <1>3, <2>1 DEF ScreenOwned
<1>9. TypedQueue' /\ ItemsGrounded'
  <2>1. SessionItem(tenant, session') \in Item
    BY <1>1, <1>3 DEF SessionItem, Item
  <2>2. PICK i \in Item : queue' = queue \cup {i} /\ i.session = session' /\ i.event = None
    BY <2>1 DEF SessionItem
  <2>3. ItemGrounded(i)'
    BY <1>3, <2>2 DEF ItemGrounded, Owned, Begun
  <2>4. TypedQueue'
    BY <2>2 DEF IInv, Typed, TypedQueue
  <2>5. \A j \in queue' \cup others' : ItemGrounded(j)'
    BY <1>4, <2>2, <2>3, GrowthKeeps
  <2> QED
    BY <2>4, <2>5 DEF ItemsGrounded, ItemGrounded, Begun, Made
<1> QED
  BY <1>4, <1>5, <1>6, <1>7, <1>8, <1>9 DEF IInv, Typed, Grows

\* One more scan, of a session that has begun.
LEMMA ScanGrows ==
  ASSUME IInv, NEW s \in Sessions, Begun(s), NEW here \in BOOLEAN, Len(scans) < MaxScans,
         scans' = Append(scans, [session |-> s, here |-> here]), UNCHANGED owner
  PROVE  /\ Grows /\ ScansGrounded'
         /\ \E e \in Events : e = Len(scans) + 1 /\ Made(e)' /\ scans'[e].session = s
<1>1. scans \in Seq(Scanned) /\ Len(scans) \in Nat
  BY DEF IInv, Typed, TypedHistory
<1>2. /\ scans' \in Seq(Scanned) /\ Len(scans') = Len(scans) + 1
      /\ scans'[Len(scans) + 1] = [session |-> s, here |-> here]
      /\ \A e \in 1..Len(scans) : scans'[e] = scans[e]
  BY <1>1 DEF Scanned
<1>3. Grows
  BY <1>1, <1>2, Bounds DEF Grows, IInv, Typed, TypedHistory
<1>4. Begun(s)'
  BY DEF Begun
<1>5. ScansGrounded'
  BY <1>1, <1>2, <1>3, <1>4, Growth DEF IInv, ScansGrounded
<1>6. PICK e \in Events : e = Len(scans) + 1
  BY <1>1, Bounds DEF Events
<1>7. Made(e)' /\ scans'[e].session = s
  BY <1>1, <1>2, <1>4, <1>6 DEF Made, Begun
<1> QED
  BY <1>3, <1>5, <1>6, <1>7

\* The two items of a scan.
LEMMA ScanItems ==
  ASSUME NEW t \in Tenants, NEW k \in RowKeys, NEW id \in RowIds, NEW e \in Events
  PROVE  \A i \in {EventItem(t, k[1], e), CountItem(t, k, id, e, 1)} :
           i \in Item /\ i.session = k[1] /\ i.event = e
<1>1. k = <<k[1], k[2]>> /\ k[1] \in Sessions /\ k[2] \in Products
  BY DEF RowKeys
<1>2. EventItem(t, k[1], e) \in Item
  BY <1>1, ItemsMade
<1>3. CountItem(t, k, id, e, 1) \in Item
  <2>1. e \in Events \cup {None} /\ 1 \in Int
    OBVIOUS
  <2> QED
    BY <1>1, <2>1, ItemsMade
<1> QED
  BY <1>2, <1>3 DEF EventItem, CountItem

LEMMA ScanInv ==
  ASSUME IInv, NEW p \in Products, Scan(p)
  PROVE  IInv'
<1> DEFINE k == <<session, p>>
           id == rows'[k].id
<1>1. /\ session \in Sessions /\ Owned(session, tenant) /\ tenant \in Tenants
  BY DEF Scan, IInv, Typed, TypedScreen, ScreenOwned
<1>2. /\ Grows /\ ScansGrounded'
      /\ \E e \in Events : e = Len(scans) + 1 /\ Made(e)' /\ scans'[e].session = session
  <2>1. Begun(session)
    BY <1>1 DEF Owned, Begun
  <2> QED
    BY <1>1, <2>1, ScanGrows DEF Scan
<1>4. TypedLoads' /\ LoadsOwned' /\ TypedCloud' /\ CloudGrounded'
  BY <1>2, GrowthKeeps DEF Scan
<1>3. PICK e \in Events : e = Len(scans) + 1 /\ Made(e)' /\ scans'[e].session = session
  BY <1>2
<1>5. k \in RowKeys
  BY <1>1 DEF RowKeys
<1>6. RowMap(rows', Row) /\ DOMAIN rows' = DOMAIN rows \cup {k}
  <2> DEFINE D == DOMAIN rows \cup {k}
             v(c) == IF c # k THEN rows[c]
                     ELSE IF k \in DOMAIN rows THEN [rows[k] EXCEPT !.qty = @ + 1]
                     ELSE [qty |-> 1, id |-> MadeId(k)]
  <2>1. rows' = [c \in D |-> v(c)]
    BY DEF Scan
  <2>2. DOMAIN rows \subseteq RowKeys /\ \A c \in DOMAIN rows : rows[c] \in Row
    BY DEF IInv, Typed, TypedScreen, RowMap
  <2>3. \A c \in D : v(c) \in Row
    <3> HIDE DEF k
    <3>1. [qty |-> 1, id |-> MadeId(k)] \in Row
      BY <1>5 DEF Row, RowIds, MadeId, RowKeys
    <3>2. k \in DOMAIN rows => [rows[k] EXCEPT !.qty = @ + 1] \in Row
      BY <2>2 DEF Row
    <3> QED
      BY <2>2, <3>1, <3>2
  <2> HIDE DEF k, v
  <2> QED
    BY <1>5, <2>1, <2>2, <2>3 DEF RowMap
<1>7. id \in RowIds
  <2>1. rows'[k] \in Row
    <3> HIDE DEF k
    <3> QED
      BY <1>6 DEF RowMap
  <2> QED
    BY <2>1 DEF Row
<1>8. TypedScreen'
  BY <1>6, <1>3 DEF Scan, IInv, Typed, TypedScreen
<1>9. ScreenOwned'
  <2>1. Owned(session, tenant)' /\ session' = session
    BY <1>1, <1>2, Growth DEF Scan
  <2>2. \A c \in DOMAIN rows' : Owned(c[1], tenant)'
    BY <1>2, <1>6, <2>1, Growth DEF Scan, IInv, ScreenOwned
  <2>3. \A x \in feed : Made(x)' /\ owner'[scans'[x].session] = tenant
    BY <1>2, Growth DEF IInv, ScreenOwned
  <2>4. Made(e)' /\ owner'[scans'[e].session] = tenant
    BY <1>3, <2>1 DEF Owned, Scan
  <2>5. feed' = feed \cup {e} /\ tenant' = tenant
    BY <1>3 DEF Scan
  <2> QED
    BY <2>1, <2>2, <2>3, <2>4, <2>5 DEF ScreenOwned, Made, Begun
<1>10. TypedQueue' /\ ItemsGrounded'
  <2> DEFINE new == {EventItem(tenant, session, e), CountItem(tenant, k, id, e, 1)}
  <2>1. \A i \in new : i \in Item /\ i.session = session /\ i.event = e
    BY <1>1, <1>5, <1>7, ScanItems
  <2>2. Begun(session)'
    BY <1>1 DEF Owned, Begun, Scan
  <2>3. queue' = queue \cup new /\ UNCHANGED <<landed, others>>
    BY <1>3 DEF Scan
  <2> HIDE DEF new
  <2>4. \A i \in new : ItemGrounded(i)'
    BY <1>3, <2>1, <2>2 DEF ItemGrounded, Scan, Begun
  <2>5. \A i \in queue' \cup others' : ItemGrounded(i)'
    BY <1>2, <2>3, <2>4, GrowthKeeps DEF Scan
  <2> QED
    BY <2>1, <2>3, <2>5 DEF IInv, Typed, TypedQueue, ItemsGrounded, ItemGrounded, Begun, Made
<1> QED
  BY <1>2, <1>4, <1>8, <1>9, <1>10 DEF IInv, Typed, Grows

-----------------------------------------------------------------------------
(* The queue, the cloud and the second device *)

LEMMA DeleteInv ==
  ASSUME IInv, NEW p \in Products, Delete(p)
  PROVE  IInv'
<1> DEFINE q == products + 1
<1>1. /\ session \in Sessions /\ Owned(session, tenant) /\ tenant \in Tenants /\ q \in Products
      /\ RowMap(rows, Row) /\ \A k \in DOMAIN rows : Owned(k[1], tenant)
  BY DEF Delete, IInv, Typed, TypedScreen, ScreenOwned
<1>2. TypedLoads' /\ LoadsOwned' /\ TypedCloud' /\ CloudGrounded' /\ TypedHistory' /\ ScansGrounded'
  <2>1. UNCHANGED <<loads, cloudRows, cloudFeed, cloudSessions, cloudArchived, scans, owner>>
    BY DEF Delete, cloud
  <2> QED
    BY <2>1 DEF IInv, Typed, TypedLoads, LoadsOwned, LoadOwned, TypedCloud, CloudGrounded,
                TypedHistory, ScansGrounded, Owned, Begun, Made, RowMap
<1>3. RowMap(rows', Row) /\ \A k \in DOMAIN rows' : Owned(k[1], tenant)
  <2> DEFINE moved == {<<k[1], q>> : k \in Of(rows, p)}
             D == (DOMAIN rows \ Of(rows, p)) \cup moved
             v(k) == IF k \in DOMAIN rows THEN rows[k] ELSE rows[<<k[1], p>>]
  <2>1. rows' = [k \in D |-> v(k)]
    BY DEF Delete
  <2>2. \A k \in DOMAIN rows : /\ rows[k] \in Row /\ k = <<k[1], k[2]>>
                               /\ k[1] \in Sessions /\ k[2] \in Products
    BY <1>1 DEF RowMap, RowKeys
  <2>3. \A k \in moved : k \in RowKeys /\ Owned(k[1], tenant) /\ <<k[1], p>> \in DOMAIN rows
    BY <1>1, <2>2 DEF Of, RowKeys
  <2>4. \A k \in D : k \in RowKeys /\ Owned(k[1], tenant) /\ v(k) \in Row
    <3> HIDE DEF moved
    <3> QED
      BY <1>1, <2>2, <2>3 DEF RowMap
  <2> HIDE DEF D, v
  <2> QED
    BY <2>1, <2>4 DEF RowMap
<1>4. TypedScreen'
  BY <1>1, <1>3 DEF Delete, IInv, Typed, TypedScreen
<1>5. ScreenOwned'
  <2>1. UNCHANGED <<tenant, session, feed, scans, owner>>
    BY DEF Delete
  <2> QED
    BY <1>3, <2>1 DEF IInv, ScreenOwned, Owned, Begun, Made
<1>6. TypedQueue' /\ ItemsGrounded'
  <2> DEFINE new == {ArchiveItem(tenant, session, p)} \cup TransferItems(tenant, p, q, rows)
  <2>1. ArchiveItem(tenant, session, p) \in Item
    BY <1>1, ItemsMade
  <2>2. \A i \in TransferItems(tenant, p, q, rows) :
          i \in Item /\ i.event = None /\ \E k \in DOMAIN rows : i.session = k[1]
    BY <1>1, TransfersMade
  <2>3. \A i \in new : i \in Item /\ ItemGrounded(i)
    BY <1>1, <2>1, <2>2 DEF ArchiveItem, ItemGrounded, Owned, Begun
  <2>4. queue' = queue \cup new /\ UNCHANGED <<landed, others, scans, owner>>
    BY DEF Delete
  <2> HIDE DEF new
  <2> QED
    BY <2>3, <2>4 DEF IInv, Typed, TypedQueue, ItemsGrounded, ItemGrounded, Begun, Made
<1> QED
  BY <1>2, <1>4, <1>5, <1>6 DEF IInv, Typed

LEMMA OnScreenUnchanged ==
  ASSUME IInv, UNCHANGED <<tenant, loaded, session, rows, feed, archived, loads, owner>>
  PROVE  /\ TypedLoads'
         /\ (UNCHANGED products => TypedScreen')
         /\ (UNCHANGED scans => ScreenOwned' /\ LoadsOwned' /\ TypedHistory' /\ ScansGrounded')
<1>1. TypedLoads' /\ (UNCHANGED products => TypedScreen')
  BY DEF IInv, Typed, TypedLoads, TypedScreen, RowMap
<1>2. ASSUME UNCHANGED scans
      PROVE  ScreenOwned' /\ LoadsOwned' /\ TypedHistory' /\ ScansGrounded'
  BY <1>2 DEF IInv, Typed, ScreenOwned, LoadsOwned, LoadOwned, TypedHistory, ScansGrounded,
              Owned, Begun, Made
<1> QED
  BY <1>1, <1>2

LEMMA SendInv ==
  ASSUME IInv, NEW i \in queue, Send(i)
  PROVE  IInv'
<1>1. /\ UNCHANGED <<tenant, loaded, session, rows, feed, archived, loads, owner, scans>>
      /\ UNCHANGED <<products, queue, others>> /\ landed' = landed \cup {i} /\ Land(i)
  BY DEF Send, view
<1>2. TypedCloud' /\ CloudGrounded'
  BY <1>1, LandInv DEF IInv, Typed, TypedQueue, ItemsGrounded
<1>3. TypedQueue' /\ ItemsGrounded'
  BY <1>1 DEF IInv, Typed, TypedQueue, ItemsGrounded, ItemGrounded, Begun, Made
<1> QED
  BY <1>1, <1>2, <1>3, OnScreenUnchanged DEF IInv, Typed

LEMMA DequeueInv ==
  ASSUME IInv, NEW i \in queue, Dequeue(i)
  PROVE  IInv'
<1>1. /\ UNCHANGED <<tenant, loaded, session, rows, feed, archived, loads, owner, scans>>
      /\ UNCHANGED <<products, others, cloudRows, cloudFeed, cloudSessions, cloudArchived>>
      /\ queue' = queue \ {i} /\ landed' = landed \ {i}
  BY DEF Dequeue, view, cloud
<1>2. TypedCloud' /\ CloudGrounded'
  BY <1>1 DEF IInv, Typed, TypedCloud, CloudGrounded, RowMap, Begun, Made
<1>3. TypedQueue' /\ ItemsGrounded'
  BY <1>1 DEF IInv, Typed, TypedQueue, ItemsGrounded, ItemGrounded, Begun, Made
<1> QED
  BY <1>1, <1>2, <1>3, OnScreenUnchanged DEF IInv, Typed

LEMMA OtherLandsInv ==
  ASSUME IInv, NEW i \in others, OtherLands(i)
  PROVE  IInv'
<1>1. /\ UNCHANGED <<tenant, loaded, session, rows, feed, archived, loads, owner, scans>>
      /\ UNCHANGED <<products, queue, landed>> /\ others' = others \ {i} /\ Land(i)
  BY DEF OtherLands, view
<1>2. TypedCloud' /\ CloudGrounded'
  BY <1>1, LandInv DEF IInv, Typed, TypedQueue, ItemsGrounded
<1>3. TypedQueue' /\ ItemsGrounded'
  BY <1>1 DEF IInv, Typed, TypedQueue, ItemsGrounded, ItemGrounded, Begun, Made
<1> QED
  BY <1>1, <1>2, <1>3, OnScreenUnchanged DEF IInv, Typed

LEMMA OtherScanInv ==
  ASSUME IInv, NEW s \in Sessions, OtherScan(s)
  PROVE  IInv'
<1> DEFINE k == <<s, 1>>
<1>1. Begun(s) /\ owner[s] \in Tenants
  BY DEF OtherScan, IInv, Typed, TypedHistory, CloudGrounded, Begun
<1>2. /\ Grows /\ ScansGrounded'
      /\ \E e \in Events : e = Len(scans) + 1 /\ Made(e)' /\ scans'[e].session = s
  BY <1>1, ScanGrows DEF OtherScan
<1>3. PICK e \in Events : e = Len(scans) + 1 /\ Made(e)' /\ scans'[e].session = s
  BY <1>2
<1>4. /\ UNCHANGED <<tenant, loaded, session, rows, feed, archived, loads, owner>>
      /\ UNCHANGED <<products, queue, landed, cloud>>
      /\ others' = others \cup {EventItem(owner[s], s, e), CountItem(owner[s], k, MadeId(k), e, 1)}
  BY <1>3 DEF OtherScan, view
<1>5. TypedLoads' /\ LoadsOwned' /\ TypedCloud' /\ CloudGrounded'
  BY <1>2, <1>4, GrowthKeeps
<1>6. TypedScreen' /\ ScreenOwned'
  <2>1. TypedScreen'
    BY <1>4, OnScreenUnchanged
  <2>2. /\ \A c \in DOMAIN rows : Owned(c[1], tenant)'
        /\ session # None => Owned(session, tenant)'
    BY <1>2, <1>4, Growth DEF IInv, ScreenOwned
  <2>3. \A x \in feed : Made(x)' /\ owner'[scans'[x].session] = tenant
    BY <1>2, Growth DEF IInv, ScreenOwned
  <2> QED
    BY <1>4, <2>1, <2>2, <2>3 DEF ScreenOwned, Owned, Begun, Made
<1>7. TypedQueue' /\ ItemsGrounded'
  <2> DEFINE new == {EventItem(owner[s], s, e), CountItem(owner[s], k, MadeId(k), e, 1)}
  <2>1. k \in RowKeys /\ k[1] = s /\ MadeId(k) \in RowIds
    BY Bounds DEF RowKeys, Products, MadeId, RowIds
  <2>2. \A i \in new : i \in Item /\ i.session = s /\ i.event = e
    <3> HIDE DEF k
    <3> QED
      BY <1>1, <2>1, ScanItems
  <2>3. Begun(s)'
    BY <1>1, <1>4 DEF Begun
  <2> HIDE DEF new
  <2>4. \A i \in new : ItemGrounded(i)'
    BY <1>3, <2>2, <2>3 DEF ItemGrounded
  <2>5. \A i \in queue \cup others : ItemGrounded(i)'
    BY <1>2, <1>4, GrowthKeeps
  <2>6. others' = others \cup new /\ UNCHANGED <<queue, landed>>
    BY <1>4 DEF new
  <2>7. TypedQueue'
    BY <2>2, <2>6 DEF IInv, Typed, TypedQueue
  <2> QED
    BY <2>4, <2>5, <2>6, <2>7 DEF ItemsGrounded, ItemGrounded, Begun, Made
<1> QED
  BY <1>2, <1>5, <1>6, <1>7 DEF IInv, Typed, Grows

-----------------------------------------------------------------------------

LEMMA StutterInv == ASSUME IInv, UNCHANGED vars PROVE IInv'
<1>1. TypedQueue' /\ ItemsGrounded' /\ TypedCloud' /\ CloudGrounded'
  BY DEF vars, IInv, Typed, TypedQueue, ItemsGrounded, ItemGrounded, TypedCloud, CloudGrounded,
         RowMap, Begun, Made
<1> QED
  BY <1>1, OnScreenUnchanged DEF vars, IInv, Typed

LEMMA NextInv == IInv /\ [Next]_vars => IInv'
<1> SUFFICES ASSUME IInv, [Next]_vars PROVE IInv'
  OBVIOUS
<1>1. ASSUME NEW t \in Tenants, SetBusinessContext(t) PROVE IInv'
  BY <1>1, SetBusinessContextInv
<1>2. CASE RefreshFromCloud \/ NewSession
  BY <1>2, RefreshFromCloudInv, NewSessionInv
<1>3. ASSUME NEW p \in Products, Scan(p) \/ Delete(p) PROVE IInv'
  BY <1>3, ScanInv, DeleteInv
<1>4. ASSUME NEW i \in queue, Send(i) \/ Dequeue(i) PROVE IInv'
  BY <1>4, SendInv, DequeueInv
<1>5. ASSUME NEW s \in Sessions, OtherScan(s) PROVE IInv'
  BY <1>5, OtherScanInv
<1>6. ASSUME NEW i \in others, OtherLands(i) PROVE IInv'
  BY <1>6, OtherLandsInv
<1>7. ASSUME NEW l \in DOMAIN loads,
             ReadRows(l) \/ ReadFeed(l) \/ FailRead(l) \/ Superseded(l) \/ Merge(l)
      PROVE  IInv'
  BY <1>7, ReadRowsInv, ReadFeedInv, FailReadInv, SupersededInv, MergeInv
<1>8. CASE UNCHANGED vars
  BY <1>8, StutterInv
<1> QED
  BY <1>1, <1>2, <1>3, <1>4, <1>5, <1>6, <1>7, <1>8 DEF Next

LEMMA SpecInv == Spec => []IInv
  BY InitInv, NextInv, PTL DEF Spec

\* Every reload leaves every variable of its type, whatever happened while it
\* was under way.
THEOREM TypeCorrect == Spec => []TypeOK
<1>1. IInv => TypeOK
  BY TypedType DEF IInv
<1> QED
  BY <1>1, SpecInv, PTL

\* Tenant isolation (the generation and business checks after each await of
\* setBusinessContext and refreshFromCloud, emptyTenantState on a switch): the
\* session, the counts and the feed on screen are always the current business's,
\* however many loads of however many businesses come back in whatever order.
THEOREM TenantIsolation == Spec => []TenantOnly
<1>1. IInv => TenantOnly
  BY DEF IInv, ScreenOwned, TenantOnly, Owned
<1> QED
  BY <1>1, SpecInv, PTL

-----------------------------------------------------------------------------
(* The last load begun *)

Last == Len(loads)

\* The last load begun is of the current business, so that it is the live one.
LastMine == (tenant # None => loads # <<>>) /\ (loads # <<>> => loads[Last].tenant = tenant)

\* While the gate is closed the last load is the one that will open it.
Gate == tenant # None /\ ~loaded => loads[Last].kind = "load" /\ Waiting(Last)

\* A step of load l: the others stay, and l keeps its kind and its business.
Steps(l) ==
  /\ DOMAIN loads' = DOMAIN loads /\ Len(loads') = Len(loads) /\ loads' # <<>>
  /\ \A m \in DOMAIN loads : loads'[m].tenant = loads[m].tenant /\ loads'[m].kind = loads[m].kind
  /\ \A m \in DOMAIN loads : m # l => loads'[m] = loads[m]

LEMMA StepsOf ==
  ASSUME IInv, NEW l \in DOMAIN loads, NEW r, loads' = [loads EXCEPT ![l] = r],
         r.tenant = loads[l].tenant, r.kind = loads[l].kind
  PROVE  Steps(l) /\ loads'[l] = r
<1>1. loads \in Seq(Loads)
  BY DEF IInv, Typed, TypedLoads
<1>2. l \in 1..Len(loads) /\ DOMAIN loads = 1..Len(loads) /\ Len(loads) \in Nat
  BY <1>1
<1>3. loads'[l] = r /\ DOMAIN loads' = DOMAIN loads /\ \A m \in DOMAIN loads : m # l => loads'[m] = loads[m]
  BY <1>2
<1>4. Len(loads') = Len(loads) /\ loads' # <<>>
  <2>1. loads' # <<>>
    BY <1>2, <1>3
  <2>2. \E n \in Nat : DOMAIN loads' = 1..n
    BY <1>2, <1>3
  <2> QED
    BY <1>2, <1>3, <2>1, <2>2
<1> QED
  BY <1>3, <1>4 DEF Steps

LEMMA LoadReads ==
  ASSUME IInv, NEW l \in DOMAIN loads, ReadRows(l)
  PROVE  /\ Steps(l) /\ loads[l].phase = "asked" /\ loads'[l].phase \in {"rows", "read"}
         /\ DOMAIN loads'[l].rows = {k \in DOMAIN cloudRows : owner[k[1]] = loads[l].tenant}
         /\ \A k \in DOMAIN loads'[l].rows : loads'[l].rows[k] = cloudRows[k]
         /\ loads'[l].sessions = {s \in cloudSessions : owner[s] = loads[l].tenant}
         /\ loads'[l].archived = {p \in Products : <<loads[l].tenant, p>> \in cloudArchived}
         /\ loads'[l].feed = loads[l].feed
<1> DEFINE mine == {k \in DOMAIN cloudRows : owner[k[1]] = loads[l].tenant}
           known == {s \in cloudSessions : owner[s] = loads[l].tenant}
           r == [loads[l] EXCEPT !.phase = IF known = {} THEN "read" ELSE "rows",
                                 !.rows = [k \in mine |-> cloudRows[k]],
                                 !.sessions = known,
                                 !.archived = {p \in Products : <<loads[l].tenant, p>> \in cloudArchived}]
<1>1. loads[l] \in Load(DOMAIN loads[l].rows)
  BY LoadFields DEF IInv
<1>2. /\ r.tenant = loads[l].tenant /\ r.kind = loads[l].kind /\ r.feed = loads[l].feed
      /\ r.phase \in {"rows", "read"} /\ r.rows = [k \in mine |-> cloudRows[k]] /\ r.sessions = known
      /\ r.archived = {p \in Products : <<loads[l].tenant, p>> \in cloudArchived}
  BY <1>1 DEF Load
<1>3. loads' = [loads EXCEPT ![l] = r] /\ loads[l].phase = "asked"
  BY DEF ReadRows
<1> HIDE DEF r
<1>4. Steps(l) /\ loads'[l] = r
  BY <1>2, <1>3, StepsOf
<1> QED
  BY <1>2, <1>3, <1>4

LEMMA LoadFeeds ==
  ASSUME IInv, NEW l \in DOMAIN loads, ReadFeed(l)
  PROVE  /\ Steps(l) /\ loads[l].phase = "rows" /\ loads'[l].phase = "read"
         /\ loads'[l].rows = loads[l].rows /\ loads'[l].sessions = loads[l].sessions
         /\ loads'[l].archived = loads[l].archived
         /\ loads'[l].feed = {e \in cloudFeed : scans[e].session = Restored(l)}
<1> DEFINE r == [loads[l] EXCEPT !.phase = "read", !.feed = {e \in cloudFeed : scans[e].session = Restored(l)}]
<1>1. loads[l] \in Load(DOMAIN loads[l].rows)
  BY LoadFields DEF IInv
<1>2. /\ r.tenant = loads[l].tenant /\ r.kind = loads[l].kind /\ r.phase = "read"
      /\ r.rows = loads[l].rows /\ r.sessions = loads[l].sessions /\ r.archived = loads[l].archived
      /\ r.feed = {e \in cloudFeed : scans[e].session = Restored(l)}
  BY <1>1 DEF Load
<1>3. loads' = [loads EXCEPT ![l] = r] /\ loads[l].phase = "rows"
  BY DEF ReadFeed
<1> HIDE DEF r
<1>4. Steps(l) /\ loads'[l] = r
  BY <1>2, <1>3, StepsOf
<1> QED
  BY <1>2, <1>3, <1>4

LEMMA LoadEnds ==
  ASSUME IInv, NEW l \in DOMAIN loads, loads' = Finished(l)
  PROVE  /\ Steps(l) /\ loads'[l].phase = "done" /\ DOMAIN loads'[l].rows = {}
         /\ loads'[l].feed = {} /\ loads'[l].sessions = {} /\ loads'[l].archived = {}
<1> DEFINE r == [loads[l] EXCEPT !.phase = "done", !.rows = NoRows, !.feed = {},
                                 !.sessions = {}, !.archived = {}]
<1>1. loads[l] \in Load(DOMAIN loads[l].rows)
  BY LoadFields DEF IInv
<1>2. /\ r.tenant = loads[l].tenant /\ r.kind = loads[l].kind /\ r.phase = "done"
      /\ r.rows = NoRows /\ r.feed = {} /\ r.sessions = {} /\ r.archived = {}
  BY <1>1 DEF Load
<1>3. loads' = [loads EXCEPT ![l] = r]
  BY DEF Finished
<1> HIDE DEF r
<1>4. Steps(l) /\ loads'[l] = r
  BY <1>2, <1>3, StepsOf
<1> QED
  BY <1>2, <1>4 DEF NoRows

\* A load begun comes last, and has read nothing.
LEMMA LoadBegins ==
  ASSUME IInv, NEW k \in {"load", "refresh"}, Begin(k), tenant' \in Tenants
  PROVE  /\ Len(loads) \in Nat /\ Len(loads') = Len(loads) + 1 /\ loads' # <<>>
         /\ DOMAIN loads' = DOMAIN loads \cup {Len(loads')} /\ Len(loads') \notin DOMAIN loads
         /\ \A m \in DOMAIN loads : loads'[m] = loads[m]
         /\ loads'[Len(loads')] = Asked(k) /\ Asked(k).kind = k /\ Asked(k).tenant = tenant'
         /\ Asked(k).phase = "asked" /\ DOMAIN Asked(k).rows = {} /\ Asked(k).feed = {}
         /\ Asked(k).sessions = {} /\ Asked(k).archived = {}
<1>1. loads \in Seq(Loads) /\ DOMAIN loads = 1..Len(loads) /\ Len(loads) \in Nat
  BY DEF IInv, Typed, TypedLoads
<1>2. /\ loads' \in Seq(Loads) /\ Len(loads') = Len(loads) + 1
      /\ \A m \in 1..Len(loads) : loads'[m] = loads[m]
      /\ loads'[Len(loads) + 1] = Asked(k)
  BY BeginTyped DEF IInv
<1>3. DOMAIN loads' = 1..Len(loads') /\ loads' # <<>>
  BY <1>1, <1>2
<1>4. /\ Asked(k).kind = k /\ Asked(k).tenant = tenant' /\ Asked(k).phase = "asked"
      /\ DOMAIN Asked(k).rows = {} /\ Asked(k).feed = {} /\ Asked(k).sessions = {}
      /\ Asked(k).archived = {}
  BY DEF Asked, NoRows
<1> QED
  BY <1>1, <1>2, <1>3, <1>4

LEMMA LastMineStep == ASSUME IInv, LastMine, [Next]_vars PROVE LastMine'
<1>1. ASSUME NEW t \in Tenants, SetBusinessContext(t) PROVE LastMine'
  BY <1>1, LoadBegins DEF SetBusinessContext, LastMine, Last
<1>2. CASE RefreshFromCloud
  <2>1. tenant' \in Tenants /\ Begin("refresh") /\ tenant' = tenant
    BY <1>2 DEF RefreshFromCloud, IInv, Typed, TypedScreen
  <2> QED
    BY <2>1, LoadBegins DEF LastMine, Last
<1>3. ASSUME NEW l \in DOMAIN loads, Steps(l), UNCHANGED tenant PROVE LastMine'
  <2>1. loads # <<>> => Len(loads) \in DOMAIN loads
    BY DEF IInv, Typed, TypedLoads
  <2> QED
    BY <1>3, <2>1 DEF LastMine, Last, Steps
<1>4. ASSUME NEW l \in DOMAIN loads,
             ReadRows(l) \/ ReadFeed(l) \/ FailRead(l) \/ Superseded(l) \/ Merge(l)
      PROVE  LastMine'
  <2>1. UNCHANGED tenant
    BY <1>4 DEF ReadRows, ReadFeed, FailRead, Superseded, Merge
  <2>2. Steps(l)
    BY <1>4, LoadReads, LoadFeeds, LoadEnds DEF FailRead, Superseded, Merge
  <2> QED
    BY <1>3, <2>1, <2>2
<1>5. CASE UNCHANGED <<tenant, loads>>
  BY <1>5 DEF LastMine, Last
<1> QED
  BY <1>1, <1>2, <1>4, <1>5
     DEF Next, vars, NewSession, Scan, Delete, Send, Dequeue, OtherScan, OtherLands

\* The live load is the last one.
LEMMA LiveIsLast ==
  ASSUME IInv, LastMine
  PROVE  /\ \A l \in DOMAIN loads : Live(l) <=> l = Last
         /\ loads # <<>> => Last \in DOMAIN loads
         /\ HasRead <=> loads # <<>> /\ loads[Last].phase \in {"rows", "read"}
<1>1. \A l \in DOMAIN loads : Live(l) <=> l = Last
  BY DEF Live, LastMine, Last, IInv, Typed, TypedLoads
<1>2. loads # <<>> <=> Last \in DOMAIN loads
  BY DEF Last, IInv, Typed, TypedLoads
<1> QED
  BY <1>1, <1>2 DEF HasRead

LEMMA GateStep ==
  ASSUME "refreshDuringLoad" \notin May, IInv, LastMine, Gate, [Next]_vars
  PROVE  Gate'
<1>1. ASSUME NEW t \in Tenants, SetBusinessContext(t) PROVE Gate'
  <2>1. Begin("load") /\ tenant' \in Tenants
    BY <1>1 DEF SetBusinessContext
  <2> QED
    BY <2>1, LoadBegins DEF Gate, Last, Waiting
<1>2. CASE RefreshFromCloud
  BY <1>2 DEF RefreshFromCloud, Gate
<1>3. loads # <<>> => Last \in DOMAIN loads
  BY LiveIsLast
<1>4. ASSUME NEW l \in DOMAIN loads, Steps(l), UNCHANGED tenant, loaded => loaded',
             ~loaded' => l # Last \/ loads'[l].phase \in {"rows", "read"}
      PROVE  Gate'
  <2> SUFFICES ASSUME tenant' # None, ~loaded' PROVE loads'[Last'].kind = "load" /\ Waiting(Last)'
    BY DEF Gate
  <2>1. loads # <<>> /\ loads[Last].kind = "load" /\ Waiting(Last)
    BY <1>4 DEF Gate, LastMine
  <2>2. Last' = Last /\ loads'[Last].kind = "load"
    BY <1>3, <1>4, <2>1 DEF Steps, Last
  <2>3. loads'[Last].phase \in {"asked", "rows", "read"}
    BY <1>3, <1>4, <2>1 DEF Steps, Waiting
  <2> QED
    BY <2>2, <2>3 DEF Waiting
<1>5. ASSUME NEW l \in DOMAIN loads, ReadRows(l) \/ ReadFeed(l) PROVE Gate'
  <2>1. Steps(l) /\ loads'[l].phase \in {"rows", "read"}
    BY <1>5, LoadReads, LoadFeeds
  <2>2. UNCHANGED <<tenant, loaded>>
    BY <1>5 DEF ReadRows, ReadFeed
  <2> QED
    BY <1>4, <2>1, <2>2
<1>6. ASSUME NEW l \in DOMAIN loads, FailRead(l) PROVE Gate'
  <2>1. l = Last /\ ~loaded /\ tenant # None => Live(l) /\ loads[l].kind = "load"
    BY <1>6, LiveIsLast DEF Gate
  <2>2. Steps(l) /\ UNCHANGED tenant /\ (loaded => loaded')
    BY <1>6, LoadEnds DEF FailRead
  <2>3. CASE tenant = None
    BY <2>2, <2>3 DEF Gate
  <2>4. CASE tenant # None
    <3>1. ~loaded' => l # Last
      BY <1>6, <2>1, <2>4 DEF FailRead
    <3> QED
      BY <1>4, <2>2, <3>1
  <2> QED
    BY <2>3, <2>4
<1>7. ASSUME NEW l \in DOMAIN loads, Superseded(l) PROVE Gate'
  <2>1. l # Last
    BY <1>7, LiveIsLast DEF Superseded
  <2> QED
    BY <1>4, <1>7, <2>1, LoadEnds DEF Superseded
<1>8. ASSUME NEW l \in DOMAIN loads, Merge(l) PROVE Gate'
  <2>1. l = Last
    BY <1>8, LiveIsLast DEF Merge
  <2>2. Steps(l) /\ UNCHANGED tenant
    BY <1>8, LoadEnds DEF Merge
  <2>3. CASE MergeLoad(l)
    BY <2>3 DEF MergeLoad, Gate
  <2>4. CASE MergeRefresh(l)
    BY <2>1, <2>2, <2>4 DEF MergeRefresh, Gate
  <2> QED
    BY <1>8, <2>3, <2>4 DEF Merge
<1>9. CASE UNCHANGED <<tenant, loads, loaded>>
  BY <1>9 DEF Gate, Last, Waiting
<1> QED
  BY <1>1, <1>2, <1>5, <1>6, <1>7, <1>8, <1>9
     DEF Next, vars, NewSession, Scan, Delete, Send, Dequeue, OtherScan, OtherLands

\* The gate opens: a load that fails, or finds nothing, counts as loaded like one
\* that is merged, and one that is overtaken has left the gate to a later load
\* (setBusinessContext), unless a refresh may overtake the first load of a page,
\* which the history page does.
THEOREM GateOpens == "refreshDuringLoad" \notin May => (Spec => []LoadSettles)
<1> SUFFICES ASSUME "refreshDuringLoad" \notin May PROVE Spec => []LoadSettles
  OBVIOUS
<1> DEFINE J == IInv /\ LastMine /\ Gate
<1>1. Init => J
  BY InitInv DEF Init, LastMine, Gate
<1>2. J /\ [Next]_vars => J'
  BY NextInv, LastMineStep, GateStep
<1>3. J => LoadSettles
  <2> SUFFICES ASSUME J, tenant # None, ~loaded PROVE Loading
    BY DEF LoadSettles
  <2>1. Last \in DOMAIN loads /\ Live(Last) /\ Waiting(Last)
    BY LiveIsLast DEF LastMine, Gate
  <2> QED
    BY <2>1 DEF Loading
<1> HIDE DEF J
<1> QED
  BY <1>1, <1>2, <1>3, PTL DEF Spec

-----------------------------------------------------------------------------
(* The feed *)

FeedOfSession == \A e \in feed : scans[e].session = session
ReadFeedOf ==
  \A l \in DOMAIN loads :
    /\ loads[l].phase = "asked" => loads[l].feed = {}
    /\ \A e \in loads[l].feed : scans[e].session = Restored(l)

\* The last load has read the session on screen, if that is in the cloud.
Reading == loads # <<>> /\ loads[Last].phase \in {"rows", "read"}
SavedRead == Reading /\ session \in cloudSessions => session \in loads[Last].sessions

\* The second device begins no session.
NoneBegins == \A i \in others : i.op # "SAVE_SESSION"

FeedInv == FeedOfSession /\ ReadFeedOf /\ SavedRead /\ NoneBegins

LEMMA FeedInit == Init => FeedInv
  BY DEF Init, FeedInv, FeedOfSession, ReadFeedOf, SavedRead, Reading, NoneBegins

\* The steps that read or write no load, and keep the screen or grow it.
LEMMA ScansKeep ==
  ASSUME IInv, FeedInv, Grows, UNCHANGED loads
  PROVE  /\ \A e \in feed : scans'[e].session = session
         /\ ReadFeedOf'
<1>1. \A e \in feed : scans'[e].session = session
  BY Growth DEF IInv, ScreenOwned, FeedInv, FeedOfSession
<1>2. \A l \in DOMAIN loads : \A e \in loads[l].feed : scans'[e] = scans[e]
  BY Growth DEF IInv, LoadsOwned, LoadOwned
<1> QED
  BY <1>1, <1>2 DEF FeedInv, ReadFeedOf, Restored

\* A session that is in the cloud is one, and of the business if it is on screen.
LEMMA SavedOwned ==
  ASSUME IInv
  PROVE  session \in cloudSessions =>
           session # None /\ session \in 1..Len(owner) /\ owner[session] = tenant /\ session \in Sessions
<1>1. \A s \in Sessions : s # None
  BY MayAssumption, Bounds DEF Sessions
<1> QED
  BY <1>1 DEF IInv, ScreenOwned, Owned, Typed, TypedCloud

LEMMA FeedStepLoads ==
  ASSUME IInv, LastMine, FeedInv, NEW l \in DOMAIN loads,
         ReadRows(l) \/ ReadFeed(l) \/ FailRead(l) \/ Superseded(l) \/ Merge(l)
  PROVE  FeedInv'
<1> USE DEF FeedInv
<1>1. UNCHANGED <<tenant, others, cloudSessions, scans, owner>>
  BY DEF ReadRows, ReadFeed, FailRead, Superseded, Merge, cloud
<1>2. Steps(l)
  BY LoadReads, LoadFeeds, LoadEnds DEF FailRead, Superseded, Merge
<1>3. loads # <<>> /\ Last \in DOMAIN loads /\ Last' = Last /\ loads' # <<>>
  <2>1. loads # <<>>
    BY DEF IInv, Typed, TypedLoads
  <2> QED
    BY <1>2, <2>1, LiveIsLast DEF Steps, Last
<1>4. ReadFeedOf'
  <2>1. \A m \in DOMAIN loads : m # l => loads'[m] = loads[m]
    BY <1>2 DEF Steps
  <2>2. /\ loads'[l].phase = "asked" => loads'[l].feed = {}
        /\ \A e \in loads'[l].feed : scans[e].session = Max(loads'[l].sessions)
    <3>1. CASE ReadRows(l)
      BY <3>1, LoadReads DEF ReadFeedOf
    <3>2. CASE ReadFeed(l)
      BY <3>2, LoadFeeds DEF Restored
    <3>3. CASE FailRead(l) \/ Superseded(l) \/ Merge(l)
      BY <3>3, LoadEnds DEF FailRead, Superseded, Merge
    <3> QED
      BY <3>1, <3>2, <3>3
  <2> QED
    BY <1>1, <1>2, <2>1, <2>2 DEF ReadFeedOf, Restored, Steps
<1>5. CASE l # Last /\ ~Merge(l)
  <2>1. UNCHANGED <<session, feed>> /\ loads'[Last] = loads[Last]
    BY <1>2, <1>3, <1>5 DEF Steps, ReadRows, ReadFeed, FailRead, Superseded, view
  <2> QED
    BY <1>1, <1>3, <1>4, <2>1 DEF FeedOfSession, SavedRead, Reading, NoneBegins
<1>6. CASE l = Last /\ ReadRows(l)
  <2>1. UNCHANGED <<session, feed>>
    BY <1>6 DEF ReadRows, view
  <2>2. session \in cloudSessions => owner[session] = tenant
    BY SavedOwned
  <2>3. session \in cloudSessions => session \in loads'[Last].sessions
    BY <1>6, <2>2, LoadReads, LiveIsLast DEF Live
  <2> QED
    BY <1>1, <1>3, <1>4, <2>1, <2>3 DEF FeedOfSession, SavedRead, NoneBegins
<1>7. CASE l = Last /\ ReadFeed(l)
  <2>1. UNCHANGED <<session, feed>>
    BY <1>7 DEF ReadFeed, view
  <2>2. loads[Last].phase = "rows" /\ loads'[Last].sessions = loads[Last].sessions
    BY <1>7, LoadFeeds
  <2> QED
    BY <1>1, <1>3, <1>4, <2>1, <2>2 DEF FeedOfSession, SavedRead, Reading, NoneBegins
<1>8. CASE l = Last /\ (FailRead(l) \/ Superseded(l))
  <2>1. UNCHANGED <<session, feed>> /\ loads'[Last].phase = "done"
    BY <1>8, LoadEnds DEF FailRead, Superseded, view
  <2> QED
    BY <1>1, <1>3, <1>4, <2>1 DEF FeedOfSession, SavedRead, Reading, NoneBegins
<1>9. CASE Merge(l)
  <2>1. l = Last /\ loads'[Last].phase = "done"
    BY <1>9, LiveIsLast, LoadEnds DEF Merge
  <2>2. FeedOfSession'
    <3>1. CASE UNCHANGED <<session, feed>>
      BY <1>1, <3>1 DEF FeedOfSession
    <3>2. CASE session' = Restored(l) /\ feed' = RestoredFeed(l)
      BY <1>1, <3>2 DEF FeedOfSession, RestoredFeed, ReadFeedOf
    <3> QED
      BY <1>9, <3>1, <3>2 DEF Merge, MergeRefresh, MergeLoad
  <2> QED
    BY <1>1, <1>3, <1>4, <2>1, <2>2 DEF SavedRead, Reading, NoneBegins
<1> QED
  BY <1>5, <1>6, <1>7, <1>8, <1>9

LEMMA FeedStep ==
  ASSUME "landDuringLoad" \notin May, IInv, LastMine, FeedInv, [Next]_vars
  PROVE  FeedInv'
<1> USE DEF FeedInv
<1>1. ASSUME NEW t \in Tenants, SetBusinessContext(t) PROVE FeedInv'
  <2>1. Begin("load") /\ tenant' \in Tenants /\ UNCHANGED <<others, scans>>
    BY <1>1 DEF SetBusinessContext
  <2>2. ReadFeedOf' /\ ~Reading'
    BY <2>1, LoadBegins DEF ReadFeedOf, Restored, Reading, Last
  <2>3. FeedOfSession'
    BY <1>1, <2>1 DEF SetBusinessContext, FeedOfSession, view, Wiped
  <2> QED
    BY <2>1, <2>2, <2>3 DEF SavedRead, NoneBegins
<1>2. CASE RefreshFromCloud
  <2>1. Begin("refresh") /\ tenant' \in Tenants /\ UNCHANGED <<others, scans, session, feed>>
    BY <1>2 DEF RefreshFromCloud, IInv, Typed, TypedScreen, view
  <2>2. ReadFeedOf' /\ ~Reading'
    BY <2>1, LoadBegins DEF ReadFeedOf, Restored, Reading, Last
  <2> QED
    BY <2>1, <2>2 DEF SavedRead, NoneBegins, FeedOfSession
<1>3. CASE NewSession
  <2>1. session' \notin cloudSessions /\ UNCHANGED <<loads, scans, others, cloudSessions>> /\ feed' = {}
    <3>1. Len(owner) \in Nat /\ session' = Len(owner) + 1
      BY <1>3 DEF NewSession, IInv, Typed, TypedHistory
    <3> QED
      BY <1>3, <3>1 DEF NewSession, cloud, IInv, CloudGrounded, Begun
  <2> QED
    BY <2>1 DEF FeedOfSession, ReadFeedOf, Restored, SavedRead, NoneBegins
<1>4. ASSUME NEW p \in Products, Scan(p) PROVE FeedInv'
  <2>1. /\ UNCHANGED <<loads, session, others, cloudSessions>> /\ feed' = feed \cup {Len(scans) + 1}
        /\ scans' = Append(scans, [session |-> session, here |-> TRUE]) /\ UNCHANGED owner
    BY <1>4 DEF Scan, cloud
  <2>2. session \in Sessions /\ Begun(session)
    BY <1>4 DEF Scan, IInv, Typed, TypedScreen, ScreenOwned, Owned, Begun
  <2>3. Grows /\ scans'[Len(scans) + 1].session = session
    BY <1>4, <2>1, <2>2, ScanGrows DEF Scan
  <2> QED
    BY <2>1, <2>3, ScansKeep DEF FeedOfSession, SavedRead, Reading, NoneBegins, Last
<1>5. ASSUME NEW s \in Sessions, OtherScan(s) PROVE FeedInv'
  <2>1. /\ UNCHANGED <<loads, session, cloudSessions, feed, owner>>
        /\ scans' = Append(scans, [session |-> s, here |-> FALSE])
        /\ \A i \in others' : i \in others \/ i.op # "SAVE_SESSION"
    BY <1>5 DEF OtherScan, cloud, view, EventItem, CountItem
  <2>2. Begun(s)
    BY <1>5 DEF OtherScan, IInv, CloudGrounded
  <2>3. Grows
    BY <1>5, <2>1, <2>2, ScanGrows DEF OtherScan
  <2> QED
    BY <2>1, <2>3, ScansKeep DEF FeedOfSession, SavedRead, Reading, NoneBegins, Last
<1>6. ASSUME NEW i \in queue, Send(i) PROVE FeedInv'
  <2>1. UNCHANGED <<loads, session, feed, scans, others>> /\ ~HasRead
    BY <1>6 DEF Send, view
  <2>2. ~Reading
    BY <2>1, LiveIsLast DEF Reading
  <2> QED
    BY <2>1, <2>2 DEF FeedOfSession, ReadFeedOf, Restored, SavedRead, Reading, NoneBegins, Last
<1>7. ASSUME NEW i \in others, OtherLands(i) PROVE FeedInv'
  <2>1. UNCHANGED <<loads, session, feed, scans, cloudSessions>> /\ others' \subseteq others
    BY <1>7 DEF OtherLands, view, Land, NoneBegins
  <2> QED
    BY <2>1 DEF FeedOfSession, ReadFeedOf, Restored, SavedRead, Reading, NoneBegins, Last
<1>8. CASE UNCHANGED <<loads, session, feed, scans, cloudSessions, others>>
  BY <1>8 DEF FeedOfSession, ReadFeedOf, Restored, SavedRead, Reading, NoneBegins, Last
<1>9. ASSUME NEW l \in DOMAIN loads,
             ReadRows(l) \/ ReadFeed(l) \/ FailRead(l) \/ Superseded(l) \/ Merge(l)
      PROVE  FeedInv'
  BY <1>9, FeedStepLoads
<1> QED
  BY <1>1, <1>2, <1>3, <1>4, <1>5, <1>6, <1>7, <1>8, <1>9
     DEF Next, vars, Delete, Dequeue, view, cloud

\* The session a load restores, when the one on screen is saved and the newest.
LEMMA RestoresSession ==
  ASSUME IInv, FeedInv, LastMine, NewestSaved, NEW l \in DOMAIN loads, Merge(l), MergeLoad(l)
  PROVE  loads[l].sessions # {} /\ Restored(l) = session
<1>1. l = Last /\ loads[l].phase = "read" /\ loads[l].tenant = tenant
  BY LiveIsLast DEF Merge, Live
<1>2. session \in loads[l].sessions /\ session \in Sessions
  BY <1>1, SavedOwned DEF FeedInv, SavedRead, Reading, NewestSaved, IInv, Typed, TypedLoads
<1>3. loads[l].sessions \subseteq Sessions /\ LoadOwned(loads[l])
  BY LoadFields DEF IInv, Load, LoadsOwned
<1>4. Restored(l) \in loads[l].sessions /\ Restored(l) >= session
  BY <1>2, <1>3, MaxOfSessions DEF Restored
<1>5. Restored(l) <= session
  BY <1>1, <1>3, <1>4 DEF LoadOwned, Owned, NewestSaved
<1> QED
  BY <1>2, <1>3, <1>4, <1>5, Bounds DEF Sessions

LEMMA FeedStays ==
  ASSUME IInv, LastMine, FeedInv, [Next]_vars, tenant' = tenant, owner' = owner, NewestSaved,
         NEW e \in feed, ScanPending(e)
  PROVE  e \in feed'
<1>1. ASSUME NEW t \in Tenants, SetBusinessContext(t) PROVE e \in feed'
  BY <1>1 DEF SetBusinessContext, view
<1>2. CASE NewSession
  <2>1. Len(owner') = Len(owner) + 1 /\ Len(owner) \in Nat
    BY <1>2 DEF NewSession, IInv, Typed, TypedHistory
  <2> QED
    BY <2>1
<1>3. ASSUME NEW p \in Products, Scan(p) PROVE e \in feed'
  BY <1>3 DEF Scan
<1>4. ASSUME NEW l \in DOMAIN loads, Merge(l) PROVE e \in feed'
  <2>1. CASE MergeRefresh(l)
    BY <2>1 DEF MergeRefresh
  <2>2. CASE MergeLoad(l)
    <3>1. loads[l].sessions # {} /\ Restored(l) = session
      BY <1>4, <2>2, RestoresSession
    <3>2. scans[e].session = Restored(l)
      BY <3>1 DEF FeedInv, FeedOfSession
    <3> QED
      BY <2>2, <3>1, <3>2 DEF MergeLoad, RestoredFeed
  <2> QED
    BY <1>4, <2>1, <2>2 DEF Merge
<1>5. CASE UNCHANGED feed
  BY <1>5
<1> QED
  BY <1>1, <1>2, <1>3, <1>4, <1>5
     DEF Next, vars, RefreshFromCloud, Delete, Dequeue, Send, OtherScan, OtherLands, view,
         ReadRows, ReadFeed, FailRead, Superseded

\* A scan that is still to be saved is on screen after any mount of the gate, as
\* the restored feed takes the unsynced scans of its session in: if what lands
\* does not land between the read of a load and its merge.
THEOREM UnsyncedScansStay == "landDuringLoad" \notin May => (Spec => UnsyncedStaysOnScreen)
<1> SUFFICES ASSUME "landDuringLoad" \notin May PROVE Spec => UnsyncedStaysOnScreen
  OBVIOUS
<1> DEFINE J == IInv /\ LastMine /\ FeedInv
           A == tenant' = tenant /\ owner' = owner /\ NewestSaved
                  => \A e \in feed : ScanPending(e) => e \in feed'
<1>1. Init => J
  BY InitInv, FeedInit DEF Init, LastMine
<1>2. J /\ [Next]_vars => J'
  BY NextInv, LastMineStep, FeedStep
<1>3. J /\ [Next]_vars => [A]_vars
  BY FeedStays
<1>4. [][A]_vars <=> UnsyncedStaysOnScreen
  BY DEF UnsyncedStaysOnScreen
<1> HIDE DEF J, A
<1> QED
  BY <1>1, <1>2, <1>3, <1>4, PTL DEF Spec

-----------------------------------------------------------------------------
(* Without deletes: every count item is one scan of the catalogue's product *)

ScanItem(i) ==
  /\ i.op # "SAVE_PRODUCT"
  /\ i.op = "INCREMENT_COUNT" => i.product = 1 /\ i.delta = 1 /\ i.event # None
PlainQueue ==
  /\ IsFiniteSet(queue) /\ \A i \in queue \cup others : ScanItem(i)
  /\ \A i \in queue : /\ Owned(i.session, i.tenant)
                      /\ i.op = "INCREMENT_COUNT" => scans[i.event].session = i.session
PlainRows ==
  /\ archived = {} /\ cloudArchived = {} /\ \A l \in DOMAIN loads : loads[l].archived = {}
  /\ \A k \in DOMAIN rows \cup DOMAIN cloudRows : k[2] = 1
  /\ \A l \in DOMAIN loads : \A k \in DOMAIN loads[l].rows : k[2] = 1
Plain == PlainQueue /\ PlainRows

LEMMA PlainInit == Init => Plain
<1> SUFFICES ASSUME Init PROVE Plain
  OBVIOUS
<1>1. IsFiniteSet({})
  BY FS_EmptySet
<1> QED
  BY <1>1 DEF Init, NoRows, Plain, PlainQueue, PlainRows

\* What lands is a document, or one more at a key of the catalogue's product.
LEMMA PlainLands ==
  ASSUME IInv, Plain, NEW i \in queue \cup others, Land(i)
  PROVE  /\ i.op # "INCREMENT_COUNT" => cloudRows' = cloudRows
         /\ i.op = "INCREMENT_COUNT" =>
              /\ DOMAIN cloudRows' = DOMAIN cloudRows \cup {<<i.session, 1>>}
              /\ \A k \in DOMAIN cloudRows' :
                   cloudRows'[k] = Quantity(cloudRows, k) + IF k = <<i.session, 1>> THEN 1 ELSE 0
         /\ cloudArchived' = cloudArchived
<1>1. ScanItem(i)
  BY DEF Plain, PlainQueue
<1>2. i.op = "INCREMENT_COUNT" => <<i.session, i.product>> = <<i.session, 1>> /\ i.delta = 1
  BY <1>1 DEF ScanItem
<1> QED
  BY <1>1, <1>2 DEF Land, ScanItem

\* A merge adds no key that neither the screen nor the load has.
LEMMA MergedKeys ==
  ASSUME NEW l \in DOMAIN loads, Merge(l)
  PROVE  DOMAIN rows' \subseteq DOMAIN rows \cup DOMAIN loads[l].rows
<1>1. CASE MergeRefresh(l)
  BY <1>1 DEF MergeRefresh, RefreshedRows, Merged
<1>2. CASE MergeLoad(l)
  BY <1>2 DEF MergeLoad, LoadedRows, Merged
<1> QED
  BY <1>1, <1>2 DEF Merge

LEMMA PlainStepLoads ==
  ASSUME IInv, Plain, NEW l \in DOMAIN loads,
         ReadRows(l) \/ ReadFeed(l) \/ FailRead(l) \/ Superseded(l) \/ Merge(l)
  PROVE  Plain'
<1>1. UNCHANGED <<queue, others, scans, owner, cloudRows, cloudArchived>>
  BY DEF ReadRows, ReadFeed, FailRead, Superseded, Merge, cloud
<1>2. PlainQueue'
  BY <1>1 DEF Plain, PlainQueue, ScanItem, Owned
<1>3. Steps(l)
  BY LoadReads, LoadFeeds, LoadEnds DEF FailRead, Superseded, Merge
<1>4. loads'[l].archived = {} /\ \A k \in DOMAIN loads'[l].rows : k[2] = 1
  <2>1. CASE ReadRows(l)
    BY <2>1, LoadReads DEF Plain, PlainRows
  <2>2. CASE ReadFeed(l)
    BY <2>2, LoadFeeds DEF Plain, PlainRows
  <2>3. CASE FailRead(l) \/ Superseded(l) \/ Merge(l)
    BY <2>3, LoadEnds DEF FailRead, Superseded, Merge
  <2> QED
    BY <2>1, <2>2, <2>3
<1>5. archived' = {} /\ \A k \in DOMAIN rows' : k[2] = 1
  <2>1. CASE Merge(l)
    BY <2>1, MergedKeys DEF Merge, MergedArchive, Plain, PlainRows
  <2>2. CASE UNCHANGED <<archived, rows>>
    BY <2>2 DEF Plain, PlainRows
  <2> QED
    BY <2>1, <2>2 DEF ReadRows, ReadFeed, FailRead, Superseded, view
<1>6. PlainRows'
  BY <1>1, <1>3, <1>4, <1>5 DEF Plain, PlainRows, Steps
<1> QED
  BY <1>2, <1>6 DEF Plain

LEMMA PlainScan ==
  ASSUME IInv, Plain, NEW p \in Products, Scan(p)
  PROVE  /\ p = 1 /\ Grows /\ Plain'
         /\ \E i : /\ i.op = "INCREMENT_COUNT" /\ i.event = Len(scans) + 1 /\ i.session = session
                   /\ i.product = 1 /\ i.tenant = tenant
                   /\ queue' = queue \cup {EventItem(tenant, session, Len(scans) + 1), i}
<1> DEFINE k == <<session, p>>
           e == Len(scans) + 1
           i == CountItem(tenant, k, rows'[k].id, e, 1)
<1>1. p = 1
  <2>1. \A s \in Sessions : <<s, p>>[2] = p
    OBVIOUS
  <2> QED
    BY <2>1 DEF Scan, Countable, Plain, PlainRows
<1>2. session \in Sessions /\ Owned(session, tenant) /\ Begun(session)
  BY DEF Scan, IInv, Typed, TypedScreen, ScreenOwned, Owned, Begun
<1>3. Grows /\ scans'[e].session = session /\ e \in Events
  BY <1>2, ScanGrows DEF Scan
<1>4. /\ i.op = "INCREMENT_COUNT" /\ i.event = e /\ i.session = session
      /\ i.product = 1 /\ i.tenant = tenant /\ i.delta = 1
  BY <1>1 DEF CountItem
<1>5. queue' = queue \cup {EventItem(tenant, session, e), i}
  BY DEF Scan
<1>6. /\ EventItem(tenant, session, e).op = "SAVE_SCAN_EVENT"
      /\ EventItem(tenant, session, e).session = session
      /\ EventItem(tenant, session, e).tenant = tenant
  BY DEF EventItem
<1>7. e # None
  BY <1>3, MayAssumption, Bounds DEF Events
<1> HIDE DEF i
<1>8. PlainQueue'
  <2>1. IsFiniteSet(queue')
    <3>1. IsFiniteSet(queue \cup {EventItem(tenant, session, e)})
      BY FS_AddElement DEF Plain, PlainQueue
    <3>2. IsFiniteSet((queue \cup {EventItem(tenant, session, e)}) \cup {i})
      BY <3>1, FS_AddElement
    <3>3. queue' = (queue \cup {EventItem(tenant, session, e)}) \cup {i}
      BY <1>5
    <3> QED
      BY <3>2, <3>3
  <2>2. \A j \in queue' \cup others' : ScanItem(j)
    BY <1>4, <1>5, <1>6, <1>7 DEF Scan, Plain, PlainQueue, ScanItem
  <2>3. ASSUME NEW j \in queue
        PROVE  j.op = "INCREMENT_COUNT" => scans'[j.event].session = j.session
    BY <1>3, Growth DEF Plain, PlainQueue, ScanItem, IInv, ItemsGrounded, ItemGrounded
  <2>4. \A j \in queue' : /\ Owned(j.session, j.tenant)
                          /\ j.op = "INCREMENT_COUNT" => scans'[j.event].session = j.session
    BY <1>2, <1>3, <1>4, <1>5, <1>6, <2>3 DEF Plain, PlainQueue
  <2>5. \A s, t : Owned(s, t) => Owned(s, t)'
    BY <1>3, Growth
  <2> QED
    BY <2>1, <2>2, <2>4, <2>5 DEF PlainQueue, ScanItem
<1>9. PlainRows'
  <2>1. \A c \in DOMAIN rows' : c[2] = 1
    BY <1>1 DEF Scan, Plain, PlainRows
  <2> QED
    BY <2>1 DEF Scan, cloud, Plain, PlainRows
<1> QED
  BY <1>1, <1>3, <1>4, <1>5, <1>8, <1>9 DEF Plain

LEMMA PlainStep ==
  ASSUME "delete" \notin May, IInv, Plain, [Next]_vars
  PROVE  Plain'
<1>1. ASSUME NEW k \in {"load", "refresh"}, Begin(k), tenant' \in Tenants,
             UNCHANGED <<queue, others, scans, owner, cloudRows, cloudArchived>>,
             DOMAIN rows' \subseteq DOMAIN rows, archived' = {}
      PROVE  Plain'
  <2>1. PlainQueue'
    BY <1>1 DEF Plain, PlainQueue, ScanItem, Owned
  <2>2. \A l \in DOMAIN loads' : loads'[l].archived = {} /\ \A c \in DOMAIN loads'[l].rows : c[2] = 1
    BY <1>1, LoadBegins DEF Plain, PlainRows
  <2> QED
    BY <1>1, <2>1, <2>2 DEF Plain, PlainRows
<1>2. ASSUME NEW t \in Tenants, SetBusinessContext(t) PROVE Plain'
  <2>1. DOMAIN rows' \subseteq DOMAIN rows /\ archived' = {}
    BY <1>2 DEF SetBusinessContext, view, Wiped, NoRows, Plain, PlainRows
  <2> QED
    BY <1>1, <1>2, <2>1 DEF SetBusinessContext, cloud
<1>3. CASE RefreshFromCloud
  BY <1>1, <1>3 DEF RefreshFromCloud, IInv, Typed, TypedScreen, view, cloud, Plain, PlainRows
<1>4. CASE NewSession
  <2>1. Grows /\ \E n : n = session' /\ Owned(n, tenant)'
    <3>1. /\ tenant \in Tenants /\ Len(owner) \in Nat /\ owner \in Seq(Tenants)
          /\ Len(owner) < MaxSessions /\ owner' = Append(owner, tenant)
      BY <1>4 DEF NewSession, IInv, Typed, TypedScreen, TypedHistory
    <3>2. /\ owner' \in Seq(Tenants) /\ Len(owner') = Len(owner) + 1
          /\ owner'[Len(owner) + 1] = tenant /\ \A s \in 1..Len(owner) : owner'[s] = owner[s]
      BY <3>1
    <3>3. Grows
      BY <1>4, <3>1, <3>2, Bounds DEF NewSession, Grows, IInv, Typed, TypedHistory
    <3>4. session' = Len(owner) + 1 /\ tenant' = tenant
      BY <1>4, <3>2 DEF NewSession
    <3>5. PICK n \in Nat : n = Len(owner) + 1
      BY <3>1
    <3>6. Owned(n, tenant)'
      BY <3>1, <3>2, <3>4, <3>5 DEF Owned
    <3> QED
      BY <3>3, <3>4, <3>5, <3>6
  <2>2. \A s, t : Owned(s, t) => Owned(s, t)'
    BY <2>1, Growth
  <2>3. /\ queue' = queue \cup {SessionItem(tenant, session')}
        /\ SessionItem(tenant, session').op = "SAVE_SESSION"
        /\ SessionItem(tenant, session').session = session'
        /\ SessionItem(tenant, session').tenant = tenant /\ tenant' = tenant
    BY <1>4 DEF NewSession, SessionItem
  <2>4. PlainQueue'
    <3>1. IsFiniteSet(queue')
      BY <2>3, FS_AddElement DEF Plain, PlainQueue
    <3>2. ScanItem(SessionItem(tenant, session'))
      BY <2>3 DEF ScanItem
    <3>3. PICK n : n = session' /\ Owned(n, tenant)'
      BY <2>1
    <3>4. \A i \in queue' \cup others : ScanItem(i)
      BY <2>3, <3>2 DEF Plain, PlainQueue
    <3>5. \A i \in queue' : Owned(i.session, i.tenant)'
      BY <2>2, <2>3, <3>3 DEF Plain, PlainQueue, Owned
    <3>6. \A i \in queue' : i.op = "INCREMENT_COUNT" => scans[i.event].session = i.session
      BY <2>3 DEF Plain, PlainQueue
    <3>7. UNCHANGED <<others, scans>>
      BY <1>4 DEF NewSession
    <3> QED
      BY <3>1, <3>4, <3>5, <3>6, <3>7 DEF PlainQueue, ScanItem, Owned
  <2> QED
    BY <1>4, <2>4 DEF NewSession, cloud, Plain, PlainRows
<1>5. ASSUME NEW p \in Products, Scan(p) PROVE Plain'
  BY <1>5, PlainScan
<1>6. ASSUME NEW i \in queue \cup others, Land(i), UNCHANGED <<queue, scans, owner, loads, rows, archived>>,
             others' \subseteq others
      PROVE  Plain'
  <2>1. PlainQueue'
    BY <1>6 DEF Plain, PlainQueue, ScanItem, Owned
  <2>2. \A k \in DOMAIN cloudRows' : k[2] = 1
    <3>1. <<i.session, 1>>[2] = 1
      OBVIOUS
    <3> QED
      BY <1>6, <3>1, PlainLands DEF Plain, PlainRows
  <2>3. cloudArchived' = {}
    BY <1>6, PlainLands DEF Plain, PlainRows
  <2> QED
    BY <1>6, <2>1, <2>2, <2>3 DEF Plain, PlainRows
<1>7. ASSUME NEW i \in queue, Send(i) PROVE Plain'
  BY <1>6, <1>7 DEF Send, view
<1>8. ASSUME NEW i \in others, OtherLands(i) PROVE Plain'
  BY <1>6, <1>8 DEF OtherLands, view
<1>9. ASSUME NEW i \in queue, Dequeue(i) PROVE Plain'
  <2>1. IsFiniteSet(queue')
    BY <1>9, FS_RemoveElement DEF Dequeue, Plain, PlainQueue
  <2>2. PlainQueue'
    BY <1>9, <2>1 DEF Dequeue, Plain, PlainQueue, ScanItem, Owned
  <2> QED
    BY <1>9, <2>2 DEF Dequeue, view, cloud, Plain, PlainRows
<1>10. ASSUME NEW s \in Sessions, OtherScan(s) PROVE Plain'
  <2>1. Begun(s) /\ UNCHANGED <<owner, queue, loads, rows, archived, cloudRows, cloudArchived>>
    BY <1>10 DEF OtherScan, IInv, CloudGrounded, cloud, view
  <2>2. Grows /\ Len(scans) + 1 \in Events
    BY <1>10, <2>1, ScanGrows DEF OtherScan
  <2>3. \A i \in others' : i \in others \/ ScanItem(i)
    <3>1. Len(scans) + 1 # None
      BY <2>2, MayAssumption, Bounds DEF Events
    <3> QED
      BY <1>10, <3>1 DEF OtherScan, EventItem, CountItem, ScanItem
  <2>4. ASSUME NEW j \in queue
        PROVE  j.op = "INCREMENT_COUNT" => scans'[j.event].session = j.session
    BY <2>2, Growth DEF Plain, PlainQueue, ScanItem, IInv, ItemsGrounded, ItemGrounded
  <2>5. PlainQueue'
    BY <2>1, <2>3, <2>4 DEF Plain, PlainQueue, ScanItem, Owned
  <2> QED
    BY <2>1, <2>5 DEF Plain, PlainRows
<1>11. CASE UNCHANGED vars
  BY <1>11 DEF vars, Plain, PlainQueue, PlainRows, ScanItem, Owned
<1>12. ASSUME NEW l \in DOMAIN loads,
              ReadRows(l) \/ ReadFeed(l) \/ FailRead(l) \/ Superseded(l) \/ Merge(l)
       PROVE  Plain'
  BY <1>12, PlainStepLoads
<1> QED
  BY <1>2, <1>3, <1>4, <1>5, <1>7, <1>8, <1>9, <1>10, <1>11, <1>12 DEF Next, Delete

-----------------------------------------------------------------------------
(* What a row shows is in the cloud or waits for its key *)

\* The count items of Q at key k.
CountsAt(Q, k) == {i \in Q : i.op = "INCREMENT_COUNT" /\ <<i.session, i.product>> = k}
Unsent == queue \ landed
Bound(k) == Quantity(cloudRows, k) + Cardinality(CountsAt(Unsent, k))

CloudCounts == \A k \in DOMAIN cloudRows : cloudRows[k] >= 0
RowsCovered == \A k \in DOMAIN rows : rows[k].qty <= Bound(k)

\* The same of the rows a load has read, which the next rows may be.
ReadCovered ==
  Reading => \A k \in DOMAIN loads[Last].rows :
    /\ 0 <= loads[Last].rows[k] /\ loads[Last].rows[k] <= Quantity(cloudRows, k)
    /\ k \in DOMAIN rows =>
         rows[k].qty <= loads[Last].rows[k] + Cardinality(CountsAt(Unsent, k))
Covered == CloudCounts /\ RowsCovered /\ ReadCovered

LEMMA CountsFinite ==
  ASSUME Plain, NEW k
  PROVE  IsFiniteSet(CountsAt(Unsent, k)) /\ Cardinality(CountsAt(Unsent, k)) \in Nat
<1>1. IsFiniteSet(CountsAt(Unsent, k))
  BY FS_Subset DEF Plain, PlainQueue, CountsAt, Unsent
<1> QED
  BY <1>1, FS_CardinalityType

LEMMA BoundType ==
  ASSUME IInv, Plain, CloudCounts, NEW k
  PROVE  Bound(k) \in Nat /\ Quantity(cloudRows, k) \in Nat /\ Quantity(cloudRows, k) <= Bound(k)
<1>1. Quantity(cloudRows, k) \in Nat
  BY DEF Quantity, CloudCounts, IInv, Typed, TypedCloud, RowMap
<1> QED
  BY <1>1, CountsFinite DEF Bound

LEMMA QtyType ==
  ASSUME IInv
  PROVE  /\ \A k \in DOMAIN rows : rows[k].qty \in Int
         /\ \A l \in DOMAIN loads : \A k \in DOMAIN loads[l].rows : loads[l].rows[k] \in Int
<1>1. \A k \in DOMAIN rows : rows[k].qty \in Int
  BY DEF IInv, Typed, TypedScreen, RowMap, Row
<1>2. ASSUME NEW l \in DOMAIN loads
      PROVE  \A k \in DOMAIN loads[l].rows : loads[l].rows[k] \in Int
  BY LoadFields DEF IInv, RowMap
<1> QED
  BY <1>1, <1>2

\* A scan adds one item at its key, and no other key gets one.
LEMMA ScanCounts ==
  ASSUME IInv, Plain, NEW p \in Products, Scan(p), NEW k
  PROVE  Cardinality(CountsAt(Unsent', k))
           = Cardinality(CountsAt(Unsent, k)) + IF k = <<session, 1>> THEN 1 ELSE 0
<1>1. PICK i : /\ i.op = "INCREMENT_COUNT" /\ i.event = Len(scans) + 1 /\ i.session = session
               /\ i.product = 1
               /\ queue' = queue \cup {EventItem(tenant, session, Len(scans) + 1), i}
  BY PlainScan
<1>2. i \notin queue
  <2>1. Len(scans) \in Nat /\ Len(scans) + 1 # None
    BY MayAssumption DEF IInv, Typed, TypedHistory
  <2> QED
    BY <1>1, <2>1 DEF IInv, ItemsGrounded, ItemGrounded, Made
<1>3. EventItem(tenant, session, Len(scans) + 1).op # "INCREMENT_COUNT"
  BY DEF EventItem
<1>4. landed' = landed /\ landed \subseteq queue
  BY DEF Scan, IInv, Typed, TypedQueue
<1>5. CASE k = <<session, 1>>
  <2>1. CountsAt(Unsent', k) = CountsAt(Unsent, k) \cup {i}
    BY <1>1, <1>2, <1>3, <1>4, <1>5 DEF CountsAt, Unsent
  <2>2. i \notin CountsAt(Unsent, k)
    BY <1>2 DEF CountsAt, Unsent
  <2> QED
    BY <1>5, <2>1, <2>2, CountsFinite, FS_AddElement
<1>6. CASE k # <<session, 1>>
  <2>1. CountsAt(Unsent', k) = CountsAt(Unsent, k)
    BY <1>1, <1>3, <1>4, <1>6 DEF CountsAt, Unsent
  <2> QED
    BY <1>6, <2>1, CountsFinite
<1> QED
  BY <1>5, <1>6

\* What waits and what has landed make the same sum before and after a send.
LEMMA SendCounts ==
  ASSUME IInv, Plain, CloudCounts, NEW i \in queue, Send(i), NEW k
  PROVE  Bound(k)' = Bound(k)
<1>1. Unsent' = Unsent \ {i} /\ i \in Unsent /\ Land(i)
  BY DEF Send, Unsent
<1>2. CASE i.op # "INCREMENT_COUNT"
  <2>1. CountsAt(Unsent', k) = CountsAt(Unsent, k)
    BY <1>1, <1>2 DEF CountsAt
  <2>2. cloudRows' = cloudRows
    BY <1>1, <1>2, PlainLands
  <2> QED
    BY <2>1, <2>2 DEF Bound
<1>3. CASE i.op = "INCREMENT_COUNT"
  <2>0. <<i.session, i.product>> = <<i.session, 1>>
    BY <1>3 DEF Plain, PlainQueue, ScanItem
  <2>1. Quantity(cloudRows', k) = Quantity(cloudRows, k) + IF k = <<i.session, 1>> THEN 1 ELSE 0
    <3>1. /\ DOMAIN cloudRows' = DOMAIN cloudRows \cup {<<i.session, 1>>}
          /\ \A c \in DOMAIN cloudRows' :
               cloudRows'[c] = Quantity(cloudRows, c) + IF c = <<i.session, 1>> THEN 1 ELSE 0
      BY <1>1, <1>3, PlainLands
    <3> QED
      BY <3>1 DEF Quantity
  <2>2. CASE k = <<i.session, 1>>
    <3>1. CountsAt(Unsent', k) = CountsAt(Unsent, k) \ {i} /\ i \in CountsAt(Unsent, k)
      BY <1>1, <1>3, <2>0, <2>2 DEF CountsAt
    <3>2. Cardinality(CountsAt(Unsent', k)) = Cardinality(CountsAt(Unsent, k)) - 1
      BY <3>1, CountsFinite, FS_RemoveElement
    <3>3. Quantity(cloudRows', k) = Quantity(cloudRows, k) + 1
      BY <2>1, <2>2
    <3> QED
      BY <3>2, <3>3, CountsFinite, BoundType DEF Bound
  <2>3. CASE k # <<i.session, 1>>
    <3>1. CountsAt(Unsent', k) = CountsAt(Unsent, k)
      BY <1>1, <2>0, <2>3 DEF CountsAt
    <3>2. Quantity(cloudRows', k) = Quantity(cloudRows, k)
      BY <2>1, <2>3, BoundType
    <3> QED
      BY <3>1, <3>2 DEF Bound
  <2> QED
    BY <2>2, <2>3
<1> QED
  BY <1>2, <1>3

\* The counts of the cloud only grow.
LEMMA LandGrows ==
  ASSUME IInv, Plain, CloudCounts, NEW i \in queue \cup others, Land(i)
  PROVE  CloudCounts' /\ \A k : Quantity(cloudRows, k) <= Quantity(cloudRows', k)
<1>1. CASE i.op # "INCREMENT_COUNT"
  <2>1. cloudRows' = cloudRows
    BY <1>1, PlainLands
  <2>2. \A k : Quantity(cloudRows, k) \in Nat
    BY BoundType
  <2> QED
    BY <2>1, <2>2 DEF CloudCounts
<1>2. CASE i.op = "INCREMENT_COUNT"
  <2>1. /\ DOMAIN cloudRows' = DOMAIN cloudRows \cup {<<i.session, 1>>}
        /\ \A k \in DOMAIN cloudRows' :
             cloudRows'[k] = Quantity(cloudRows, k) + IF k = <<i.session, 1>> THEN 1 ELSE 0
    BY <1>2, PlainLands
  <2>2. \A k \in DOMAIN cloudRows' : Quantity(cloudRows, k) <= cloudRows'[k] /\ 0 <= cloudRows'[k]
    BY <2>1, BoundType
  <2>3. \A k : Quantity(cloudRows, k) <= Quantity(cloudRows', k)
    <3>1. \A k : k \notin DOMAIN cloudRows' => Quantity(cloudRows, k) = 0 /\ Quantity(cloudRows', k) = 0
      BY <2>1 DEF Quantity
    <3>2. \A k \in DOMAIN cloudRows' : Quantity(cloudRows', k) = cloudRows'[k]
      BY DEF Quantity
    <3> QED
      BY <2>2, <3>1, <3>2
  <2> QED
    BY <2>2, <2>3, BoundType DEF CloudCounts
<1> QED
  BY <1>1, <1>2

\* A row after a merge is the row before it, or one that the load has read.
LEMMA MergedRow ==
  ASSUME NEW l \in DOMAIN loads, Merge(l), NEW k \in DOMAIN rows'
  PROVE  \/ k \in DOMAIN rows /\ rows'[k] = rows[k]
         \/ k \in DOMAIN loads[l].rows /\ rows'[k].qty = loads[l].rows[k]
<1>1. CASE MergeRefresh(l)
  BY <1>1 DEF MergeRefresh, RefreshedRows, Merged
<1>2. CASE MergeLoad(l)
  <2> DEFINE R == [c \in {c \in DOMAIN rows : Seeded(l, c)} |-> rows[c]]
             T == {c \in DOMAIN loads[l].rows : c[1] = Restored(l) /\ ~KeptByLoad(c)}
  <2>1. rows' = rows \/ rows' = Merged(R, l, T)
    BY <1>2 DEF MergeLoad, LoadedRows
  <2>2. /\ DOMAIN R \subseteq DOMAIN rows /\ \A c \in DOMAIN R : R[c] = rows[c]
        /\ T \subseteq DOMAIN loads[l].rows
    OBVIOUS
  <2> HIDE DEF R, T
  <2> QED
    BY <2>1, <2>2 DEF Merged
<1> QED
  BY <1>1, <1>2 DEF Merge

LEMMA CoveredInit == Init => Covered
  BY DEF Init, NoRows, Covered, CloudCounts, RowsCovered, ReadCovered, Reading

LEMMA CoveredStepLoads ==
  ASSUME IInv, LastMine, Plain, Covered, NEW l \in DOMAIN loads,
         ReadRows(l) \/ ReadFeed(l) \/ FailRead(l) \/ Superseded(l) \/ Merge(l)
  PROVE  Covered'
<1> USE DEF Covered
<1>1. UNCHANGED <<queue, landed, cloudRows, owner>>
  BY DEF ReadRows, ReadFeed, FailRead, Superseded, Merge, cloud
<1>2. CloudCounts' /\ Unsent' = Unsent /\ \A k : Bound(k)' = Bound(k)
  BY <1>1 DEF CloudCounts, Bound, Unsent
<1>3. Steps(l)
  BY LoadReads, LoadFeeds, LoadEnds DEF FailRead, Superseded, Merge
<1>4. loads # <<>> /\ Last \in DOMAIN loads /\ Last' = Last /\ loads' # <<>>
  <2>1. loads # <<>>
    BY DEF IInv, Typed, TypedLoads
  <2> QED
    BY <1>3, <2>1, LiveIsLast DEF Steps, Last
<1>5. CASE ~Merge(l)
  <2>1. rows' = rows
    BY <1>5 DEF ReadRows, ReadFeed, FailRead, Superseded, view
  <2>2. RowsCovered'
    BY <1>2, <2>1 DEF RowsCovered
  <2>3. CASE l # Last
    <3>1. loads'[Last] = loads[Last]
      BY <1>3, <1>4, <2>3 DEF Steps
    <3> QED
      BY <1>1, <1>2, <1>4, <2>1, <2>2, <3>1 DEF ReadCovered, Reading
  <2>4. CASE l = Last /\ ReadRows(l)
    <3>1. ASSUME NEW k \in DOMAIN loads'[Last].rows
          PROVE  /\ loads'[Last].rows[k] = Quantity(cloudRows, k) /\ loads'[Last].rows[k] >= 0
      BY <2>4, LoadReads DEF Quantity, CloudCounts
    <3>2. ASSUME NEW k \in DOMAIN loads'[Last].rows, k \in DOMAIN rows
          PROVE  rows[k].qty <= loads'[Last].rows[k] + Cardinality(CountsAt(Unsent, k))
      BY <3>1, <3>2 DEF RowsCovered, Bound
    <3>3. \A k : Quantity(cloudRows, k) \in Nat
      BY BoundType
    <3> QED
      BY <1>1, <1>2, <1>4, <2>1, <2>2, <3>1, <3>2, <3>3 DEF ReadCovered
  <2>5. CASE l = Last /\ ReadFeed(l)
    <3>1. loads[Last].phase = "rows" /\ loads'[Last].rows = loads[Last].rows
      BY <2>5, LoadFeeds
    <3> QED
      BY <1>1, <1>2, <1>4, <2>1, <2>2, <3>1 DEF ReadCovered, Reading
  <2>6. CASE l = Last /\ (FailRead(l) \/ Superseded(l))
    <3>1. loads'[Last].phase = "done"
      BY <2>6, LoadEnds DEF FailRead, Superseded
    <3> QED
      BY <1>2, <1>4, <2>2, <3>1 DEF ReadCovered, Reading
  <2> QED
    BY <1>5, <2>3, <2>4, <2>5, <2>6
<1>6. CASE Merge(l)
  <2>1. l = Last /\ loads'[Last].phase = "done" /\ Reading
    BY <1>4, <1>6, LiveIsLast, LoadEnds DEF Merge, Reading
  <2>2. ASSUME NEW k \in DOMAIN loads[Last].rows PROVE loads[Last].rows[k] <= Bound(k)
    <3>1. loads[Last].rows[k] <= Quantity(cloudRows, k) /\ loads[Last].rows[k] \in Int
      BY <1>4, <2>1, QtyType DEF ReadCovered
    <3> QED
      BY <3>1, BoundType
  <2>3. ASSUME NEW k \in DOMAIN rows' PROVE rows'[k].qty <= Bound(k)
    <3>1. \/ k \in DOMAIN rows /\ rows'[k] = rows[k]
          \/ k \in DOMAIN loads[Last].rows /\ rows'[k].qty = loads[Last].rows[k]
      BY <1>6, <2>1, <2>3, MergedRow
    <3> QED
      BY <2>2, <3>1 DEF RowsCovered
  <2> QED
    BY <1>2, <1>4, <2>1, <2>3 DEF RowsCovered, ReadCovered, Reading
<1> QED
  BY <1>5, <1>6

LEMMA CoveredStep ==
  ASSUME "delete" \notin May, "landDuringLoad" \notin May,
         IInv, LastMine, Plain, Covered, [Next]_vars
  PROVE  Covered'
<1> USE DEF Covered
<1>1. ASSUME NEW k \in {"load", "refresh"}, Begin(k), tenant' \in Tenants,
             UNCHANGED <<queue, landed, cloudRows>>, rows' = rows \/ rows' = NoRows
      PROVE  Covered'
  <2>1. ~Reading'
    BY <1>1, LoadBegins DEF Reading, Last
  <2>2. CloudCounts' /\ \A c : Bound(c)' = Bound(c)
    BY <1>1 DEF CloudCounts, Bound, Unsent
  <2>3. RowsCovered'
    BY <1>1, <2>2 DEF RowsCovered, NoRows
  <2> QED
    BY <2>1, <2>2, <2>3 DEF ReadCovered
<1>2. ASSUME NEW t \in Tenants, SetBusinessContext(t) PROVE Covered'
  BY <1>1, <1>2 DEF SetBusinessContext, cloud, view, Wiped
<1>3. CASE RefreshFromCloud
  BY <1>1, <1>3 DEF RefreshFromCloud, IInv, Typed, TypedScreen, view, cloud
<1>4. CASE NewSession
  <2>1. \A k : CountsAt(Unsent', k) = CountsAt(Unsent, k)
    BY <1>4 DEF NewSession, SessionItem, CountsAt, Unsent
  <2>2. /\ UNCHANGED <<cloudRows, loads>>
        /\ DOMAIN rows' \subseteq DOMAIN rows /\ \A k \in DOMAIN rows' : rows'[k] = rows[k]
    BY <1>4 DEF NewSession, cloud
  <2>3. \A k : Bound(k)' = Bound(k)
    BY <2>1, <2>2 DEF Bound
  <2>4. CloudCounts' /\ RowsCovered'
    BY <2>2, <2>3 DEF CloudCounts, RowsCovered
  <2> QED
    BY <2>1, <2>2, <2>4 DEF ReadCovered, Reading, Last
<1>5. ASSUME NEW p \in Products, Scan(p) PROVE Covered'
  <2> DEFINE k == <<session, 1>>
             n(c) == Cardinality(CountsAt(Unsent, c))
             m(c) == Cardinality(CountsAt(Unsent', c))
  <2>1. \A c : m(c) = n(c) + IF c = k THEN 1 ELSE 0
    BY <1>5, ScanCounts
  <2>2. \A c : n(c) \in Nat
    BY CountsFinite
  <2>3. UNCHANGED <<cloudRows, loads>>
    BY <1>5 DEF Scan, cloud
  <2>4. /\ DOMAIN rows' = DOMAIN rows \cup {k}
        /\ \A c \in DOMAIN rows : c # k => rows'[c] = rows[c]
        /\ k \in DOMAIN rows => rows'[k].qty = rows[k].qty + 1
        /\ k \notin DOMAIN rows => rows'[k].qty = 1
    <3>1. p = 1
      BY <1>5, PlainScan
    <3>2. \A c \in DOMAIN rows : rows[c] \in Row
      BY DEF IInv, Typed, TypedScreen, RowMap
    <3> QED
      BY <1>5, <3>1, <3>2 DEF Scan, Row
  <2>5. \A c : Bound(c) \in Nat /\ Bound(c)' = Bound(c) + IF c = k THEN 1 ELSE 0
    <3>1. \A c : Bound(c) = Quantity(cloudRows, c) + n(c) /\ Bound(c)' = Quantity(cloudRows, c) + m(c)
      BY <2>3 DEF Bound
    <3>2. \A c : Quantity(cloudRows, c) \in Nat
      BY BoundType
    <3> HIDE DEF k, n, m
    <3> QED
      BY <2>1, <2>2, <3>1, <3>2
  <2>6. CloudCounts'
    BY <2>3 DEF CloudCounts
  <2>7. RowsCovered'
    <3> HIDE DEF k
    <3> QED
      BY <2>4, <2>5, QtyType DEF RowsCovered
  <2>8. ReadCovered'
    <3> SUFFICES ASSUME Reading, NEW c \in DOMAIN loads[Last].rows, c \in DOMAIN rows'
                 PROVE  rows'[c].qty <= loads[Last].rows[c] + m(c)
      BY <2>3 DEF ReadCovered, Reading, Last
    <3>1. 0 <= loads[Last].rows[c] /\ loads[Last].rows[c] \in Int
      BY LiveIsLast, QtyType DEF ReadCovered, Reading
    <3>2. c \in DOMAIN rows => rows[c].qty <= loads[Last].rows[c] + n(c) /\ rows[c].qty \in Int
      BY QtyType DEF ReadCovered
    <3> HIDE DEF k, n, m
    <3> QED
      BY <2>1, <2>2, <2>4, <3>1, <3>2
  <2> QED
    BY <2>6, <2>7, <2>8
<1>6. ASSUME NEW i \in queue, Send(i) PROVE Covered'
  <2>1. UNCHANGED <<rows, loads>> /\ ~HasRead /\ Land(i)
    BY <1>6 DEF Send, view
  <2>2. ~Reading'
    BY <2>1, LiveIsLast DEF Reading, Last
  <2>3. RowsCovered'
    BY <1>6, <2>1, SendCounts DEF RowsCovered
  <2> QED
    BY <2>1, <2>2, <2>3, LandGrows DEF ReadCovered
<1>7. ASSUME NEW i \in others, OtherLands(i) PROVE Covered'
  <2>1. UNCHANGED <<rows, loads, queue, landed>> /\ Land(i)
    BY <1>7 DEF OtherLands, view
  <2>2. CloudCounts' /\ \A k : Quantity(cloudRows, k) <= Quantity(cloudRows', k)
    BY <2>1, LandGrows
  <2>3. \A k : Quantity(cloudRows, k) \in Nat /\ Quantity(cloudRows', k) \in Int
    <3>1. \A k \in DOMAIN cloudRows' : cloudRows'[k] \in Int
      BY NextInv DEF IInv, Typed, TypedCloud, RowMap
    <3> QED
      BY <3>1, BoundType DEF Quantity
  <2>4. \A k : /\ Bound(k) <= Bound(k)' /\ Bound(k) \in Nat /\ Bound(k)' \in Int
               /\ CountsAt(Unsent', k) = CountsAt(Unsent, k)
    BY <2>1, <2>2, <2>3, CountsFinite DEF Bound, Unsent
  <2>5. RowsCovered'
    BY <2>1, <2>4, QtyType DEF RowsCovered
  <2>6. ReadCovered'
    <3> SUFFICES ASSUME Reading, NEW k \in DOMAIN loads[Last].rows
                 PROVE  loads[Last].rows[k] <= Quantity(cloudRows', k)
      BY <2>1, <2>4 DEF ReadCovered, Reading, Last
    <3>1. loads[Last].rows[k] <= Quantity(cloudRows, k) /\ loads[Last].rows[k] \in Int
      BY LiveIsLast, QtyType DEF ReadCovered, Reading
    <3> QED
      BY <2>2, <2>3, <3>1
  <2> QED
    BY <2>2, <2>5, <2>6
<1>8. CASE UNCHANGED <<rows, loads, cloudRows>> /\ Unsent' = Unsent
  BY <1>8 DEF CloudCounts, RowsCovered, ReadCovered, Bound, Reading, Last
<1>9. ASSUME NEW i \in queue, Dequeue(i) PROVE Covered'
  BY <1>8, <1>9 DEF Dequeue, view, cloud, Unsent
<1>10. ASSUME NEW s \in Sessions, OtherScan(s) PROVE Covered'
  BY <1>8, <1>10 DEF OtherScan, view, cloud, Unsent
<1>11. ASSUME NEW l \in DOMAIN loads,
              ReadRows(l) \/ ReadFeed(l) \/ FailRead(l) \/ Superseded(l) \/ Merge(l)
       PROVE  Covered'
  BY <1>11, CoveredStepLoads
<1>12. CASE UNCHANGED vars
  BY <1>8, <1>12 DEF vars, Unsent
<1> QED
  BY <1>2, <1>3, <1>4, <1>5, <1>6, <1>7, <1>9, <1>10, <1>11, <1>12 DEF Next, Delete

\* A row that nothing pending holds back is replaced by what the load has read of it.
LEMMA Replaced ==
  ASSUME IInv, LastMine, Plain, NEW l \in DOMAIN loads, Merge(l), NEW k \in DOMAIN rows,
         k[1] = session'
  PROVE  /\ k \in DOMAIN rows'
         /\ \/ rows'[k] = rows[k]
            \/ /\ k \in DOMAIN loads[l].rows /\ rows'[k].qty = loads[l].rows[k]
               /\ \A i \in CountsAt(queue, k) : FALSE
<1>1. ASSUME ~Kept(k), NEW i \in CountsAt(queue, k) PROVE FALSE
  <2>1. Owned(k[1], tenant) /\ Owned(i.session, i.tenant)
    BY <1>1 DEF IInv, ScreenOwned, Plain, PlainQueue, CountsAt
  <2>2. i.session = k[1]
    BY <1>1 DEF CountsAt
  <2>3. i.tenant = tenant
    BY <2>1, <2>2 DEF Owned
  <2> QED
    BY <1>1, <2>3 DEF Kept, KeyPending, Increments, Mine, CountsAt
<1>2. CASE MergeRefresh(l)
  <2> DEFINE T == {c \in DOMAIN loads[l].rows : ~Kept(c) /\ ~DeletedHere(c)}
  <2>1. rows' = Merged(rows, l, T) /\ T \subseteq DOMAIN loads[l].rows
    BY <1>2 DEF MergeRefresh, RefreshedRows
  <2>2. k \in T => ~Kept(k)
    OBVIOUS
  <2> HIDE DEF T
  <2> QED
    BY <1>1, <2>1, <2>2 DEF Merged
<1>3. CASE MergeLoad(l) /\ loads[l].sessions = {}
  BY <1>3 DEF MergeLoad
<1>4. CASE MergeLoad(l) /\ loads[l].sessions # {}
  <2> DEFINE R == [c \in {c \in DOMAIN rows : Seeded(l, c)} |-> rows[c]]
             T == {c \in DOMAIN loads[l].rows : c[1] = Restored(l) /\ ~KeptByLoad(c)}
  <2>1. rows' = Merged(R, l, T) /\ T \subseteq DOMAIN loads[l].rows
    BY <1>4 DEF MergeLoad, LoadedRows
  <2>2. k \in DOMAIN R /\ R[k] = rows[k] /\ (k \in T => ~Kept(k))
    BY <1>4 DEF MergeLoad, Seeded, KeptByLoad
  <2> HIDE DEF R, T
  <2> QED
    BY <1>1, <2>1, <2>2 DEF Merged
<1> QED
  BY <1>2, <1>3, <1>4 DEF Merge

LEMMA CountStays ==
  ASSUME "delete" \notin May, IInv, LastMine, Plain, Covered, [Next]_vars, tenant' = tenant,
         NEW k \in DOMAIN rows, k[1] = session'
  PROVE  k \in DOMAIN rows' /\ rows'[k].qty >= rows[k].qty
<1>0. rows[k].qty \in Int /\ rows[k] \in Row
  BY QtyType DEF IInv, Typed, TypedScreen, RowMap
<1>1. ASSUME NEW t \in Tenants, SetBusinessContext(t)
      PROVE  k \in DOMAIN rows' /\ rows'[k].qty >= rows[k].qty
  BY <1>0, <1>1 DEF SetBusinessContext, view
<1>2. CASE NewSession
  <2>1. session' = Len(owner) + 1 /\ Len(owner) \in Nat
    BY <1>2 DEF NewSession, IInv, Typed, TypedHistory
  <2>2. k[1] \in 1..Len(owner)
    BY DEF IInv, ScreenOwned, Owned
  <2> QED
    BY <2>1, <2>2
<1>3. ASSUME NEW p \in Products, Scan(p)
      PROVE  k \in DOMAIN rows' /\ rows'[k].qty >= rows[k].qty
  <2>1. k \in DOMAIN rows' /\ (rows'[k] = rows[k] \/ rows'[k].qty = rows[k].qty + 1)
    BY <1>0, <1>3 DEF Scan, Row
  <2> QED
    BY <1>0, <2>1
<1>4. ASSUME NEW l \in DOMAIN loads, Merge(l)
      PROVE  k \in DOMAIN rows' /\ rows'[k].qty >= rows[k].qty
  <2>1. l = Last /\ Reading
    BY <1>4, LiveIsLast DEF Merge, Reading, IInv, Typed, TypedLoads
  <2>2. ASSUME k \in DOMAIN loads[l].rows, \A i \in CountsAt(queue, k) : FALSE
        PROVE  rows[k].qty <= loads[l].rows[k] /\ loads[l].rows[k] \in Int
    <3>1. CountsAt(Unsent, k) = {}
      BY <2>2 DEF CountsAt, Unsent
    <3>2. Cardinality(CountsAt(Unsent, k)) = 0
      BY <3>1, FS_EmptySet
    <3>3. loads[l].rows[k] \in Int
      BY <2>2, QtyType
    <3> QED
      BY <1>0, <2>1, <2>2, <3>2, <3>3 DEF Covered, ReadCovered
  <2> QED
    BY <1>0, <1>4, <2>2, Replaced
<1>5. CASE UNCHANGED rows
  BY <1>0, <1>5
<1> QED
  BY <1>1, <1>2, <1>3, <1>4, <1>5
     DEF Next, vars, RefreshFromCloud, Delete, Dequeue, Send, OtherScan, OtherLands, view,
         ReadRows, ReadFeed, FailRead, Superseded

\* A reload never takes back a quantity on screen: what a row shows is in the
\* cloud or waits for its key, so that a remote row that nothing pending holds
\* back is no smaller.  Of scans alone, and if what lands does not land between
\* the read of a load and its merge.
THEOREM CountsStay ==
  "delete" \notin May /\ "landDuringLoad" \notin May => (Spec => CountsNeverDrop)
<1> SUFFICES ASSUME "delete" \notin May, "landDuringLoad" \notin May
             PROVE  Spec => CountsNeverDrop
  OBVIOUS
<1> DEFINE J == IInv /\ LastMine /\ Plain /\ Covered
           A == \A k \in DOMAIN rows :
                  tenant' = tenant /\ k[1] = session'
                    => k \in DOMAIN rows' /\ rows'[k].qty >= rows[k].qty
<1>1. Init => J
  BY InitInv, PlainInit, CoveredInit DEF Init, LastMine
<1>2. J /\ [Next]_vars => J'
  BY NextInv, LastMineStep, PlainStep, CoveredStep
<1>3. J /\ [Next]_vars => [A]_vars
  BY CountStays
<1>4. [][A]_vars <=> CountsNeverDrop
  BY DEF CountsNeverDrop
<1> HIDE DEF J, A
<1> QED
  BY <1>1, <1>2, <1>3, <1>4, PTL DEF Spec

-----------------------------------------------------------------------------
(* A merge of the present documents *)

\* A session that is not in the cloud is still to be sent.
SessionsSaved ==
  \A s \in 1..Len(owner) :
    s \in cloudSessions \/ \E i \in Unsent : i.op = "SAVE_SESSION" /\ i.session = s

LEMMA SavedStep == ASSUME IInv, SessionsSaved, [Next]_vars PROVE SessionsSaved'
<1>1. CASE NewSession
  <2>1. Len(owner) \in Nat /\ owner' = Append(owner, tenant) /\ session' = Len(owner')
    BY <1>1 DEF NewSession, IInv, Typed, TypedHistory
  <2>2. Len(owner') = Len(owner) + 1
    BY <2>1 DEF IInv, Typed, TypedHistory, TypedScreen
  <2> DEFINE i == SessionItem(tenant, session')
  <2>3. i.op = "SAVE_SESSION" /\ i.session = session' /\ queue' = queue \cup {i} /\ landed' = landed
    BY <1>1 DEF NewSession, SessionItem
  <2>4. i \in Unsent'
    <3>1. i.session \notin 1..Len(owner)
      BY <2>1, <2>2, <2>3
    <3>2. i \notin queue
      BY <3>1 DEF IInv, ItemsGrounded, ItemGrounded, Begun
    <3> QED
      BY <2>3, <3>2 DEF Unsent, IInv, Typed, TypedQueue
  <2> HIDE DEF i
  <2>5. Unsent \subseteq Unsent' /\ cloudSessions' = cloudSessions
    BY <1>1, <2>3 DEF NewSession, Unsent, cloud
  <2>6. \A s \in 1..Len(owner') : s \in 1..Len(owner) \/ s = session'
    BY <2>1, <2>2
  <2> QED
    BY <2>3, <2>4, <2>5, <2>6 DEF SessionsSaved
<1>2. ASSUME NEW i \in queue, Send(i) PROVE SessionsSaved'
  <2>1. /\ Unsent' = Unsent \ {i} /\ cloudSessions \subseteq cloudSessions' /\ owner' = owner
        /\ i.op = "SAVE_SESSION" => i.session \in cloudSessions'
    BY <1>2 DEF Send, Unsent, Land
  <2> QED
    BY <2>1 DEF SessionsSaved
<1>3. CASE Unsent \subseteq Unsent' /\ cloudSessions \subseteq cloudSessions' /\ owner' = owner
  BY <1>3 DEF SessionsSaved
<1>4. ASSUME NEW i \in queue, Dequeue(i) PROVE SessionsSaved'
  BY <1>3, <1>4 DEF Dequeue, Unsent, cloud
<1>5. ASSUME NEW i \in others, OtherLands(i) PROVE SessionsSaved'
  BY <1>3, <1>5 DEF OtherLands, Land, Unsent
<1>6. CASE UNCHANGED <<queue, landed, cloudSessions, owner>>
  BY <1>6 DEF SessionsSaved, Unsent
<1>7. ASSUME NEW p \in Products, Scan(p) \/ Delete(p) PROVE SessionsSaved'
  BY <1>3, <1>7 DEF Scan, Delete, Unsent, cloud
<1> QED
  BY <1>1, <1>2, <1>4, <1>5, <1>6, <1>7
     DEF Next, vars, SetBusinessContext, RefreshFromCloud, OtherScan, cloud,
         ReadRows, ReadFeed, FailRead, Superseded, Merge

LEMMA MergeConverges ==
  ASSUME IInv, LastMine, FeedInv, Plain, SessionsSaved,
         NEW l \in DOMAIN loads, Merge(l), Settled, Fresh(l),
         NEW k \in DOMAIN cloudRows, k[1] = session'
  PROVE  k \in DOMAIN rows' /\ rows'[k].qty = cloudRows[k]
<1>1. \A c : ~Kept(c)
  BY DEF Settled, Kept, KeyPending, RowPending, Increments, Mine
<1>2. k[1] \in Sessions /\ \A s \in Sessions : s # None
  BY MayAssumption, Bounds DEF IInv, Typed, TypedCloud, RowMap, RowKeys, Sessions
<1>3. Live(l) /\ loads[l].phase = "read" /\ l = Last /\ Reading
  BY LiveIsLast DEF Merge, Reading, IInv, Typed, TypedLoads
<1>4. owner[session'] = tenant
  <2>1. ScreenOwned' /\ UNCHANGED <<tenant, owner>>
    BY NextInv DEF Next, IInv, Merge
  <2> QED
    BY <1>2, <2>1 DEF ScreenOwned, Owned
<1>5. k \in DOMAIN loads[l].rows /\ loads[l].rows[k] = cloudRows[k]
  BY <1>4 DEF Fresh
<1>6. CASE MergeRefresh(l)
  <2> DEFINE T == {c \in DOMAIN loads[l].rows : ~Kept(c) /\ ~DeletedHere(c)}
  <2>1. rows' = Merged(rows, l, T)
    BY <1>6 DEF MergeRefresh, RefreshedRows
  <2>2. k \in T
    BY <1>1, <1>5 DEF DeletedHere, Plain, PlainRows
  <2> HIDE DEF T
  <2> QED
    BY <1>5, <2>1, <2>2 DEF Merged
<1>7. CASE MergeLoad(l) /\ loads[l].sessions # {}
  <2> DEFINE R == [c \in {c \in DOMAIN rows : Seeded(l, c)} |-> rows[c]]
             T == {c \in DOMAIN loads[l].rows : c[1] = Restored(l) /\ ~KeptByLoad(c)}
  <2>1. rows' = Merged(R, l, T)
    BY <1>7 DEF MergeLoad, LoadedRows
  <2>2. k \in T
    BY <1>1, <1>5, <1>7 DEF MergeLoad, KeptByLoad
  <2> HIDE DEF R, T
  <2> QED
    BY <1>5, <2>1, <2>2 DEF Merged
<1>8. CASE MergeLoad(l) /\ loads[l].sessions = {}
  <2>1. session' = session
    BY <1>8 DEF MergeLoad
  <2>2. session \in cloudSessions
    BY <1>2, <2>1 DEF Settled, SessionsSaved, Unsent, IInv, ScreenOwned, Owned
  <2> QED
    BY <1>3, <1>8, <2>2 DEF FeedInv, SavedRead
<1> QED
  BY <1>6, <1>7, <1>8 DEF Merge

\* A merge of the documents as they are, with nothing left to send on any device,
\* shows the count rows the cloud holds of the session it leaves on screen: a load
\* that finds no session finds none because none was begun.  Without deletes: a row
\* of a product deleted here is not taken in.
THEOREM MergesConverge ==
  "delete" \notin May /\ "landDuringLoad" \notin May => (Spec => Converges)
<1> SUFFICES ASSUME "delete" \notin May, "landDuringLoad" \notin May
             PROVE  Spec => Converges
  OBVIOUS
<1> DEFINE J == IInv /\ LastMine /\ FeedInv /\ Plain /\ SessionsSaved
           A == \A l \in DOMAIN loads : Merge(l) /\ Settled /\ Fresh(l)
                  => \A k \in DOMAIN cloudRows :
                       k[1] = session' => k \in DOMAIN rows' /\ rows'[k].qty = cloudRows[k]
<1>1. Init => J
  BY InitInv, FeedInit, PlainInit DEF Init, LastMine, SessionsSaved
<1>2. J /\ [Next]_vars => J'
  BY NextInv, LastMineStep, FeedStep, PlainStep, SavedStep
<1>3. J /\ [Next]_vars => [A]_vars
  BY MergeConverges
<1>4. [][A]_vars <=> Converges
  BY DEF Converges
<1> HIDE DEF J, A
<1> QED
  BY <1>1, <1>2, <1>3, <1>4, PTL DEF Spec

-----------------------------------------------------------------------------
(* A device that stays with its business and its session *)

\* The scans made here of session s whose count item has landed.
Arrived(s) ==
  {e \in ScansOf(s) : \A i \in Unsent : i.op = "INCREMENT_COUNT" => i.event # e}

OneSession ==
  Stayed => /\ \A s \in 1..Len(owner) : owner[s] = tenant
            /\ Len(owner) <= 1 /\ (session = None => owner = <<>>)

\* The cloud, and what a load has read of it, count the scans that have arrived;
\* the row on screen counts them all.
CloudHolds ==
  \A s \in 1..Len(owner) : Quantity(cloudRows, <<s, 1>>) >= Cardinality(Arrived(s))
ReadHolds ==
  Reading => \A s \in 1..Len(owner) :
    owner[s] = tenant => Quantity(loads[Last].rows, <<s, 1>>) >= Cardinality(Arrived(s))
RowHolds ==
  Stayed /\ session # None =>
    \/ <<session, 1>> \notin DOMAIN rows /\ ScansOf(session) = {}
    \/ /\ <<session, 1>> \in DOMAIN rows
       /\ rows[<<session, 1>>].qty >= Cardinality(ScansOf(session))
Holds == OneSession /\ CloudHolds /\ ReadHolds /\ RowHolds

LEMMA HoldsInit == Init => Holds
<1> SUFFICES ASSUME Init PROVE Holds
  OBVIOUS
<1>1. Len(owner) = 0 /\ 1..0 = {}
  BY DEF Init
<1> QED
  BY <1>1 DEF Init, Holds, OneSession, CloudHolds, ReadHolds, RowHolds, Reading

LEMMA ArrivedFinite ==
  ASSUME IInv, NEW s
  PROVE  /\ IsFiniteSet(ScansOf(s)) /\ Cardinality(ScansOf(s)) \in Nat
         /\ IsFiniteSet(Arrived(s)) /\ Cardinality(Arrived(s)) \in Nat
<1>1. Len(scans) \in Nat /\ DOMAIN scans = 1..Len(scans)
  BY DEF IInv, Typed, TypedHistory
<1>2. IsFiniteSet(1..Len(scans))
  BY <1>1, FS_Interval
<1>3. ScansOf(s) \subseteq 1..Len(scans) /\ Arrived(s) \subseteq 1..Len(scans)
  BY <1>1 DEF ScansOf, Arrived
<1>4. IsFiniteSet(ScansOf(s)) /\ IsFiniteSet(Arrived(s))
  BY <1>2, <1>3, FS_Subset
<1> QED
  BY <1>4, FS_CardinalityType

\* A device that has left its business is never taken for one that stayed.
LEMMA LeftForGood ==
  ASSUME IInv, LastMine, [Next]_vars, Stayed'
  PROVE  Stayed /\ (tenant' # tenant => loads = <<>> /\ tenant = None)
<1>1. ASSUME NEW t \in Tenants, SetBusinessContext(t)
      PROVE  Stayed /\ (tenant' # tenant => loads = <<>> /\ tenant = None)
  <2>1. \A m \in DOMAIN loads : m \in DOMAIN loads' /\ loads'[m] = loads[m]
    BY <1>1, LoadBegins DEF SetBusinessContext
  <2>2. \A m \in DOMAIN loads : loads[m].tenant = tenant'
    BY <2>1 DEF Stayed
  <2>3. CASE loads = <<>>
    BY <2>3 DEF LastMine, Stayed
  <2>4. CASE loads # <<>>
    <3>1. Last \in DOMAIN loads /\ loads[Last].tenant = tenant
      BY <2>4, LiveIsLast DEF LastMine
    <3> QED
      BY <2>2, <3>1 DEF Stayed
  <2> QED
    BY <2>3, <2>4
<1>2. CASE RefreshFromCloud
  <2>1. Begin("refresh") /\ tenant' = tenant /\ tenant' \in Tenants
    BY <1>2 DEF RefreshFromCloud, IInv, Typed, TypedScreen
  <2>2. \A m \in DOMAIN loads : m \in DOMAIN loads' /\ loads'[m] = loads[m]
    BY <2>1, LoadBegins
  <2> QED
    BY <2>1, <2>2 DEF Stayed
<1>3. ASSUME NEW l \in DOMAIN loads,
             ReadRows(l) \/ ReadFeed(l) \/ FailRead(l) \/ Superseded(l) \/ Merge(l)
      PROVE  Stayed /\ (tenant' # tenant => loads = <<>> /\ tenant = None)
  <2>1. Steps(l)
    BY <1>3, LoadReads, LoadFeeds, LoadEnds DEF FailRead, Superseded, Merge
  <2>2. tenant' = tenant
    BY <1>3 DEF ReadRows, ReadFeed, FailRead, Superseded, Merge
  <2> QED
    BY <2>1, <2>2 DEF Stayed, Steps
<1>4. CASE UNCHANGED <<tenant, loads>>
  BY <1>4 DEF Stayed
<1> QED
  BY <1>1, <1>2, <1>3, <1>4
     DEF Next, vars, NewSession, Scan, Delete, Send, Dequeue, OtherScan, OtherLands

LEMMA OneSessionStep ==
  ASSUME "rotate" \notin May, IInv, LastMine, OneSession, [Next]_vars
  PROVE  OneSession'
<1> SUFFICES ASSUME Stayed'
             PROVE  /\ \A s \in 1..Len(owner') : owner'[s] = tenant'
                    /\ Len(owner') <= 1 /\ (session' = None => owner' = <<>>)
  BY DEF OneSession
<1>1. Stayed /\ (tenant' # tenant => loads = <<>> /\ tenant = None)
  BY LeftForGood
<1>2. /\ \A s \in 1..Len(owner) : owner[s] = tenant
      /\ Len(owner) <= 1 /\ (session = None => owner = <<>>)
  BY <1>1 DEF OneSession
<1>3. owner \in Seq(Tenants) /\ Len(owner) \in Nat
  BY DEF IInv, Typed, TypedHistory
<1>4. CASE tenant' # tenant
  <2>1. Len(owner) = 0
    <3> SUFFICES ASSUME Len(owner) > 0 PROVE FALSE
      BY <1>3
    <3>1. 1 \in 1..Len(owner) /\ owner[1] \in Tenants
      BY <1>3
    <3> QED
      BY <1>1, <1>2, <1>4, <3>1, MayAssumption
  <2>2. owner = <<>>
    BY <1>3, <2>1
  <2>3. owner' = owner
    BY <1>4 DEF Next, vars, SetBusinessContext, RefreshFromCloud, NewSession, Scan, Delete, Send,
                Dequeue, OtherScan, OtherLands, ReadRows, ReadFeed, FailRead, Superseded, Merge
  <2> QED
    BY <2>2, <2>3
<1>5. CASE NewSession
  <2>1. session = None /\ owner' = Append(owner, tenant) /\ session' = Len(owner') /\ tenant' = tenant
    BY <1>5 DEF NewSession
  <2>2. owner = <<>> /\ tenant \in Tenants
    BY <1>2, <1>5, <2>1 DEF NewSession, IInv, Typed, TypedScreen
  <2>3. owner' = <<tenant>>
    BY <2>1, <2>2
  <2>4. Len(owner') = 1 /\ owner'[1] = tenant /\ session' # None
    BY <2>1, <2>3, MayAssumption
  <2> QED
    BY <2>1, <2>4
<1>6. CASE tenant' = tenant /\ ~NewSession
  <2>1. owner' = owner
    BY <1>6 DEF Next, vars, SetBusinessContext, RefreshFromCloud, Scan, Delete, Send,
                Dequeue, OtherScan, OtherLands, ReadRows, ReadFeed, FailRead, Superseded, Merge
  <2>2. session' = None => session = None
    <3>1. ASSUME NEW l \in DOMAIN loads, Merge(l) PROVE session' = session \/ session' # None
      <4>1. CASE MergeRefresh(l)
        BY <4>1 DEF MergeRefresh
      <4>2. CASE MergeLoad(l)
        <5>1. loads[l].sessions # {} => Restored(l) \in Sessions
          BY RestoredOwned
        <5> QED
          BY <4>2, <5>1, MayAssumption, Bounds DEF MergeLoad, Sessions
      <4> QED
        BY <3>1, <4>1, <4>2 DEF Merge
    <3> QED
      BY <1>6, <3>1 DEF Next, vars, view, SetBusinessContext, RefreshFromCloud, Scan, Delete, Send,
                        Dequeue, OtherScan, OtherLands, ReadRows, ReadFeed, FailRead, Superseded
  <2> QED
    BY <1>2, <1>6, <2>1, <2>2
<1> QED
  BY <1>4, <1>5, <1>6

LEMMA HoldsStepLoads ==
  ASSUME IInv, LastMine, Plain, Covered, Holds, OneSession', NEW l \in DOMAIN loads,
         ReadRows(l) \/ ReadFeed(l) \/ FailRead(l) \/ Superseded(l) \/ Merge(l)
  PROVE  Holds'
<1> USE DEF Holds
<1>1. UNCHANGED <<tenant, queue, landed, cloudRows, owner, scans>>
  BY DEF ReadRows, ReadFeed, FailRead, Superseded, Merge, cloud
<1>2. \A s : Arrived(s)' = Arrived(s) /\ ScansOf(s)' = ScansOf(s)
  BY <1>1 DEF Arrived, ScansOf, Unsent
<1>3. CloudHolds'
  BY <1>1, <1>2 DEF CloudHolds
<1>4. Steps(l)
  BY LoadReads, LoadFeeds, LoadEnds DEF FailRead, Superseded, Merge
<1>5. loads # <<>> /\ Last \in DOMAIN loads /\ Last' = Last /\ loads' # <<>>
  <2>1. loads # <<>>
    BY DEF IInv, Typed, TypedLoads
  <2> QED
    BY <1>4, <2>1, LiveIsLast DEF Steps, Last
<1>6. Stayed' = Stayed
  BY <1>1, <1>4 DEF Stayed, Steps
<1>7. ReadHolds'
  <2>1. CASE l # Last
    <3>1. loads'[Last] = loads[Last]
      BY <1>4, <1>5, <2>1 DEF Steps
    <3> QED
      BY <1>1, <1>2, <1>5, <3>1 DEF ReadHolds, Reading
  <2>2. CASE l = Last /\ ReadRows(l)
    <3>1. \A s \in 1..Len(owner) : owner[s] = tenant =>
            Quantity(loads'[Last].rows, <<s, 1>>) = Quantity(cloudRows, <<s, 1>>)
      <4>1. loads[l].tenant = tenant
        BY <1>5, <2>2, LiveIsLast DEF Live
      <4>2. \A s : <<s, 1>>[1] = s
        OBVIOUS
      <4> QED
        BY <2>2, <4>1, <4>2, LoadReads DEF Quantity
    <3> QED
      BY <1>1, <1>2, <1>5, <3>1 DEF ReadHolds, CloudHolds
  <2>3. CASE l = Last /\ ReadFeed(l)
    <3>1. loads[Last].phase = "rows" /\ loads'[Last].rows = loads[Last].rows
      BY <2>3, LoadFeeds
    <3> QED
      BY <1>1, <1>2, <1>5, <3>1 DEF ReadHolds, Reading
  <2>4. CASE l = Last /\ (FailRead(l) \/ Superseded(l) \/ Merge(l))
    <3>1. loads'[Last].phase = "done"
      BY <2>4, LoadEnds DEF FailRead, Superseded, Merge
    <3> QED
      BY <1>5, <3>1 DEF ReadHolds, Reading
  <2> QED
    BY <2>1, <2>2, <2>3, <2>4
<1>8. RowHolds'
  <2>1. CASE ~Merge(l)
    <3>1. UNCHANGED <<session, rows>>
      BY <2>1 DEF ReadRows, ReadFeed, FailRead, Superseded, view
    <3> QED
      BY <1>2, <1>6, <3>1 DEF RowHolds
  <2>2. CASE Merge(l)
    <3> SUFFICES ASSUME Stayed, session' # None
                 PROVE  \/ <<session', 1>> \notin DOMAIN rows' /\ ScansOf(session') = {}
                        \/ /\ <<session', 1>> \in DOMAIN rows'
                           /\ rows'[<<session', 1>>].qty >= Cardinality(ScansOf(session'))
      BY <1>1, <1>6 DEF RowHolds, ScansOf
    <3>1. session' = session /\ session # None /\ session \in 1..Len(owner) /\ owner[session] = tenant
      <4>1. session' \in 1..Len(owner)
        <5>1. IInv'
          BY <2>2, NextInv DEF Next
        <5> QED
          BY <1>1, <5>1 DEF IInv, ScreenOwned, Owned
      <4>2. session # None
        <5>1. 1..Len(<<>>) = {}
          OBVIOUS
        <5> QED
          BY <4>1, <5>1 DEF OneSession
      <4>3. session \in 1..Len(owner) /\ owner[session] = tenant
        BY <4>2 DEF IInv, ScreenOwned, Owned
      <4>4. Len(owner) <= 1 /\ Len(owner) \in Nat
        BY DEF OneSession, IInv, Typed, TypedHistory
      <4> QED
        BY <4>1, <4>2, <4>3, <4>4
    <3>2. CASE <<session, 1>> \notin DOMAIN rows
      <4> DEFINE k == <<session, 1>>
      <4>1. ScansOf(session) = {} /\ Cardinality(ScansOf(session)) = 0
        BY <3>1, <3>2, FS_EmptySet DEF RowHolds
      <4>2. l = Last /\ Reading
        BY <1>5, <2>2, LiveIsLast DEF Merge, Reading
      <4> HIDE DEF k
      <4>3. k \in DOMAIN rows' => k \in DOMAIN loads[l].rows /\ rows'[k].qty = loads[l].rows[k]
        BY <2>2, <3>2, MergedRow DEF k
      <4>4. k \in DOMAIN rows' => rows'[k].qty >= 0
        BY <4>2, <4>3 DEF Covered, ReadCovered
      <4> QED
        BY <3>1, <4>1, <4>4 DEF k
    <3>3. CASE <<session, 1>> \in DOMAIN rows
      <4> DEFINE k == <<session, 1>>
      <4>1. k \in DOMAIN rows /\ rows[k].qty >= Cardinality(ScansOf(session)) /\ k[1] = session'
        BY <3>1, <3>3 DEF RowHolds
      <4>2. ASSUME \A i \in CountsAt(queue, k) : FALSE PROVE Arrived(session) = ScansOf(session)
        <5> SUFFICES ASSUME NEW e \in ScansOf(session), NEW i \in Unsent,
                            i.op = "INCREMENT_COUNT", i.event = e
                     PROVE  FALSE
          BY DEF Arrived
        <5>1. i \in queue /\ i.session = session /\ i.product = 1
          BY DEF Unsent, Plain, PlainQueue, ScanItem, ScansOf
        <5> QED
          BY <4>2, <5>1 DEF CountsAt
      <4>3. l = Last /\ Reading
        BY <1>5, <2>2, LiveIsLast DEF Merge, Reading
      <4> HIDE DEF k
      <4>4. ASSUME k \in DOMAIN loads[l].rows, \A i \in CountsAt(queue, k) : FALSE
            PROVE  loads[l].rows[k] >= Cardinality(ScansOf(session))
        <5>1. Quantity(loads[Last].rows, k) >= Cardinality(Arrived(session))
          BY <3>1, <4>3 DEF ReadHolds, k
        <5> QED
          BY <4>2, <4>3, <4>4, <5>1 DEF Quantity
      <4>5. k \in DOMAIN rows' /\ rows'[k].qty >= Cardinality(ScansOf(session))
        BY <2>2, <4>1, <4>4, Replaced
      <4> QED
        BY <3>1, <4>5 DEF k
    <3> QED
      BY <3>2, <3>3
  <2> QED
    BY <2>1, <2>2
<1> QED
  BY <1>3, <1>7, <1>8

\* A scan has not arrived; the others are where they were.
LEMMA ScanArrives ==
  ASSUME IInv, Plain, NEW p \in Products, Scan(p), NEW s
  PROVE  /\ Arrived(s)' = Arrived(s)
         /\ ScansOf(s)' = IF s = session THEN ScansOf(s) \cup {Len(scans) + 1} ELSE ScansOf(s)
         /\ Len(scans) + 1 \notin ScansOf(s)
<1>1. PICK i : /\ i.op = "INCREMENT_COUNT" /\ i.event = Len(scans) + 1
               /\ queue' = queue \cup {EventItem(tenant, session, Len(scans) + 1), i}
  BY PlainScan
<1>2. scans \in Seq(Scanned) /\ Len(scans) \in Nat /\ DOMAIN scans = 1..Len(scans)
  BY DEF IInv, Typed, TypedHistory
<1>3. scans' = Append(scans, [session |-> session, here |-> TRUE]) /\ session \in Sessions
  BY DEF Scan, IInv, Typed, TypedScreen
<1>4. /\ DOMAIN scans' = DOMAIN scans \cup {Len(scans) + 1} /\ Len(scans) + 1 \notin DOMAIN scans
      /\ scans'[Len(scans) + 1] = [session |-> session, here |-> TRUE]
      /\ \A e \in DOMAIN scans : scans'[e] = scans[e]
  BY <1>2, <1>3 DEF Scanned
<1>5. ScansOf(s)' = IF s = session THEN ScansOf(s) \cup {Len(scans) + 1} ELSE ScansOf(s)
  BY <1>4 DEF ScansOf
<1>6. Len(scans) + 1 \notin ScansOf(s)
  BY <1>4 DEF ScansOf
<1>7. EventItem(tenant, session, Len(scans) + 1).op # "INCREMENT_COUNT"
  BY DEF EventItem
<1>8. \A j \in queue : j.event # Len(scans) + 1
  <2>1. Len(scans) + 1 # None
    BY <1>2, MayAssumption
  <2> QED
    BY <1>2, <2>1 DEF IInv, ItemsGrounded, ItemGrounded, Made
<1>9. i \in Unsent' /\ landed' = landed
  <2>1. i \notin queue /\ landed \subseteq queue
    BY <1>1, <1>8 DEF IInv, Typed, TypedQueue
  <2> QED
    BY <1>1, <2>1 DEF Unsent, Scan
<1>10. \A j : j \in Unsent' /\ j.op = "INCREMENT_COUNT" => j \in Unsent \/ j = i
  BY <1>1, <1>7, <1>9 DEF Unsent
<1>11. Unsent \subseteq Unsent'
  BY <1>1, <1>9 DEF Unsent
<1>12. Arrived(s)' = Arrived(s)
  BY <1>1, <1>5, <1>6, <1>9, <1>10, <1>11 DEF Arrived
<1> QED
  BY <1>5, <1>6, <1>12

\* A send adds to the arrived no more than to the cloud.
LEMMA SendArrives ==
  ASSUME IInv, Plain, Covered, NEW i \in queue, Send(i), NEW s
  PROVE  Cardinality(Arrived(s)') - Cardinality(Arrived(s))
           <= Quantity(cloudRows', <<s, 1>>) - Quantity(cloudRows, <<s, 1>>)
         /\ Cardinality(Arrived(s)') \in Nat
<1>1. Unsent' = Unsent \ {i} /\ Land(i) /\ UNCHANGED scans
  BY DEF Send, Unsent
<1>2. ScansOf(s)' = ScansOf(s)
  BY <1>1 DEF ScansOf
<1>3. IsFiniteSet(Arrived(s)) /\ Cardinality(Arrived(s)) \in Nat
  BY ArrivedFinite
<1>4. Quantity(cloudRows, <<s, 1>>) \in Nat
  BY BoundType DEF Covered
<1>5. CASE i.op # "INCREMENT_COUNT"
  <2>1. Arrived(s)' = Arrived(s)
    BY <1>1, <1>2, <1>5 DEF Arrived
  <2>2. cloudRows' = cloudRows
    BY <1>1, <1>5, PlainLands
  <2> QED
    BY <1>3, <1>4, <2>1, <2>2
<1>6. CASE i.op = "INCREMENT_COUNT"
  <2>1. scans[i.event].session = i.session
    BY <1>6 DEF Plain, PlainQueue
  <2>2. Arrived(s)' \subseteq Arrived(s) \cup {i.event}
    BY <1>1, <1>2 DEF Arrived
  <2>3. Quantity(cloudRows', <<s, 1>>)
          = Quantity(cloudRows, <<s, 1>>) + IF s = i.session THEN 1 ELSE 0
    <3>1. /\ DOMAIN cloudRows' = DOMAIN cloudRows \cup {<<i.session, 1>>}
          /\ \A c \in DOMAIN cloudRows' :
               cloudRows'[c] = Quantity(cloudRows, c) + IF c = <<i.session, 1>> THEN 1 ELSE 0
      BY <1>1, <1>6, PlainLands
    <3>2. <<s, 1>> = <<i.session, 1>> <=> s = i.session
      OBVIOUS
    <3> QED
      BY <1>4, <3>1, <3>2 DEF Quantity
  <2>4. CASE s # i.session
    <3>1. Arrived(s)' \subseteq Arrived(s)
      BY <1>2, <2>1, <2>2, <2>4 DEF Arrived, ScansOf
    <3>2. Cardinality(Arrived(s)') <= Cardinality(Arrived(s)) /\ Cardinality(Arrived(s)') \in Nat
      BY <1>3, <3>1, FS_Subset, FS_CardinalityType
    <3> QED
      BY <1>3, <1>4, <2>3, <2>4, <3>2
  <2>5. CASE s = i.session
    <3>1. /\ IsFiniteSet(Arrived(s) \cup {i.event})
          /\ Cardinality(Arrived(s) \cup {i.event}) <= Cardinality(Arrived(s)) + 1
          /\ Cardinality(Arrived(s) \cup {i.event}) \in Nat
      <4>1. /\ IsFiniteSet(Arrived(s) \cup {i.event})
            /\ Cardinality(Arrived(s) \cup {i.event}) =
                 IF i.event \in Arrived(s) THEN Cardinality(Arrived(s)) ELSE Cardinality(Arrived(s)) + 1
        BY <1>3, FS_AddElement
      <4> QED
        BY <1>3, <4>1
    <3>2. /\ Cardinality(Arrived(s)') <= Cardinality(Arrived(s) \cup {i.event})
          /\ Cardinality(Arrived(s)') \in Nat
      BY <2>2, <3>1, FS_Subset, FS_CardinalityType
    <3> QED
      BY <1>3, <1>4, <2>3, <2>5, <3>1, <3>2
  <2> QED
    BY <2>4, <2>5
<1> QED
  BY <1>5, <1>6

LEMMA HoldsStep ==
  ASSUME "delete" \notin May, "landDuringLoad" \notin May,
         IInv, LastMine, Plain, Covered, Holds, OneSession', [Next]_vars
  PROVE  Holds'
<1> USE DEF Holds
<1>0. IInv' /\ LastMine' /\ Plain' /\ Covered'
  BY NextInv, LastMineStep, PlainStep, CoveredStep
<1>1. ASSUME NEW k \in {"load", "refresh"}, Begin(k), tenant' \in Tenants,
             UNCHANGED <<queue, landed, cloudRows, owner, scans>>,
             UNCHANGED <<session, rows>> \/ session' = None
      PROVE  Holds'
  <2>1. ~Reading'
    BY <1>1, LoadBegins DEF Reading, Last
  <2>2. \A s : Arrived(s)' = Arrived(s) /\ ScansOf(s)' = ScansOf(s)
    BY <1>1 DEF Arrived, ScansOf, Unsent
  <2>3. RowHolds'
    <3>1. Stayed' => Stayed
      BY LeftForGood
    <3> QED
      BY <1>1, <2>2, <3>1 DEF RowHolds
  <2> QED
    BY <1>1, <2>1, <2>2, <2>3 DEF CloudHolds, ReadHolds
<1>2. ASSUME NEW t \in Tenants, SetBusinessContext(t) PROVE Holds'
  BY <1>1, <1>2 DEF SetBusinessContext, cloud, view, Wiped
<1>3. CASE RefreshFromCloud
  BY <1>1, <1>3 DEF RefreshFromCloud, IInv, Typed, TypedScreen, view, cloud
<1>4. CASE NewSession
  <2>1. /\ Len(owner) \in Nat /\ session' = Len(owner) + 1 /\ Len(owner') = Len(owner) + 1
        /\ tenant' = tenant /\ \A s \in 1..Len(owner) : owner'[s] = owner[s]
    <3>1. owner \in Seq(Tenants) /\ tenant \in Tenants
      BY <1>4 DEF NewSession, IInv, Typed, TypedHistory, TypedScreen
    <3> QED
      BY <1>4, <3>1 DEF NewSession
  <2>2. UNCHANGED <<cloudRows, loads, scans>>
    BY <1>4 DEF NewSession, cloud
  <2>3. \A s : Arrived(s)' = Arrived(s) /\ ScansOf(s)' = ScansOf(s)
    <3>1. \A i : i.op = "INCREMENT_COUNT" => (i \in Unsent' <=> i \in Unsent)
      BY <1>4 DEF NewSession, SessionItem, Unsent
    <3> QED
      BY <2>2, <3>1 DEF Arrived, ScansOf
  <2>4. ScansOf(session') = {} /\ Arrived(session') = {} /\ Cardinality({}) = 0
    <3>1. \A e \in DOMAIN scans : scans[e].session \in 1..Len(owner)
      BY DEF IInv, Typed, TypedHistory, ScansGrounded, Begun
    <3>2. session' \notin 1..Len(owner)
      BY <2>1
    <3> QED
      BY <3>1, <3>2, FS_EmptySet DEF ScansOf, Arrived
  <2>5. \A s \in 1..Len(owner') : s \in 1..Len(owner) \/ s = session'
    BY <2>1
  <2>6. CloudHolds'
    <3>1. Quantity(cloudRows, <<session', 1>>) >= 0
      BY BoundType DEF Covered
    <3> QED
      BY <2>2, <2>3, <2>4, <2>5, <3>1 DEF CloudHolds
  <2>7. ReadHolds'
    <3> SUFFICES ASSUME Reading, NEW s \in 1..Len(owner'), owner'[s] = tenant
                 PROVE  Quantity(loads[Last].rows, <<s, 1>>) >= Cardinality(Arrived(s))
      BY <2>1, <2>2, <2>3 DEF ReadHolds, Reading, Last
    <3>1. CASE s \in 1..Len(owner)
      BY <2>1, <3>1 DEF ReadHolds
    <3>2. CASE s = session'
      <4>1. Quantity(loads[Last].rows, <<s, 1>>) >= 0
        BY DEF Covered, ReadCovered, Quantity
      <4> QED
        BY <2>4, <3>2, <4>1
    <3> QED
      BY <2>5, <3>1, <3>2
  <2>8. RowHolds'
    <3>1. \A k \in DOMAIN rows' : k[1] \in 1..Len(owner)
      BY <1>4 DEF NewSession, IInv, ScreenOwned, Owned
    <3>2. <<session', 1>>[1] = session' /\ session' \notin 1..Len(owner)
      BY <2>1
    <3>3. <<session', 1>> \notin DOMAIN rows'
      BY <3>1, <3>2
    <3> QED
      BY <2>2, <2>4, <3>3 DEF RowHolds, ScansOf
  <2> QED
    BY <2>6, <2>7, <2>8
<1>5. ASSUME NEW p \in Products, Scan(p) PROVE Holds'
  <2>1. UNCHANGED <<cloudRows, loads, owner, tenant, session>>
    BY <1>5 DEF Scan, cloud
  <2>2. \A s : Arrived(s)' = Arrived(s)
    BY <1>5, ScanArrives
  <2>3. CloudHolds' /\ ReadHolds'
    BY <2>1, <2>2 DEF CloudHolds, ReadHolds, Reading, Last
  <2>4. RowHolds'
    <3> DEFINE k == <<session, 1>>
    <3>1. p = 1
      BY <1>5, PlainScan
    <3>2. /\ ScansOf(session)' = ScansOf(session) \cup {Len(scans) + 1}
          /\ Len(scans) + 1 \notin ScansOf(session)
      <4>1. PICK s : s = session
        OBVIOUS
      <4>2. /\ ScansOf(s)' = ScansOf(s) \cup {Len(scans) + 1}
            /\ Len(scans) + 1 \notin ScansOf(s)
        BY <1>5, <4>1, ScanArrives
      <4> QED
        BY <2>1, <4>1, <4>2 DEF ScansOf
    <3>3. Cardinality(ScansOf(session)') = Cardinality(ScansOf(session)) + 1
          /\ Cardinality(ScansOf(session)) \in Nat
      <4>1. IsFiniteSet(ScansOf(session)) /\ Cardinality(ScansOf(session)) \in Nat
        BY ArrivedFinite
      <4>2. Cardinality(ScansOf(session) \cup {Len(scans) + 1}) = Cardinality(ScansOf(session)) + 1
        BY <3>2, <4>1, FS_AddElement
      <4> QED
        BY <3>2, <4>1, <4>2
    <3>4. /\ k \in DOMAIN rows' /\ (k \in DOMAIN rows => rows'[k].qty = rows[k].qty + 1)
          /\ (k \notin DOMAIN rows => rows'[k].qty = 1)
      <4>1. \A c \in DOMAIN rows : rows[c] \in Row
        BY DEF IInv, Typed, TypedScreen, RowMap
      <4> QED
        BY <1>5, <3>1, <4>1 DEF Scan, Row
    <3>5. Stayed' = Stayed /\ session # None
      BY <1>5, <2>1 DEF Stayed, Scan
    <3>6. Stayed => rows'[k].qty >= Cardinality(ScansOf(session)')
      <4>1. CASE k \notin DOMAIN rows
        <5>1. Stayed => Cardinality(ScansOf(session)) = 0
          BY <3>5, <4>1, FS_EmptySet DEF RowHolds
        <5> QED
          BY <3>3, <3>4, <4>1, <5>1
      <4>2. CASE k \in DOMAIN rows
        <5>1. Stayed => rows[k].qty >= Cardinality(ScansOf(session)) /\ rows[k].qty \in Int
          BY <3>5, <4>2, QtyType DEF RowHolds
        <5> QED
          BY <3>3, <3>4, <4>2, <5>1
      <4> QED
        BY <4>1, <4>2
    <3> HIDE DEF k
    <3> QED
      BY <2>1, <3>4, <3>5, <3>6 DEF RowHolds, k
  <2> QED
    BY <2>3, <2>4

<1>6. ASSUME NEW i \in queue, Send(i) PROVE Holds'
  <2>1. UNCHANGED <<loads, owner, tenant, session, rows, scans>> /\ ~HasRead
    BY <1>6 DEF Send, view
  <2>2. ~Reading'
    BY <2>1, LiveIsLast DEF Reading, Last
  <2>3. RowHolds'
    BY <2>1 DEF RowHolds, Stayed, ScansOf
  <2>4. CloudHolds'
    <3> SUFFICES ASSUME NEW s \in 1..Len(owner)
                 PROVE  Quantity(cloudRows', <<s, 1>>) >= Cardinality(Arrived(s)')
      BY <2>1 DEF CloudHolds
    <3>1. Quantity(cloudRows, <<s, 1>>) >= Cardinality(Arrived(s))
      BY DEF CloudHolds
    <3>2. /\ Cardinality(Arrived(s)') - Cardinality(Arrived(s))
               <= Quantity(cloudRows', <<s, 1>>) - Quantity(cloudRows, <<s, 1>>)
          /\ Cardinality(Arrived(s)') \in Nat
      BY <1>6, SendArrives
    <3>3. Cardinality(Arrived(s)) \in Nat /\ Quantity(cloudRows, <<s, 1>>) \in Nat
      BY ArrivedFinite, BoundType DEF Covered
    <3>4. Quantity(cloudRows', <<s, 1>>) \in Int
      BY <1>0 DEF Quantity, IInv, Typed, TypedCloud, RowMap
    <3> QED
      BY <3>1, <3>2, <3>3, <3>4
  <2> QED
    BY <2>2, <2>3, <2>4 DEF ReadHolds
<1>7. ASSUME NEW i \in others, OtherLands(i) PROVE Holds'
  <2>1. UNCHANGED <<loads, owner, tenant, session, rows, scans, queue, landed>> /\ Land(i)
    BY <1>7 DEF OtherLands, view
  <2>2. \A s : Arrived(s)' = Arrived(s) /\ ScansOf(s)' = ScansOf(s)
    BY <2>1 DEF Arrived, ScansOf, Unsent
  <2>3. \A k : /\ Quantity(cloudRows, k) <= Quantity(cloudRows', k)
               /\ Quantity(cloudRows, k) \in Nat /\ Quantity(cloudRows', k) \in Int
    <3>1. \A k \in DOMAIN cloudRows' : cloudRows'[k] \in Int
      BY <1>0 DEF IInv, Typed, TypedCloud, RowMap
    <3> QED
      BY <2>1, <3>1, LandGrows, BoundType DEF Quantity, Covered
  <2>4. CloudHolds'
    <3> SUFFICES ASSUME NEW s \in 1..Len(owner)
                 PROVE  Quantity(cloudRows', <<s, 1>>) >= Cardinality(Arrived(s))
      BY <2>1, <2>2 DEF CloudHolds
    <3>1. Quantity(cloudRows, <<s, 1>>) >= Cardinality(Arrived(s))
      BY DEF CloudHolds
    <3>2. Cardinality(Arrived(s)) \in Nat
      BY ArrivedFinite
    <3> QED
      BY <2>3, <3>1, <3>2
  <2> QED
    BY <2>1, <2>2, <2>4 DEF ReadHolds, RowHolds, Reading, Last, Stayed
<1>8. CASE UNCHANGED <<loads, owner, tenant, session, rows, cloudRows>>
           /\ \A s : Arrived(s)' = Arrived(s) /\ ScansOf(s)' = ScansOf(s)
  BY <1>8 DEF CloudHolds, ReadHolds, RowHolds, Reading, Last, Stayed
<1>9. ASSUME NEW i \in queue, Dequeue(i) PROVE Holds'
  <2>1. Unsent' = Unsent /\ scans' = scans
    BY <1>9 DEF Dequeue, Unsent
  <2> QED
    BY <1>8, <1>9, <2>1 DEF Dequeue, view, cloud, Arrived, ScansOf
<1>10. ASSUME NEW s \in Sessions, OtherScan(s) PROVE Holds'
  <2>1. scans \in Seq(Scanned) /\ scans' = Append(scans, [session |-> s, here |-> FALSE])
    BY <1>10 DEF OtherScan, IInv, Typed, TypedHistory
  <2>2. /\ DOMAIN scans' = DOMAIN scans \cup {Len(scans) + 1}
        /\ scans'[Len(scans) + 1] = [session |-> s, here |-> FALSE]
        /\ \A e \in DOMAIN scans : scans'[e] = scans[e]
    BY <2>1 DEF Scanned
  <2>3. \A r : ScansOf(r)' = ScansOf(r)
    BY <2>2 DEF ScansOf
  <2>4. Unsent' = Unsent
    BY <1>10 DEF OtherScan, Unsent
  <2> QED
    BY <1>8, <1>10, <2>3, <2>4 DEF OtherScan, view, cloud, Arrived
<1>11. ASSUME NEW l \in DOMAIN loads,
              ReadRows(l) \/ ReadFeed(l) \/ FailRead(l) \/ Superseded(l) \/ Merge(l)
       PROVE  Holds'
  BY <1>11, HoldsStepLoads
<1>12. CASE UNCHANGED vars
  BY <1>8, <1>12 DEF vars, Arrived, ScansOf, Unsent
<1> QED
  BY <1>2, <1>3, <1>4, <1>5, <1>6, <1>7, <1>9, <1>10, <1>11, <1>12 DEF Next, Delete

\* The total of at most one row.
LEMMA TotalOfOne ==
  ASSUME NEW R, NEW s, NEW k, {c \in DOMAIN R : c[1] = s} \subseteq {k},
         \A c \in DOMAIN R : R[c] \in Int
  PROVE  Total(R, s) = IF k \in DOMAIN R /\ k[1] = s THEN R[k] ELSE 0
<1> DEFINE S == {c \in DOMAIN R : c[1] = s}
           Body(F) == [T \in SUBSET S |->
                         IF T = {} THEN 0 ELSE LET x == CHOOSE x \in T : TRUE IN R[x] + F[T \ {x}]]
           P(F) == F = Body(F)
           Sum[T \in SUBSET S] ==
             IF T = {} THEN 0 ELSE LET x == CHOOSE x \in T : TRUE IN R[x] + Sum[T \ {x}]
           h == [T \in SUBSET S |-> IF T = {} THEN 0 ELSE R[k]]
<1>1. Total(R, s) = Sum[S]
  BY DEF Total, MapThenSumSet, MapThenFoldSet
<1>2. S = {} \/ (S = {k} /\ k \in DOMAIN R /\ k[1] = s)
  OBVIOUS
<1>3. k \in DOMAIN R /\ k[1] = s => S = {k}
  OBVIOUS
<1>4. \A T \in SUBSET S : T # {} => T = {k} /\ (CHOOSE x \in T : TRUE) = k
  BY <1>2
<1>5. P(h)
  <2>1. \A T \in SUBSET S : T # {} => R[k] = R[CHOOSE x \in T : TRUE] + h[T \ {CHOOSE x \in T : TRUE}]
    <3> SUFFICES ASSUME NEW T \in SUBSET S, T # {}
                 PROVE  R[k] = R[CHOOSE x \in T : TRUE] + h[T \ {CHOOSE x \in T : TRUE}]
      OBVIOUS
    <3>1. T = {k} /\ (CHOOSE x \in T : TRUE) = k
      BY <1>4
    <3>2. T \ {k} = {} /\ h[{}] = 0
      BY <3>1
    <3>3. R[k] \in Int
      BY <1>2
    <3> QED
      BY <3>1, <3>2, <3>3
  <2> QED
    BY <2>1
<1>6. Sum = CHOOSE F : P(F)
  OBVIOUS
<1> HIDE DEF Sum, P
<1>7. P(CHOOSE F : P(F))
  BY <1>5
<1>8. Sum = Body(Sum)
  <2>1. P(Sum)
    BY <1>6, <1>7
  <2> QED
    BY <2>1 DEF P
<1>9. Sum[{}] = 0
  BY <1>8
<1>10. CASE S = {}
  BY <1>1, <1>3, <1>9, <1>10
<1>11. CASE S = {k} /\ k \in DOMAIN R /\ k[1] = s
  <2>1. Sum[S] = R[k] + Sum[S \ {k}]
    <3>1. S # {} /\ (CHOOSE x \in S : TRUE) = k
      BY <1>4, <1>11
    <3>2. Sum[S] = IF S = {} THEN 0 ELSE
                     LET x == CHOOSE x \in S : TRUE IN R[x] + Sum[S \ {x}]
      <4> HIDE DEF S
      <4> QED
        BY <1>8
    <3> HIDE DEF S
    <3> QED
      BY <3>1, <3>2
  <2>2. S \ {k} = {} /\ R[k] \in Int
    BY <1>11
  <2> QED
    BY <1>1, <1>9, <1>11, <2>1, <2>2
<1> QED
  BY <1>2, <1>10, <1>11

LEMMA HoldsCover ==
  ASSUME IInv, Plain, Covered, Holds, Stayed, NEW s \in Sessions
  PROVE  Total(Shown, s) >= Cardinality(feed \cap ScansOf(s))
<1> DEFINE k == <<s, 1>>
<1>1. ASSUME s \in 1..Len(owner) PROVE session # None /\ s = session
  <2>1. Len(owner) \in Nat /\ owner # <<>>
    BY <1>1 DEF IInv, Typed, TypedHistory
  <2>2. session # None /\ Len(owner) <= 1
    BY <2>1 DEF Holds, OneSession
  <2>3. session \in 1..Len(owner)
    BY <2>2 DEF IInv, ScreenOwned, Owned
  <2> QED
    BY <1>1, <2>1, <2>2, <2>3
<1>2. Total(Shown, s) = IF k \in DOMAIN rows THEN rows[k].qty ELSE 0
  <2>1. DOMAIN Shown = DOMAIN rows /\ \A c \in DOMAIN rows : Shown[c] = rows[c].qty
    BY DEF Shown
  <2>2. \A c \in DOMAIN rows : c = <<c[1], c[2]>> /\ c[2] = 1
    BY DEF IInv, Typed, TypedScreen, RowMap, RowKeys, Plain, PlainRows
  <2>3. {c \in DOMAIN Shown : c[1] = s} \subseteq {k} /\ k[1] = s
    BY <2>1, <2>2
  <2>4. \A c \in DOMAIN Shown : Shown[c] \in Int
    BY <2>1, QtyType
  <2> HIDE DEF k
  <2>5. Total(Shown, s) = IF k \in DOMAIN Shown /\ k[1] = s THEN Shown[k] ELSE 0
    BY <2>3, <2>4, TotalOfOne
  <2> QED
    BY <2>1, <2>3, <2>5
<1>3. CASE ScansOf(s) = {}
  <2>1. feed \cap ScansOf(s) = {} /\ Cardinality({}) = 0
    BY <1>3, FS_EmptySet
  <2>2. k \in DOMAIN rows => rows[k].qty >= 0
    <3> SUFFICES ASSUME k \in DOMAIN rows PROVE rows[k].qty >= 0
      OBVIOUS
    <3>1. s \in 1..Len(owner)
      BY DEF IInv, ScreenOwned, Owned
    <3>2. rows[k].qty >= Cardinality(ScansOf(s))
      BY <1>1, <3>1 DEF Holds, RowHolds
    <3> QED
      BY <1>3, <2>1, <3>2
  <2> QED
    BY <1>2, <2>1, <2>2
<1>4. CASE ScansOf(s) # {}
  <2>1. s \in 1..Len(owner)
    BY <1>4 DEF ScansOf, IInv, ScansGrounded, Begun, Typed, TypedHistory
  <2>2. k \in DOMAIN rows /\ rows[k].qty >= Cardinality(ScansOf(s)) /\ rows[k].qty \in Int
    BY <1>1, <1>4, <2>1, QtyType DEF Holds, RowHolds
  <2>3. /\ IsFiniteSet(ScansOf(s)) /\ Cardinality(ScansOf(s)) \in Nat
        /\ feed \cap ScansOf(s) \in SUBSET ScansOf(s)
    BY ArrivedFinite
  <2>4. Cardinality(feed \cap ScansOf(s)) <= Cardinality(ScansOf(s))
        /\ Cardinality(feed \cap ScansOf(s)) \in Nat
    BY <2>3, FS_Subset, FS_CardinalityType
  <2> HIDE DEF k
  <2> QED
    BY <1>2, <2>2, <2>3, <2>4
<1> QED
  BY <1>3, <1>4

\* scan N = count N over a reload: the row of a session is never below the scans
\* made here that its feed shows, whatever is read when, of a device that stays
\* with its business.  Of scans alone, of one session, and if what lands does not
\* land between the read of a load and its merge: each of the three hypotheses is
\* needed (TLC has the counterexample without it).
THEOREM CountsCover ==
  May \cap {"delete", "rotate", "landDuringLoad"} = {} => (Spec => []CountsCoverFeed)
<1> SUFFICES ASSUME "delete" \notin May, "rotate" \notin May, "landDuringLoad" \notin May
             PROVE  Spec => []CountsCoverFeed
  OBVIOUS
<1> DEFINE J == IInv /\ LastMine /\ Plain /\ Covered /\ Holds
<1>1. Init => J
  BY InitInv, PlainInit, CoveredInit, HoldsInit DEF Init, LastMine
<1>2. J /\ [Next]_vars => J'
  <2> SUFFICES ASSUME J, [Next]_vars PROVE J'
    OBVIOUS
  <2>1. IInv' /\ LastMine' /\ Plain' /\ Covered'
    BY NextInv, LastMineStep, PlainStep, CoveredStep
  <2>2. OneSession'
    BY OneSessionStep DEF Holds
  <2> QED
    BY <2>1, <2>2, HoldsStep
<1>3. J => CountsCoverFeed
  BY HoldsCover DEF CountsCoverFeed
<1> HIDE DEF J
<1> QED
  BY <1>1, <1>2, <1>3, PTL DEF Spec

-----------------------------------------------------------------------------
(* A device alone: a row on screen is what has been posted for its product  *)

\* The key of session s at the newest product, the only one that rows have.
Top(s) == <<s, products>>

\* The count items at key k: one for each scan, and what a delete moved there.
ScannedAt(Q, k) == {i \in CountsAt(Q, k) : i.event # None}
MovedAt(Q, k) == {i \in CountsAt(Q, k) : i.event = None}
Moved(Q, k) == IF MovedAt(Q, k) = {} THEN 0 ELSE (CHOOSE i \in MovedAt(Q, k) : TRUE).delta

\* What the cloud will hold at key k when everything has been sent.
Posted(k) == Quantity(cloudRows, k) + Cardinality(ScannedAt(Unsent, k)) + Moved(Unsent, k)

\* The gate is closed before the first session only, and no load outlives it.
MountedOnce ==
  /\ ~loaded => owner = <<>>
  /\ loads # <<>> /\ loaded /\ loads[Last].kind = "load" => loads[Last].phase = "done"

IsMove(i) == i.op = "INCREMENT_COUNT" /\ i.event = None /\ i.product = products
OwnItem(i) ==
  /\ i.tenant = tenant
  /\ i.op = "INCREMENT_COUNT" => i.product \in 1..products /\ (i.event # None => i.delta = 1)
  /\ i.op = "SAVE_PRODUCT" => i.product \in archived
OwnItems ==
  /\ others = {} /\ IsFiniteSet({i \in queue : i.event # None})
  /\ \A i \in queue : OwnItem(i)
  /\ \A i, j \in queue : IsMove(i) /\ IsMove(j) /\ i.session = j.session => i = j

\* A delete archives the product that has the rows and makes the next one.
NewestOnly ==
  /\ archived = 1..(products - 1) /\ (owner = <<>> => products = 1)
  /\ \A k \in DOMAIN rows : k[2] = products
  /\ \A k \in DOMAIN cloudRows : k[2] \in 1..products
  /\ \A c \in cloudArchived : c[2] \in archived
  /\ \A l \in DOMAIN loads : loads[l].archived \subseteq archived

RowsPosted ==
  /\ \A s \in Sessions : 0 <= Posted(Top(s)) /\ Posted(Top(s)) <= Cardinality(ScansOf(s))
  /\ \A k \in DOMAIN rows : rows[k].qty = Posted(k)
  /\ session # None =>
       IF Top(session) \in DOMAIN rows
       THEN Posted(Top(session)) = Cardinality(ScansOf(session))
       ELSE ScansOf(session) = {}

\* What the last load has read is what the cloud holds.
ReadsNow ==
  Reading => \A k \in DOMAIN loads[Last].rows :
    k \in DOMAIN cloudRows /\ cloudRows[k] = loads[Last].rows[k]

Tallied == MountedOnce /\ OwnItems /\ NewestOnly /\ RowsPosted /\ ReadsNow

LEMMA TalliedInit == Init => Tallied
<1> SUFFICES ASSUME Init PROVE Tallied
  OBVIOUS
<1>1. MountedOnce /\ ReadsNow
  BY DEF Init, MountedOnce, ReadsNow, Reading
<1>2. OwnItems
  <2>1. {i \in queue : i.event # None} = {}
    BY DEF Init
  <2> QED
    BY <2>1, FS_EmptySet DEF Init, OwnItems
<1>3. NewestOnly
  BY DEF Init, NoRows, NewestOnly
<1>4. RowsPosted
  <2>1. \A k : ScannedAt(Unsent, k) = {} /\ MovedAt(Unsent, k) = {} /\ Quantity(cloudRows, k) = 0
    BY DEF Init, NoRows, Unsent, CountsAt, ScannedAt, MovedAt, Quantity
  <2>2. \A k : Posted(k) = 0
    BY <2>1, FS_EmptySet DEF Posted, Moved
  <2>3. \A s : ScansOf(s) = {} /\ Cardinality(ScansOf(s)) = 0
    BY FS_EmptySet DEF Init, ScansOf
  <2> QED
    BY <2>2, <2>3 DEF Init, NoRows, RowsPosted
<1> QED
  BY <1>1, <1>2, <1>3, <1>4 DEF Tallied

\* There is a newest product, and the products before it are in the archive.
LEMMA NewestType ==
  ASSUME IInv, NewestOnly
  PROVE  /\ \E n : n = products /\ n \in Nat \ {0} /\ n \in Products
         /\ \A p \in Products : p \notin archived /\ p <= products => p = products
         /\ \A k \in DOMAIN rows : k = Top(k[1]) /\ k[1] \in Sessions
         /\ products \notin archived /\ products + 1 \notin 1..products
<1>1. products \in Products
  BY DEF IInv, Typed, TypedScreen
<1>2. products \in Nat \ {0}
  BY <1>1, Bounds DEF Products
<1>3. \A p \in Products : p \notin archived /\ p <= products => p = products
  BY <1>2, Bounds DEF Products, NewestOnly
<1>4. \A k \in DOMAIN rows : k = Top(k[1]) /\ k[1] \in Sessions
  BY DEF IInv, Typed, TypedScreen, RowMap, RowKeys, Top, NewestOnly
<1>5. products \notin archived /\ products + 1 \notin 1..products
  BY <1>2 DEF NewestOnly
<1> QED
  BY <1>1, <1>2, <1>3, <1>4, <1>5

LEMMA PostedType ==
  ASSUME IInv, OwnItems, NEW k
  PROVE  /\ Quantity(cloudRows, k) \in Int /\ Moved(Unsent, k) \in Int
         /\ IsFiniteSet(ScannedAt(Unsent, k)) /\ Cardinality(ScannedAt(Unsent, k)) \in Nat
         /\ Posted(k) \in Int
<1>1. Quantity(cloudRows, k) \in Int
  BY DEF Quantity, IInv, Typed, TypedCloud, RowMap
<1>2. Moved(Unsent, k) \in Int
  <2>1. \A i \in MovedAt(Unsent, k) : i \in Item
    BY DEF MovedAt, CountsAt, Unsent, IInv, Typed, TypedQueue
  <2>2. \A i \in MovedAt(Unsent, k) : i.delta \in Int
    BY <2>1, ItemFields
  <2> QED
    BY <2>2 DEF Moved
<1>3. IsFiniteSet(ScannedAt(Unsent, k))
  <2>1. ScannedAt(Unsent, k) \subseteq {i \in queue : i.event # None}
    BY DEF ScannedAt, CountsAt, Unsent
  <2> QED
    BY <2>1, FS_Subset DEF OwnItems
<1>4. Cardinality(ScannedAt(Unsent, k)) \in Nat
  BY <1>3, FS_CardinalityType
<1> QED
  BY <1>1, <1>2, <1>3, <1>4 DEF Posted

\* The posted quantity depends on the cloud and on the count items of its key.
LEMMA PostedSame ==
  ASSUME NEW k, Quantity(cloudRows', k) = Quantity(cloudRows, k),
         CountsAt(Unsent', k) = CountsAt(Unsent, k)
  PROVE  Posted(k)' = Posted(k)
<1>1. ScannedAt(Unsent', k) = ScannedAt(Unsent, k) /\ MovedAt(Unsent', k) = MovedAt(Unsent, k)
  BY DEF ScannedAt, MovedAt
<1>2. Moved(Unsent', k) = Moved(Unsent, k)
  BY <1>1 DEF Moved
<1> QED
  BY <1>1, <1>2 DEF Posted

\* Nothing waits for a key: what is posted there is what the cloud holds.
LEMMA PostedAll ==
  ASSUME IInv, NEW k, CountsAt(Unsent, k) = {}
  PROVE  Posted(k) = Quantity(cloudRows, k)
<1>1. ScannedAt(Unsent, k) = {} /\ MovedAt(Unsent, k) = {}
  BY DEF ScannedAt, MovedAt
<1>2. Quantity(cloudRows, k) \in Int
  BY DEF Quantity, IInv, Typed, TypedCloud, RowMap
<1> QED
  BY <1>1, <1>2, FS_EmptySet DEF Posted, Moved

\* A scan of the newest product posts one more at its key, and nowhere else.
LEMMA ScanPosts ==
  ASSUME IInv, Tallied, NEW p \in Products, Scan(p)
  PROVE  /\ p = products
         /\ \A k : Posted(k)' = Posted(k) + IF k = Top(session) THEN 1 ELSE 0
         /\ OwnItems'
<1> USE DEF Tallied
<1> DEFINE key == <<session, p>>
           e == Len(scans) + 1
           c == CountItem(tenant, key, rows'[key].id, e, 1)
           v == EventItem(tenant, session, e)
<1>1. p = products
  <2>1. p \notin archived /\ (p = 1 \/ \E s \in Sessions : <<s, p>> \in DOMAIN rows)
    BY DEF Scan, Countable
  <2>2. CASE p = 1
    BY <2>1, <2>2, NewestType
  <2>3. CASE \E s \in Sessions : <<s, p>> \in DOMAIN rows
    BY <2>3 DEF NewestOnly
  <2> QED
    BY <2>1, <2>2, <2>3
<1>2. /\ c.op = "INCREMENT_COUNT" /\ c.event = e /\ c.session = session /\ c.product = products
      /\ c.delta = 1 /\ c.tenant = tenant
      /\ v.op = "SAVE_SCAN_EVENT" /\ v.event = e /\ v.tenant = tenant
  BY <1>1 DEF CountItem, EventItem
<1>3. /\ queue' = queue \cup {v, c} /\ landed' = landed
      /\ UNCHANGED <<cloudRows, tenant, others, products, archived>>
  BY DEF Scan, cloud
<1>4. e # None /\ \A i \in queue : i.event # e
  <2>1. Len(scans) \in Nat /\ e # None
    BY MayAssumption DEF IInv, Typed, TypedHistory
  <2> QED
    BY <2>1 DEF IInv, ItemsGrounded, ItemGrounded, Made
<1>5. landed \subseteq queue
  BY DEF IInv, Typed, TypedQueue
<1> HIDE DEF c, v, e
<1>6. c \notin queue /\ c \in Unsent' /\ Unsent' = Unsent \cup {v, c}
  BY <1>2, <1>3, <1>4, <1>5 DEF Unsent
<1>7. ASSUME NEW k PROVE Posted(k)' = Posted(k) + IF k = Top(session) THEN 1 ELSE 0
  <2>1. CASE k = Top(session)
    <3>1. CountsAt(Unsent', k) = CountsAt(Unsent, k) \cup {c}
      BY <1>2, <1>6, <2>1 DEF CountsAt, Top
    <3>2. /\ ScannedAt(Unsent', k) = ScannedAt(Unsent, k) \cup {c}
          /\ MovedAt(Unsent', k) = MovedAt(Unsent, k)
      BY <1>2, <1>4, <3>1 DEF ScannedAt, MovedAt
    <3>3. c \notin ScannedAt(Unsent, k)
      BY <1>6 DEF ScannedAt, CountsAt, Unsent
    <3>4. Cardinality(ScannedAt(Unsent', k)) = Cardinality(ScannedAt(Unsent, k)) + 1
      BY <3>2, <3>3, PostedType, FS_AddElement
    <3>5. Moved(Unsent', k) = Moved(Unsent, k) /\ Quantity(cloudRows', k) = Quantity(cloudRows, k)
      BY <1>3, <3>2 DEF Moved
    <3> QED
      BY <2>1, <3>4, <3>5, PostedType DEF Posted
  <2>2. CASE k # Top(session)
    <3>1. CountsAt(Unsent', k) = CountsAt(Unsent, k)
      BY <1>2, <1>6, <2>2 DEF CountsAt, Top
    <3>2. Quantity(cloudRows', k) = Quantity(cloudRows, k)
      BY <1>3
    <3>3. Posted(k)' = Posted(k)
      BY <3>1, <3>2, PostedSame
    <3> QED
      BY <2>2, <3>3, PostedType
  <2> QED
    BY <2>1, <2>2
<1>8. OwnItems'
  <2>1. IsFiniteSet({i \in queue' : i.event # None})
    <3> DEFINE S == {i \in queue : i.event # None}
    <3>1. {i \in queue' : i.event # None} = (S \cup {v}) \cup {c}
      BY <1>2, <1>3, <1>4
    <3>2. IsFiniteSet(S)
      BY DEF OwnItems
    <3> HIDE DEF S
    <3>3. IsFiniteSet(S \cup {v})
      BY <3>2, FS_AddElement
    <3>4. IsFiniteSet((S \cup {v}) \cup {c})
      BY <3>3, FS_AddElement
    <3> QED
      BY <3>1, <3>4
  <2>2. products \in 1..products
    BY NewestType
  <2>3. \A i \in queue' : OwnItem(i)
    BY <1>2, <1>3, <2>2 DEF OwnItems, OwnItem
  <2>4. \A i \in queue' : IsMove(i) => i \in queue
    BY <1>2, <1>3, <1>4 DEF IsMove
  <2> QED
    BY <1>3, <2>1, <2>3, <2>4 DEF OwnItems, OwnItem, IsMove
<1> QED
  BY <1>1, <1>7, <1>8

\* What a send takes from the queue it adds to the cloud.
LEMMA SendPosts ==
  ASSUME IInv, Tallied, NEW i \in queue, Send(i), NEW s \in Sessions, NEW k, k = Top(s)
  PROVE  Posted(k)' = Posted(k)
<1> USE DEF Tallied
<1>1. Unsent' = Unsent \ {i} /\ i \in Unsent /\ Land(i)
  BY DEF Send, Unsent
<1>2. i \in Item /\ i.delta \in Int
  BY ItemFields DEF IInv, Typed, TypedQueue
<1>3. Quantity(cloudRows', k) = Quantity(cloudRows, k) + IF i \in CountsAt(queue, k) THEN i.delta ELSE 0
  <2>1. CASE i.op # "INCREMENT_COUNT"
    <3>1. cloudRows' = cloudRows /\ i \notin CountsAt(queue, k)
      BY <1>1, <2>1 DEF Land, CountsAt
    <3> QED
      BY <3>1, PostedType
  <2>2. CASE i.op = "INCREMENT_COUNT"
    <3>1. PICK c : c = <<i.session, i.product>>
      OBVIOUS
    <3>2. cloudRows' = [x \in DOMAIN cloudRows \cup {c} |->
                          Quantity(cloudRows, x) + (IF x = c THEN i.delta ELSE 0)]
      BY <1>1, <2>2, <3>1 DEF Land
    <3>3. i \in CountsAt(queue, k) <=> c = k
      BY <2>2, <3>1 DEF CountsAt
    <3>4. CASE k \in DOMAIN cloudRows \cup {c}
      <4>1. Quantity(cloudRows', k) = Quantity(cloudRows, k) + (IF k = c THEN i.delta ELSE 0)
        BY <3>2, <3>4 DEF Quantity
      <4> QED
        BY <3>3, <4>1
    <3>5. CASE k \notin DOMAIN cloudRows \cup {c}
      BY <3>2, <3>3, <3>5 DEF Quantity
    <3> QED
      BY <3>4, <3>5
  <2> QED
    BY <2>1, <2>2
<1>4. CASE i \notin CountsAt(queue, k)
  <2>1. CountsAt(Unsent', k) = CountsAt(Unsent, k)
    BY <1>1, <1>4 DEF CountsAt
  <2>2. Quantity(cloudRows', k) = Quantity(cloudRows, k)
    BY <1>3, <1>4, PostedType
  <2> QED
    BY <2>1, <2>2, PostedSame
<1>5. CASE i \in CountsAt(queue, k) /\ i.event # None
  <2>1. /\ ScannedAt(Unsent', k) = ScannedAt(Unsent, k) \ {i} /\ i \in ScannedAt(Unsent, k)
        /\ MovedAt(Unsent', k) = MovedAt(Unsent, k)
    BY <1>1, <1>5 DEF CountsAt, ScannedAt, MovedAt
  <2>2. Cardinality(ScannedAt(Unsent', k)) = Cardinality(ScannedAt(Unsent, k)) - 1
    <3>1. PICK D : D = ScannedAt(Unsent, k)
      OBVIOUS
    <3>2. IsFiniteSet(D) /\ i \in D
      BY <2>1, <3>1, PostedType
    <3>3. Cardinality(D \ {i}) = Cardinality(D) - 1
      BY <3>2, FS_RemoveElement
    <3> QED
      BY <2>1, <3>1, <3>3
  <2>3. Moved(Unsent', k) = Moved(Unsent, k)
    BY <2>1 DEF Moved
  <2>4. i.delta = 1
    BY <1>5 DEF OwnItems, OwnItem, CountsAt
  <2> QED
    BY <1>3, <1>5, <2>2, <2>3, <2>4, PostedType DEF Posted
<1>6. CASE i \in CountsAt(queue, k) /\ i.event = None
  <2>1. ScannedAt(Unsent', k) = ScannedAt(Unsent, k)
    BY <1>1, <1>6 DEF CountsAt, ScannedAt
  <2>2. \A j \in MovedAt(Unsent, k) : j = i
    BY <1>6 DEF MovedAt, CountsAt, Unsent, Top, OwnItems, IsMove
  <2>3. MovedAt(Unsent, k) = {i} /\ MovedAt(Unsent', k) = {}
    BY <1>1, <1>6, <2>2 DEF MovedAt, CountsAt
  <2>4. Moved(Unsent, k) = i.delta /\ Moved(Unsent', k) = 0
    BY <2>3 DEF Moved
  <2> QED
    BY <1>2, <1>3, <1>6, <2>1, <2>4, PostedType DEF Posted
<1> QED
  BY <1>4, <1>5, <1>6

\* The items of a delete: at the new product, the quantity of the row there was.
LEMMA DeletePosts ==
  ASSUME IInv, Tallied, NEW p \in Products, Delete(p)
  PROVE  /\ p = products /\ products' = products + 1
         /\ \A s \in Sessions :
              /\ Top(s)' \in DOMAIN rows' <=> Top(s) \in DOMAIN rows
              /\ Top(s) \in DOMAIN rows =>
                   /\ rows'[Top(s)'].qty = rows[Top(s)].qty
                   /\ Posted(Top(s))' = rows[Top(s)].qty
              /\ Top(s) \notin DOMAIN rows => Posted(Top(s))' = 0
         /\ \A k \in DOMAIN rows' : k[1] \in Sessions /\ k = Top(k[1])'
         /\ OwnItems'
<1> USE DEF Tallied
<1>1. p = products
  BY DEF Delete, Of, NewestOnly
<1>2. PICK n : n = products /\ n \in Nat \ {0}
  BY NewestType
<1>3. PICK q : q = n + 1 /\ products' = q /\ q \in Nat /\ q \notin 1..n
  BY <1>2 DEF Delete
<1>4. \A k \in DOMAIN rows : k = <<k[1], n>> /\ k[1] \in Sessions /\ <<k[1], q>> \notin DOMAIN rows
  <2>1. \A s : <<s, q>>[2] = q
    OBVIOUS
  <2> QED
    BY <1>2, <1>3, <2>1, NewestType DEF Top, NewestOnly
<1>5. Of(rows, p) = DOMAIN rows
  BY <1>1, <1>2, <1>4 DEF Of, NewestOnly
<1>6. rows' = [k \in {<<k[1], q>> : k \in DOMAIN rows} |-> rows[<<k[1], n>>]]
  <2>1. rows' = [k \in (DOMAIN rows \ Of(rows, p)) \cup {<<k[1], q>> : k \in Of(rows, p)} |->
                  IF k \in DOMAIN rows THEN rows[k] ELSE rows[<<k[1], p>>]]
    BY <1>2, <1>3 DEF Delete
  <2>2. \A k \in {<<k[1], q>> : k \in DOMAIN rows} : k \notin DOMAIN rows
    BY <1>4
  <2> QED
    BY <1>1, <1>2, <1>5, <2>1, <2>2
<1>7. ASSUME NEW s \in Sessions
      PROVE  /\ <<s, q>> \in DOMAIN rows' <=> <<s, n>> \in DOMAIN rows
             /\ <<s, n>> \in DOMAIN rows => rows'[<<s, q>>] = rows[<<s, n>>]
  <2>1. <<s, q>> \in DOMAIN rows' <=> <<s, n>> \in DOMAIN rows
    BY <1>4, <1>6
  <2>2. <<s, q>>[1] = s
    OBVIOUS
  <2> QED
    BY <1>6, <2>1, <2>2
<1>8. \A k \in DOMAIN rows' : k[1] \in Sessions /\ k = <<k[1], q>>
  BY <1>4, <1>6
<1> DEFINE T == TransferItems(tenant, p, q, rows)
           a == ArchiveItem(tenant, session, p)
           in(k) == CountItem(tenant, <<k[1], q>>, rows[k].id, None, rows[k].qty)
           out(k) == CountItem(tenant, k, rows[k].id, None, -rows[k].qty)
           M == {k \in DOMAIN rows : rows[k].qty > 0}
<1>9. /\ queue' = (queue \cup {a}) \cup T /\ landed' = landed /\ cloudRows' = cloudRows
      /\ UNCHANGED <<tenant, others>> /\ archived' = archived \cup {p}
  BY <1>2, <1>3 DEF Delete, cloud
<1>10. T = UNION {{out(k), in(k)} : k \in M}
  BY <1>1, <1>2, <1>5 DEF TransferItems, Of, NewestOnly
<1>11. \A k \in M : /\ in(k).op = "INCREMENT_COUNT" /\ in(k).event = None /\ in(k).session = k[1]
                    /\ in(k).product = q /\ in(k).delta = rows[k].qty /\ in(k).tenant = tenant
                    /\ out(k).op = "INCREMENT_COUNT" /\ out(k).event = None
                    /\ out(k).product = n /\ out(k).tenant = tenant
  <2>1. \A k \in M : k[2] = n
    BY <1>2 DEF NewestOnly
  <2> QED
    BY <2>1 DEF CountItem
<1>12. a.op = "SAVE_PRODUCT" /\ a.event = None /\ a.product = p /\ a.tenant = tenant
  BY DEF ArchiveItem
<1> HIDE DEF T, a, in, out
<1>13. \A i \in T : \E k \in M : i = out(k) \/ i = in(k)
  BY <1>10
<1>14. \A i \in queue : i.op = "INCREMENT_COUNT" => i.product # q
  BY <1>2, <1>3 DEF OwnItems, OwnItem
<1>15. landed \subseteq queue /\ \A k \in DOMAIN rows : rows[k].qty \in Int
  BY QtyType DEF IInv, Typed, TypedQueue
<1>16. q # n
  BY <1>2, <1>3
<1>17. ASSUME NEW s \in Sessions
       PROVE  Posted(<<s, q>>)' = IF <<s, n>> \in DOMAIN rows /\ rows[<<s, n>>].qty > 0
                                  THEN rows[<<s, n>>].qty ELSE 0
  <2> DEFINE k == <<s, n>>
             d == <<s, q>>
  <2>1. CountsAt(queue, d) = {}
    BY <1>14 DEF CountsAt
  <2>2. CountsAt(Unsent', d) = {i \in T : i.session = s /\ i.product = q}
    <3>1. \A i \in T : i.op = "INCREMENT_COUNT" /\ (i.product = q => i \notin queue)
      BY <1>11, <1>13, <1>14
    <3>2. Unsent' = Unsent \cup ((({a} \cup T)) \ landed)
      BY <1>9 DEF Unsent
    <3>3. \A i \in Unsent' : i \in queue \/ i = a \/ i \in T
      BY <3>2 DEF Unsent
    <3>4. \A i \in T : i.product = q => i \in Unsent'
      BY <1>15, <3>1, <3>2
    <3> QED
      BY <1>12, <2>1, <3>1, <3>3, <3>4 DEF CountsAt
  <2>3. \A i \in T : i.session = s /\ i.product = q => k \in M /\ i = in(k)
    <3> SUFFICES ASSUME NEW i \in T, i.session = s, i.product = q PROVE k \in M /\ i = in(k)
      OBVIOUS
    <3>1. PICK x \in M : i = out(x) \/ i = in(x)
      BY <1>13
    <3>2. i = in(x)
      BY <1>11, <1>16, <3>1
    <3>3. x[1] = s /\ x = <<x[1], n>>
      BY <1>4, <1>11, <3>2
    <3> QED
      BY <3>2, <3>3
  <2>4. k \in M => in(k) \in T /\ in(k).session = s /\ in(k).product = q
    <3>1. k[1] = s
      OBVIOUS
    <3> HIDE DEF k
    <3> QED
      BY <1>10, <1>11, <3>1
  <2>5. Quantity(cloudRows', d) = 0
    <3>1. d[2] = q
      OBVIOUS
    <3>2. d \notin DOMAIN cloudRows
      BY <1>2, <1>3, <3>1 DEF NewestOnly
    <3> QED
      BY <1>9, <3>2 DEF Quantity
  <2> HIDE DEF k, d
  <2>6. ScannedAt(Unsent', d) = {} /\ Cardinality({}) = 0
    <3>1. \A i \in CountsAt(Unsent', d) : i.event = None
      BY <1>11, <2>2, <2>3
    <3> QED
      BY <3>1, FS_EmptySet DEF ScannedAt
  <2>7. CASE k \in M
    <3>1. MovedAt(Unsent', d) = {in(k)}
      BY <1>11, <2>2, <2>3, <2>4, <2>7 DEF MovedAt
    <3>2. Moved(Unsent', d) = rows[k].qty
      BY <1>11, <2>7, <3>1 DEF Moved
    <3>3. Posted(d)' = rows[k].qty /\ rows[k].qty > 0 /\ k \in DOMAIN rows
      BY <1>15, <2>5, <2>6, <2>7, <3>2 DEF Posted
    <3> QED
      BY <3>3 DEF k, d
  <2>8. CASE k \notin M
    <3>1. MovedAt(Unsent', d) = {}
      BY <2>2, <2>3, <2>8 DEF MovedAt
    <3>2. Posted(d)' = 0
      BY <2>5, <2>6, <3>1 DEF Posted, Moved
    <3> QED
      BY <2>8, <3>2 DEF k, d
  <2> QED
    BY <2>7, <2>8
<1>18. \A s \in Sessions : <<s, n>> \in DOMAIN rows => rows[<<s, n>>].qty >= 0
  BY <1>2 DEF RowsPosted, Top
<1>19. OwnItems'
  <2>1. {i \in queue' : i.event # None} = {i \in queue : i.event # None}
    BY <1>9, <1>11, <1>12, <1>13
  <2>2. \A i \in queue' : OwnItem(i)'
    <3>1. ASSUME NEW i \in queue PROVE OwnItem(i)'
      <4>1. \A x \in 1..n : x \in 1..q
        BY <1>2, <1>3
      <4> QED
        BY <1>2, <1>3, <1>9, <4>1 DEF OwnItems, OwnItem
    <3>2. ASSUME NEW i, i = a PROVE OwnItem(i)'
      BY <1>9, <1>12, <3>2 DEF OwnItem
    <3>3. ASSUME NEW i \in T PROVE OwnItem(i)'
      <4>1. n \in 1..q /\ q \in 1..q
        BY <1>2, <1>3
      <4> QED
        BY <1>3, <1>9, <1>11, <1>13, <4>1 DEF OwnItem
    <3> QED
      BY <1>9, <3>1, <3>2, <3>3
  <2>3. ASSUME NEW i \in queue', NEW j \in queue', IsMove(i)', IsMove(j)', i.session = j.session
        PROVE  i = j
    <3>1. ASSUME NEW x \in queue', IsMove(x)' PROVE \E k \in M : x = in(k) /\ x.session = k[1]
      <4>1. x.op = "INCREMENT_COUNT" /\ x.product = q
        BY <1>3, <3>1 DEF IsMove
      <4>2. x \in T
        BY <1>9, <1>12, <1>14, <4>1
      <4> QED
        BY <1>11, <1>13, <1>16, <4>1, <4>2
    <3>2. PICK k \in M : i = in(k) /\ i.session = k[1]
      BY <2>3, <3>1
    <3>3. PICK m \in M : j = in(m) /\ j.session = m[1]
      BY <2>3, <3>1
    <3>4. k = m
      BY <1>4, <2>3, <3>2, <3>3
    <3> QED
      BY <3>2, <3>3, <3>4
  <2> QED
    BY <1>9, <2>1, <2>2, <2>3 DEF OwnItems
<1> HIDE DEF M
<1>20. ASSUME NEW s \in Sessions
       PROVE  /\ Top(s)' \in DOMAIN rows' <=> Top(s) \in DOMAIN rows
              /\ Top(s) \in DOMAIN rows =>
                   /\ rows'[Top(s)'].qty = rows[Top(s)].qty
                   /\ Posted(Top(s))' = rows[Top(s)].qty
              /\ Top(s) \notin DOMAIN rows => Posted(Top(s))' = 0
  <2>1. Top(s) = <<s, n>> /\ Top(s)' = <<s, q>>
    BY <1>2, <1>3 DEF Top
  <2>2. <<s, n>> \in DOMAIN rows => Posted(<<s, q>>)' = rows[<<s, n>>].qty
    BY <1>15, <1>17, <1>18
  <2>3. Posted(Top(s))' = Posted(<<s, q>>)'
    BY <2>1 DEF Posted
  <2> QED
    BY <1>7, <1>17, <2>1, <2>2, <2>3
<1> QED
  BY <1>1, <1>2, <1>3, <1>8, <1>19, <1>20 DEF Top

\* The steps that change nothing of what the rows are compared with.
LEMMA TallyKept ==
  ASSUME IInv, Tallied, MountedOnce', ReadsNow',
         UNCHANGED <<tenant, session, rows, archived, queue, others, scans, owner, products>>,
         UNCHANGED <<cloudRows, cloudArchived>>, Unsent' = Unsent,
         \A l \in DOMAIN loads' : loads'[l].archived \subseteq archived
  PROVE  Tallied'
<1>1. OwnItems'
  BY DEF Tallied, OwnItems, OwnItem, IsMove
<1>2. NewestOnly'
  BY DEF Tallied, NewestOnly
<1>3. \A k : Posted(k)' = Posted(k)
  BY DEF Posted
<1>4. RowsPosted'
  <2>1. \A s : Top(s)' = Top(s) /\ ScansOf(s)' = ScansOf(s)
    BY DEF Top, ScansOf
  <2>2. \A s : Posted(Top(s))' = Posted(Top(s))
    BY <2>1 DEF Posted
  <2> QED
    BY <1>3, <2>1, <2>2 DEF Tallied, RowsPosted
<1> QED
  BY <1>1, <1>2, <1>4 DEF Tallied

LEMMA TallyBegins ==
  ASSUME May \cap {"load", "switch", "otherScan", "landDuringLoad"} = {},
         IInv, LastMine, Tallied,
         NEW k \in {"load", "refresh"}, Begin(k), tenant' \in Tenants,
         UNCHANGED <<queue, landed, others, cloudRows, cloudArchived, scans, owner, products>>,
         \/ UNCHANGED <<tenant, session, rows, archived, loaded>> /\ k = "refresh"
         \/ owner = <<>> /\ session' = None /\ rows' = NoRows /\ archived' = {} /\ loaded' = FALSE
  PROVE  Tallied'
<1> USE DEF Tallied
<1>1. ReadsNow' /\ MountedOnce'
  <2>1. ~Reading' /\ loads'[Last'].kind = k /\ loads' # <<>>
    BY LoadBegins DEF Reading, Last
  <2> QED
    BY <2>1 DEF ReadsNow, MountedOnce
<1>2. \A l \in DOMAIN loads' : loads'[l].archived \subseteq archived
  BY LoadBegins DEF NewestOnly
<1>3. Unsent' = Unsent
  BY DEF Unsent
<1>4. CASE UNCHANGED <<tenant, session, rows, archived, loaded>>
  BY <1>1, <1>2, <1>3, <1>4, TallyKept
<1>5. CASE owner = <<>> /\ session' = None /\ rows' = NoRows /\ archived' = {} /\ loaded' = FALSE
  <2>1. queue = {} /\ products = 1 /\ archived = {}
    <3>1. ~\E s : Begun(s)
      BY <1>5 DEF Begun
    <3>2. queue = {}
      BY <3>1 DEF IInv, ItemsGrounded, ItemGrounded
    <3> QED
      BY <1>5, <3>2 DEF NewestOnly
  <2>2. OwnItems'
    BY <2>1 DEF OwnItems
  <2>3. NewestOnly'
    BY <1>2, <1>5, <2>1 DEF NewestOnly, NoRows
  <2>4. \A s : Posted(Top(s))' = Posted(Top(s)) /\ ScansOf(s)' = ScansOf(s)
    BY <1>3 DEF Posted, Top, ScansOf
  <2>5. RowsPosted'
    BY <1>5, <2>4 DEF RowsPosted, NoRows
  <2> QED
    BY <1>1, <2>2, <2>3, <2>5
<1> QED
  BY <1>4, <1>5

\* A refresh takes what the cloud holds of a key for which nothing is pending.
LEMMA TallyMerge ==
  ASSUME IInv, LastMine, Tallied, NEW l \in DOMAIN loads, Merge(l)
  PROVE  OwnItems' /\ NewestOnly' /\ RowsPosted'
<1> USE DEF Tallied
<1>1. l = Last /\ Reading /\ loads[l].phase = "read"
  <2>1. l = Last /\ loads[l].phase = "read"
    BY LiveIsLast DEF Merge
  <2>2. loads # <<>>
    BY DEF IInv, Typed, TypedLoads
  <2> QED
    BY <2>1, <2>2 DEF Reading
<1>2. UNCHANGED <<tenant, queue, landed, others, cloudRows, cloudArchived, scans, owner, products>>
  BY DEF Merge, cloud
<1>3. archived' = archived
  BY DEF Merge, MergedArchive, NewestOnly
<1>4. OwnItems'
  BY <1>2, <1>3 DEF OwnItems, OwnItem, IsMove
<1>5. \A m \in DOMAIN loads' : loads'[m].archived \subseteq archived
  BY LoadEnds DEF Merge, Steps, NewestOnly
<1>6. \A k : Posted(k)' = Posted(k)
  BY <1>2 DEF Posted, Unsent
<1>7. \A s : Top(s)' = Top(s) /\ ScansOf(s)' = ScansOf(s) /\ Posted(Top(s))' = Posted(Top(s))
  BY <1>2 DEF Top, ScansOf, Posted, Unsent
<1>8. CASE UNCHANGED <<session, rows>>
  <2>1. NewestOnly'
    BY <1>2, <1>3, <1>5, <1>8 DEF NewestOnly
  <2>2. RowsPosted'
    BY <1>6, <1>7, <1>8 DEF RowsPosted
  <2> QED
    BY <1>4, <2>1, <2>2
<1>9. CASE MergeLoad(l)
  <2>1. loads[l].kind = "load"
    BY <1>9 DEF MergeLoad
  <2>2. owner = <<>>
    BY <1>1, <2>1 DEF MountedOnce, Reading
  <2>3. loads[l].sessions = {}
    BY <2>2 DEF IInv, LoadsOwned, LoadOwned, Owned
  <2> QED
    BY <1>8, <1>9, <2>3 DEF MergeLoad
<1>10. CASE MergeRefresh(l)
  <2> DEFINE T == {k \in DOMAIN loads[l].rows : ~Kept(k) /\ ~DeletedHere(k)}
  <2>1. rows' = Merged(rows, l, T) /\ session' = session
    BY <1>10 DEF MergeRefresh, RefreshedRows
  <2>2. ASSUME NEW k \in T
        PROVE  k[2] = products /\ k[1] \in Sessions /\ k = Top(k[1]) /\ loads[l].rows[k] = Posted(k)
    <3>1. k \in DOMAIN cloudRows /\ cloudRows[k] = loads[l].rows[k] /\ k \in RowKeys
      BY <1>1 DEF ReadsNow, IInv, Typed, TypedCloud, RowMap
    <3>2. k[2] \in Products /\ k[2] \notin archived /\ k[2] \in 1..products
      BY <3>1 DEF DeletedHere, RowKeys, NewestOnly
    <3>3. k[2] = products
      <4>1. k[2] <= products
        BY <3>2
      <4> QED
        BY <3>2, <4>1, NewestType
    <3>4. CountsAt(Unsent, k) = {}
      BY DEF CountsAt, Unsent, Kept, KeyPending, Increments, Mine, OwnItems, OwnItem
    <3>5. Posted(k) = cloudRows[k]
      BY <3>1, <3>4, PostedAll DEF Quantity
    <3> QED
      BY <3>1, <3>3, <3>5 DEF RowKeys, Top
  <2> HIDE DEF T
  <2>3. /\ DOMAIN rows' = DOMAIN rows \cup T
        /\ \A k \in T : rows'[k].qty = loads[l].rows[k]
        /\ \A k \in DOMAIN rows : k \notin T => rows'[k] = rows[k]
    BY <2>1 DEF Merged
  <2>4. NewestOnly'
    BY <1>2, <1>3, <1>5, <2>2, <2>3 DEF NewestOnly
  <2>5. \A k \in DOMAIN rows' : rows'[k].qty = Posted(k)
    BY <2>2, <2>3 DEF RowsPosted
  <2>6. session # None /\ Top(session) \in DOMAIN rows'
          => Posted(Top(session)) = Cardinality(ScansOf(session))
    <3>1. CASE Top(session) \in DOMAIN rows
      BY <3>1 DEF RowsPosted
    <3>2. CASE Top(session) \notin DOMAIN rows /\ session # None
      <4>1. session \in Sessions /\ Cardinality(ScansOf(session)) = 0
        BY <3>2, FS_EmptySet DEF RowsPosted, IInv, Typed, TypedScreen
      <4>2. 0 <= Posted(Top(session)) /\ Posted(Top(session)) <= 0 /\ Posted(Top(session)) \in Int
        BY <4>1, PostedType DEF RowsPosted
      <4> QED
        BY <4>1, <4>2
    <3> QED
      BY <3>1, <3>2
  <2>7. RowsPosted'
    <3>1. session # None /\ Top(session) \notin DOMAIN rows' => ScansOf(session) = {}
      BY <2>3 DEF RowsPosted
    <3>2. Top(session)' = Top(session) /\ Posted(Top(session))' = Posted(Top(session))
      BY <1>7, <2>1
    <3> QED
      BY <1>6, <1>7, <2>1, <2>5, <2>6, <3>1 DEF RowsPosted
  <2> QED
    BY <1>4, <2>4, <2>7
<1> QED
  BY <1>9, <1>10 DEF Merge

LEMMA TallyLoads ==
  ASSUME IInv, LastMine, Tallied, NEW l \in DOMAIN loads,
         ReadRows(l) \/ ReadFeed(l) \/ FailRead(l) \/ Superseded(l) \/ Merge(l)
  PROVE  Tallied'
<1> USE DEF Tallied
<1>1. UNCHANGED <<queue, landed, others, cloudRows, cloudArchived, owner>>
  BY DEF ReadRows, ReadFeed, FailRead, Superseded, Merge, cloud
<1>2. Steps(l)
  BY LoadReads, LoadFeeds, LoadEnds DEF FailRead, Superseded, Merge
<1>3. loads # <<>> /\ Last \in DOMAIN loads /\ Last' = Last /\ loads' # <<>>
  <2>1. loads # <<>>
    BY DEF IInv, Typed, TypedLoads
  <2> QED
    BY <1>2, <2>1, LiveIsLast DEF Steps, Last
<1>4. ReadsNow' /\ MountedOnce'
  <2>1. CASE l # Last
    <3>1. loads'[Last] = loads[Last]
      BY <1>2, <1>3, <2>1 DEF Steps
    <3>2. loaded' = loaded
      <4>1. ~Live(l) /\ loaded \in BOOLEAN
        BY <2>1, LiveIsLast DEF IInv, Typed, TypedScreen
      <4>2. CASE FailRead(l)
        <5>1. loaded' = (loaded \/ FALSE)
          BY <4>1, <4>2 DEF FailRead
        <5> QED
          BY <4>1, <5>1
      <4>3. CASE ~FailRead(l)
        BY <4>1, <4>3 DEF ReadRows, ReadFeed, Superseded, Merge
      <4> QED
        BY <4>2, <4>3
    <3> QED
      BY <1>1, <1>3, <3>1, <3>2 DEF ReadsNow, Reading, MountedOnce
  <2>2. CASE l = Last /\ ReadRows(l)
    <3>1. /\ \A k \in DOMAIN loads'[l].rows : k \in DOMAIN cloudRows /\ cloudRows[k] = loads'[l].rows[k]
          /\ loads[l].phase = "asked"
      BY <2>2, LoadReads
    <3>2. loaded' = loaded /\ loads'[l].kind = loads[l].kind
      BY <1>2, <2>2 DEF ReadRows, Steps
    <3> QED
      BY <1>1, <1>3, <2>2, <3>1, <3>2 DEF ReadsNow, MountedOnce
  <2>3. CASE l = Last /\ ReadFeed(l)
    <3>1. loads[Last].phase = "rows" /\ loads'[Last].rows = loads[Last].rows
      BY <2>3, LoadFeeds
    <3>2. loaded' = loaded /\ loads'[Last].kind = loads[Last].kind
      BY <1>2, <2>3 DEF ReadFeed, Steps
    <3> QED
      BY <1>1, <1>3, <3>1, <3>2 DEF ReadsNow, Reading, MountedOnce
  <2>4. CASE l = Last /\ (FailRead(l) \/ Superseded(l) \/ Merge(l))
    <3>1. loads'[Last].phase = "done"
      BY <2>4, LoadEnds DEF FailRead, Superseded, Merge
    <3>2. ~loaded' => ~loaded
      BY <2>4 DEF FailRead, Superseded, Merge, MergeLoad, MergeRefresh
    <3> QED
      BY <1>1, <1>3, <3>1, <3>2 DEF ReadsNow, Reading, MountedOnce
  <2> QED
    BY <2>1, <2>2, <2>3, <2>4
<1>5. CASE Merge(l)
  BY <1>4, <1>5, TallyMerge
<1>6. CASE ~Merge(l)
  <2>1. UNCHANGED <<tenant, session, rows, archived, queue, others, scans, owner, products>>
    BY <1>6 DEF ReadRows, ReadFeed, FailRead, Superseded, view
  <2>2. loads'[l].archived \subseteq archived
    <3>1. CASE ReadRows(l)
      <4> SUFFICES ASSUME NEW p \in loads'[l].archived PROVE p \in archived
        OBVIOUS
      <4>1. <<loads[l].tenant, p>> \in cloudArchived
        BY <3>1, LoadReads
      <4>2. <<loads[l].tenant, p>>[2] \in archived
        BY <4>1 DEF NewestOnly
      <4> QED
        BY <4>2
    <3>2. CASE ReadFeed(l)
      BY <3>2, LoadFeeds DEF NewestOnly
    <3>3. CASE FailRead(l) \/ Superseded(l)
      BY <3>3, LoadEnds DEF FailRead, Superseded
    <3> QED
      BY <1>6, <3>1, <3>2, <3>3
  <2>3. \A m \in DOMAIN loads' : loads'[m].archived \subseteq archived
    BY <1>2, <2>2 DEF Steps, NewestOnly
  <2>4. Unsent' = Unsent
    BY <1>1 DEF Unsent
  <2> QED
    BY <1>1, <1>4, <2>1, <2>3, <2>4, TallyKept
<1> QED
  BY <1>5, <1>6

LEMMA TallySession ==
  ASSUME IInv, Tallied, NewSession
  PROVE  Tallied'
<1> USE DEF Tallied
<1>1. /\ Len(owner) \in Nat /\ session' = Len(owner) + 1 /\ Len(owner') = Len(owner) + 1
      /\ owner' # <<>>
  <2>1. owner \in Seq(Tenants) /\ tenant \in Tenants
    BY DEF NewSession, IInv, Typed, TypedHistory, TypedScreen
  <2> QED
    BY <2>1 DEF NewSession
<1>2. /\ UNCHANGED <<tenant, loaded, archived, landed, loads, others, scans, products, cloudRows, cloudArchived>>
      /\ DOMAIN rows' \subseteq DOMAIN rows /\ \A k \in DOMAIN rows' : rows'[k] = rows[k]
  BY DEF NewSession, cloud
<1>3. PICK i : queue' = queue \cup {i} /\ i.op = "SAVE_SESSION" /\ i.event = None /\ i.tenant = tenant
  <2> DEFINE j == SessionItem(tenant, session')
  <2>1. j.op = "SAVE_SESSION" /\ j.event = None /\ j.tenant = tenant
    BY DEF SessionItem
  <2>2. queue' = queue \cup {j}
    BY DEF NewSession
  <2> HIDE DEF j
  <2> QED
    BY <2>1, <2>2
<1>4. MountedOnce' /\ ReadsNow'
  BY <1>2 DEF NewSession, MountedOnce, ReadsNow, Reading, Last
<1>5. OwnItems'
  <2>1. {j \in queue' : j.event # None} = {j \in queue : j.event # None}
    BY <1>3
  <2>2. \A j \in queue' : OwnItem(j)'
    BY <1>2, <1>3 DEF OwnItems, OwnItem
  <2>3. \A j \in queue' : IsMove(j)' => IsMove(j) /\ j \in queue
    BY <1>2, <1>3 DEF IsMove
  <2> QED
    BY <1>2, <2>1, <2>2, <2>3 DEF OwnItems
<1>6. NewestOnly'
  BY <1>1, <1>2 DEF NewestOnly
<1>7. \A k : Posted(k)' = Posted(k)
  <2>1. \A k : CountsAt(Unsent', k) = CountsAt(Unsent, k)
    BY <1>2, <1>3 DEF CountsAt, Unsent
  <2> QED
    BY <1>2, <2>1, PostedSame
<1>8. \A s : Top(s)' = Top(s) /\ ScansOf(s)' = ScansOf(s) /\ Posted(Top(s))' = Posted(Top(s))
  <2>1. \A s : Top(s)' = Top(s) /\ ScansOf(s)' = ScansOf(s)
    BY <1>2 DEF Top, ScansOf
  <2>2. \A s : Posted(Top(s))' = Posted(Top(s))
    <3> SUFFICES ASSUME NEW s PROVE Posted(Top(s))' = Posted(Top(s))
      OBVIOUS
    <3>1. PICK k : k = Top(s) /\ Top(s)' = k
      BY <2>1
    <3>2. Posted(Top(s))' = Posted(k)'
      BY <3>1 DEF Posted
    <3> QED
      BY <1>7, <3>1, <3>2
  <2> QED
    BY <2>1, <2>2
<1>9. PICK n : n = session' /\ n \notin 1..Len(owner)
  BY <1>1
<1>10. Top(n) \notin DOMAIN rows' /\ ScansOf(n) = {}
  <2>1. \A k \in DOMAIN rows' : k[1] # n
    BY <1>2, <1>9 DEF IInv, ScreenOwned, Owned
  <2>2. Top(n)[1] = n
    BY DEF Top
  <2>3. \A e \in DOMAIN scans : scans[e].session # n
    BY <1>9 DEF IInv, Typed, TypedHistory, ScansGrounded, Begun
  <2> QED
    BY <2>1, <2>2, <2>3 DEF ScansOf
<1>11. RowsPosted'
  <2>1. Top(session)' = Top(n) /\ ScansOf(session)' = ScansOf(n)
    BY <1>2, <1>9 DEF Top, ScansOf
  <2>2. \A s \in Sessions : 0 <= Posted(Top(s))' /\ Posted(Top(s))' <= Cardinality(ScansOf(s)')
    BY <1>8 DEF RowsPosted
  <2>3. \A k \in DOMAIN rows' : rows'[k].qty = Posted(k)'
    BY <1>2, <1>7 DEF RowsPosted
  <2> QED
    BY <1>10, <2>1, <2>2, <2>3 DEF RowsPosted
<1> QED
  BY <1>4, <1>5, <1>6, <1>11

LEMMA TallyScan ==
  ASSUME IInv, Tallied, NEW p \in Products, Scan(p)
  PROVE  Tallied'
<1> USE DEF Tallied
<1>1. /\ p = products /\ OwnItems'
      /\ \A k : Posted(k)' = Posted(k) + IF k = Top(session) THEN 1 ELSE 0
  BY ScanPosts
<1>2. UNCHANGED <<tenant, loaded, session, archived, loads, owner, products, cloudRows, cloudArchived>>
  BY DEF Scan, cloud
<1>3. MountedOnce' /\ ReadsNow'
  BY <1>2 DEF MountedOnce, ReadsNow, Reading, Last
<1>4. PICK k : k = Top(session) /\ Top(session)' = k /\ k[2] = products
  <2>1. Top(session)' = Top(session) /\ Top(session)[2] = products
    BY <1>2 DEF Top
  <2> QED
    BY <2>1
<1>5. /\ DOMAIN rows' = DOMAIN rows \cup {k}
      /\ \A c \in DOMAIN rows : c # k => rows'[c] = rows[c]
      /\ k \in DOMAIN rows => rows'[k].qty = rows[k].qty + 1
      /\ k \notin DOMAIN rows => rows'[k].qty = 1
  <2>1. \A c \in DOMAIN rows : rows[c] \in Row
    BY DEF IInv, Typed, TypedScreen, RowMap
  <2>2. rows' = [c \in DOMAIN rows \cup {k} |->
                  IF c # k THEN rows[c]
                  ELSE IF k \in DOMAIN rows THEN [rows[k] EXCEPT !.qty = @ + 1]
                  ELSE [qty |-> 1, id |-> MadeId(k)]]
    BY <1>1, <1>4 DEF Scan, Top
  <2> QED
    BY <2>1, <2>2 DEF Row
<1>6. NewestOnly'
  BY <1>2, <1>4, <1>5 DEF NewestOnly
<1>7. session \in Sessions /\ session # None
  BY DEF Scan, IInv, Typed, TypedScreen
<1>8. /\ \A s : s # session => ScansOf(s)' = ScansOf(s)
      /\ Cardinality(ScansOf(session)') = Cardinality(ScansOf(session)) + 1
  <2>1. scans \in Seq(Scanned) /\ Len(scans) \in Nat /\ DOMAIN scans = 1..Len(scans)
    BY DEF IInv, Typed, TypedHistory
  <2>2. scans' = Append(scans, [session |-> session, here |-> TRUE])
    BY DEF Scan
  <2>3. /\ DOMAIN scans' = DOMAIN scans \cup {Len(scans) + 1} /\ Len(scans) + 1 \notin DOMAIN scans
        /\ scans'[Len(scans) + 1] = [session |-> session, here |-> TRUE]
        /\ \A e \in DOMAIN scans : scans'[e] = scans[e]
    BY <1>7, <2>1, <2>2 DEF Scanned
  <2>4. \A s : ScansOf(s)' = IF s = session THEN ScansOf(s) \cup {Len(scans) + 1} ELSE ScansOf(s)
    BY <2>3 DEF ScansOf
  <2>5. Len(scans) + 1 \notin ScansOf(session)
    BY <2>3 DEF ScansOf
  <2>6. ScansOf(session)' = ScansOf(session) \cup {Len(scans) + 1}
    BY <1>2, <2>4 DEF ScansOf
  <2> QED
    BY <2>4, <2>5, <2>6, ArrivedFinite, FS_AddElement
<1>9. \A c : Posted(c) \in Int
  BY PostedType
<1>10. \A s : Top(s)' = Top(s) /\ (Top(s) = k <=> s = session)
  BY <1>2, <1>4 DEF Top
<1>11. ASSUME NEW s \in Sessions
       PROVE  0 <= Posted(Top(s))' /\ Posted(Top(s))' <= Cardinality(ScansOf(s)')
  <2>1. PICK c : c = Top(s) /\ Top(s)' = c
    BY <1>10
  <2>2. Posted(Top(s))' = Posted(c)'
    BY <2>1 DEF Posted
  <2>3. 0 <= Posted(c) /\ Posted(c) <= Cardinality(ScansOf(s)) /\ Cardinality(ScansOf(s)) \in Nat
    BY <2>1, ArrivedFinite DEF RowsPosted
  <2>4. CASE s = session
    <3>1. Posted(c)' = Posted(c) + 1
      BY <1>1, <2>1, <2>4
    <3>2. Cardinality(ScansOf(s)') = Cardinality(ScansOf(s)) + 1
      <4>1. ScansOf(session)' = ScansOf(s)'
        BY <1>2, <2>4 DEF ScansOf
      <4> QED
        BY <1>8, <2>4, <4>1
    <3> QED
      BY <1>9, <2>2, <2>3, <3>1, <3>2
  <2>5. CASE s # session
    <3>1. Posted(c)' = Posted(c) + 0 /\ ScansOf(s)' = ScansOf(s)
      BY <1>1, <1>4, <1>8, <1>10, <2>1, <2>5
    <3> QED
      BY <1>9, <2>2, <2>3, <3>1
  <2> QED
    BY <2>4, <2>5
<1>12. k \in DOMAIN rows' /\ Posted(k)' = Cardinality(ScansOf(session)') /\ rows'[k].qty = Posted(k)'
  <2>1. Posted(k)' = Posted(k) + 1 /\ Posted(k) \in Int /\ Cardinality(ScansOf(session)) \in Nat
    BY <1>1, <1>4, <1>9, ArrivedFinite
  <2>2. CASE k \in DOMAIN rows
    <3>1. Posted(k) = Cardinality(ScansOf(session)) /\ rows[k].qty = Posted(k)
      BY <1>4, <1>7, <2>2 DEF RowsPosted
    <3> QED
      BY <1>5, <1>8, <2>1, <2>2, <3>1
  <2>3. CASE k \notin DOMAIN rows
    <3>1. Cardinality(ScansOf(session)) = 0
      BY <1>4, <1>7, <2>3, FS_EmptySet DEF RowsPosted
    <3>2. 0 <= Posted(k) /\ Posted(k) <= Cardinality(ScansOf(session))
      BY <1>4, <1>7 DEF RowsPosted
    <3> QED
      BY <1>5, <1>8, <2>1, <2>3, <3>1, <3>2
  <2> QED
    BY <2>2, <2>3
<1>13. ASSUME NEW c \in DOMAIN rows' PROVE rows'[c].qty = Posted(c)'
  <2>1. CASE c = k
    BY <1>12, <2>1
  <2>2. CASE c # k
    <3>1. c \in DOMAIN rows /\ rows'[c] = rows[c] /\ rows[c].qty = Posted(c)
      BY <1>5, <2>2 DEF RowsPosted
    <3>2. Posted(c)' = Posted(c) + 0
      BY <1>1, <1>4, <2>2
    <3> QED
      BY <1>9, <3>1, <3>2
  <2> QED
    BY <2>1, <2>2
<1>14. RowsPosted'
  <2>1. Posted(Top(session))' = Posted(k)'
    BY <1>4 DEF Posted
  <2> QED
    BY <1>4, <1>11, <1>12, <1>13, <2>1 DEF RowsPosted
<1> QED
  BY <1>1, <1>3, <1>6, <1>14

LEMMA TallyDelete ==
  ASSUME IInv, Tallied, NEW p \in Products, Delete(p)
  PROVE  Tallied'
<1> USE DEF Tallied
<1>1. /\ p = products /\ products' = products + 1 /\ OwnItems'
      /\ \A s \in Sessions :
              /\ Top(s)' \in DOMAIN rows' <=> Top(s) \in DOMAIN rows
              /\ Top(s) \in DOMAIN rows =>
                   /\ rows'[Top(s)'].qty = rows[Top(s)].qty
                   /\ Posted(Top(s))' = rows[Top(s)].qty
              /\ Top(s) \notin DOMAIN rows => Posted(Top(s))' = 0
      /\ \A k \in DOMAIN rows' : k[1] \in Sessions /\ k = Top(k[1])'
  BY DeletePosts
<1>2. /\ UNCHANGED <<tenant, loaded, session, loads, scans, owner, cloudRows, cloudArchived>>
      /\ archived' = archived \cup {p} /\ session # None
  BY DEF Delete, cloud
<1>3. MountedOnce' /\ ReadsNow'
  BY <1>2 DEF MountedOnce, ReadsNow, Reading, Last
<1>4. PICK n : n = products /\ n \in Nat \ {0}
  BY NewestType
<1>5. session \in Sessions /\ owner # <<>>
  BY <1>2 DEF IInv, Typed, TypedScreen, ScreenOwned, Owned
<1>6. NewestOnly'
  <2>1. archived' = 1..(products' - 1)
    <3>1. archived' = 1..(n - 1) \cup {n} /\ products' = n + 1
      BY <1>1, <1>2, <1>4 DEF NewestOnly
    <3>2. 1..(n - 1) \cup {n} = 1..((n + 1) - 1)
      BY <1>4
    <3> QED
      BY <3>1, <3>2
  <2>2. \A k \in DOMAIN rows' : k[2] = products'
    <3>1. \A s : Top(s)'[2] = products'
      BY DEF Top
    <3> QED
      BY <1>1, <3>1
  <2>3. \A k \in DOMAIN cloudRows : k[2] \in 1..products'
    <3>1. \A x \in 1..n : x \in 1..(n + 1)
      BY <1>4
    <3> QED
      BY <1>1, <1>4, <3>1 DEF NewestOnly
  <2> QED
    BY <1>2, <1>5, <2>1, <2>2, <2>3 DEF NewestOnly
<1>7. \A s : ScansOf(s)' = ScansOf(s)
  BY <1>2 DEF ScansOf
<1>8. \A k \in DOMAIN rows : rows[k].qty = Posted(k)
  BY DEF RowsPosted
<1>9. ASSUME NEW s \in Sessions
      PROVE  0 <= Posted(Top(s))' /\ Posted(Top(s))' <= Cardinality(ScansOf(s)')
  <2>1. Cardinality(ScansOf(s)) \in Nat
    BY ArrivedFinite
  <2>2. CASE Top(s) \in DOMAIN rows
    <3>1. Posted(Top(s))' = Posted(Top(s))
      BY <1>1, <1>8, <2>2
    <3> QED
      BY <1>7, <3>1 DEF RowsPosted
  <2>3. CASE Top(s) \notin DOMAIN rows
    <3>1. Posted(Top(s))' = 0
      BY <1>1, <2>3
    <3> QED
      BY <1>7, <2>1, <3>1
  <2> QED
    BY <2>2, <2>3
<1>10. ASSUME NEW k \in DOMAIN rows' PROVE rows'[k].qty = Posted(k)'
  <2>1. PICK s \in Sessions : k = Top(s)'
    BY <1>1
  <2>2. Top(s) \in DOMAIN rows
    BY <1>1, <2>1
  <2>3. rows'[k].qty = Posted(Top(s))'
    BY <1>1, <2>1, <2>2
  <2>4. Posted(Top(s))' = Posted(k)'
    BY <2>1 DEF Posted
  <2> QED
    BY <2>3, <2>4
<1>11. PICK s \in Sessions : s = session
  BY <1>5
<1>12. Top(session)' = Top(s)' /\ Posted(Top(session))' = Posted(Top(s))' /\ ScansOf(session)' = ScansOf(s)
  <2>1. Top(session)' = Top(s)' /\ ScansOf(session)' = ScansOf(s)
    BY <1>2, <1>11 DEF Top, ScansOf
  <2> QED
    BY <2>1 DEF Posted
<1>13. IF Top(s)' \in DOMAIN rows' THEN Posted(Top(s))' = Cardinality(ScansOf(s)) ELSE ScansOf(s) = {}
  <2>1. CASE Top(s) \in DOMAIN rows
    BY <1>1, <1>2, <1>8, <1>11, <2>1 DEF RowsPosted
  <2>2. CASE Top(s) \notin DOMAIN rows
    BY <1>1, <1>2, <1>11, <2>2 DEF RowsPosted
  <2> QED
    BY <2>1, <2>2
<1>14. RowsPosted'
  BY <1>9, <1>10, <1>12, <1>13 DEF RowsPosted
<1> QED
  BY <1>1, <1>3, <1>6, <1>14

LEMMA TallySend ==
  ASSUME "landDuringLoad" \notin May, IInv, LastMine, Tallied, NEW i \in queue, Send(i)
  PROVE  Tallied'
<1> USE DEF Tallied
<1>1. /\ UNCHANGED <<tenant, loaded, session, rows, archived, queue, loads, others, scans, owner, products>>
      /\ ~HasRead /\ Land(i)
  BY DEF Send, view
<1>2. ~Reading'
  BY <1>1, LiveIsLast DEF Reading, Last
<1>3. MountedOnce' /\ ReadsNow'
  BY <1>1, <1>2 DEF MountedOnce, ReadsNow, Last
<1>4. OwnItems'
  BY <1>1 DEF OwnItems, OwnItem, IsMove
<1>5. OwnItem(i)
  BY DEF OwnItems
<1>6. \A k \in DOMAIN cloudRows' : k[2] \in 1..products
  <2>1. CASE i.op = "INCREMENT_COUNT"
    <3>1. DOMAIN cloudRows' = DOMAIN cloudRows \cup {<<i.session, i.product>>}
      BY <1>1, <2>1 DEF Land
    <3>2. <<i.session, i.product>>[2] = i.product /\ i.product \in 1..products
      BY <1>5, <2>1 DEF OwnItem
    <3> QED
      BY <3>1, <3>2 DEF NewestOnly
  <2>2. CASE i.op # "INCREMENT_COUNT"
    BY <1>1, <2>2 DEF Land, NewestOnly
  <2> QED
    BY <2>1, <2>2
<1>7. \A c \in cloudArchived' : c[2] \in archived
  <2>1. <<i.tenant, i.product>>[2] = i.product
    OBVIOUS
  <2> QED
    BY <1>1, <1>5, <2>1 DEF Land, NewestOnly, OwnItem
<1>8. NewestOnly'
  BY <1>1, <1>6, <1>7 DEF NewestOnly
<1>9. ASSUME NEW s \in Sessions
      PROVE  Posted(Top(s))' = Posted(Top(s)) /\ Top(s)' = Top(s) /\ ScansOf(s)' = ScansOf(s)
  <2>1. Top(s)' = Top(s) /\ ScansOf(s)' = ScansOf(s)
    BY <1>1 DEF Top, ScansOf
  <2>2. PICK k : k = Top(s) /\ k = Top(s)'
    BY <2>1
  <2>3. Posted(k)' = Posted(k)
    BY <2>2, SendPosts
  <2>4. Posted(Top(s))' = Posted(k)' /\ Posted(Top(s)) = Posted(k)
    BY <2>2 DEF Posted
  <2> QED
    BY <2>1, <2>3, <2>4
<1>10. ASSUME NEW k \in DOMAIN rows PROVE Posted(k)' = Posted(k)
  <2>1. k = Top(k[1]) /\ k[1] \in Sessions
    BY NewestType
  <2> QED
    BY <2>1, SendPosts
<1>11. session # None =>
         /\ session \in Sessions /\ Top(session)' = Top(session)
         /\ Posted(Top(session))' = Posted(Top(session)) /\ ScansOf(session)' = ScansOf(session)
  <2> SUFFICES ASSUME session # None
               PROVE  /\ session \in Sessions /\ Top(session)' = Top(session)
                      /\ Posted(Top(session))' = Posted(Top(session)) /\ ScansOf(session)' = ScansOf(session)
    OBVIOUS
  <2>1. PICK s \in Sessions : s = session /\ s = session'
    BY <1>1 DEF IInv, Typed, TypedScreen
  <2>2. Top(session)' = Top(s)' /\ ScansOf(session)' = ScansOf(s)' /\ Top(session) = Top(s)
    BY <2>1 DEF Top, ScansOf
  <2>3. Posted(Top(session))' = Posted(Top(s))'
    BY <2>2 DEF Posted
  <2> QED
    BY <1>9, <2>1, <2>2, <2>3
<1>12. RowsPosted'
  BY <1>1, <1>9, <1>10, <1>11 DEF RowsPosted
<1> QED
  BY <1>3, <1>4, <1>8, <1>12

LEMMA TallyDequeue ==
  ASSUME IInv, Tallied, NEW i \in queue, Dequeue(i)
  PROVE  Tallied'
<1> USE DEF Tallied
<1>1. /\ UNCHANGED <<tenant, loaded, session, rows, archived, loads, others, scans, owner, products>>
      /\ UNCHANGED <<cloudRows, cloudArchived>> /\ queue' = queue \ {i} /\ Unsent' = Unsent
  BY DEF Dequeue, view, cloud, Unsent
<1>2. MountedOnce' /\ ReadsNow' /\ NewestOnly'
  BY <1>1 DEF MountedOnce, ReadsNow, Reading, Last, NewestOnly
<1>3. OwnItems'
  <2> DEFINE S == {j \in queue : j.event # None}
             R == {j \in queue' : j.event # None}
  <2>1. IsFiniteSet(S) /\ R \subseteq S
    BY <1>1 DEF OwnItems
  <2>2. IsFiniteSet(R)
    <3> HIDE DEF S, R
    <3> QED
      BY <2>1, FS_Subset
  <2> QED
    BY <1>1, <2>2 DEF OwnItems, OwnItem, IsMove
<1>4. \A k : Posted(k)' = Posted(k)
  BY <1>1 DEF Posted
<1>5. \A s : Top(s)' = Top(s) /\ ScansOf(s)' = ScansOf(s)
  BY <1>1 DEF Top, ScansOf
<1>6. \A s : Posted(Top(s))' = Posted(Top(s))
  BY <1>1, <1>5 DEF Posted
<1>7. RowsPosted'
  BY <1>1, <1>4, <1>5, <1>6 DEF RowsPosted
<1> QED
  BY <1>2, <1>3, <1>7

LEMMA TallyStep ==
  ASSUME May \cap {"load", "switch", "otherScan", "landDuringLoad"} = {},
         IInv, LastMine, Tallied, [Next]_vars
  PROVE  Tallied'
<1>1. ASSUME NEW t \in Tenants, SetBusinessContext(t) PROVE Tallied'
  <2>1. tenant = None /\ tenant # t
    BY <1>1 DEF SetBusinessContext
  <2>2. owner = <<>>
    BY <2>1 DEF IInv, Typed, TypedScreen, Tallied, MountedOnce
  <2>3. /\ Begin("load") /\ tenant' \in Tenants /\ session' = None /\ rows' = NoRows
        /\ archived' = {} /\ loaded' = FALSE
        /\ UNCHANGED <<queue, landed, others, cloudRows, cloudArchived, scans, owner, products>>
    BY <1>1, <2>1 DEF SetBusinessContext, Wiped, cloud
  <2> QED
    BY <2>2, <2>3, TallyBegins
<1>2. CASE RefreshFromCloud
  <2>1. /\ Begin("refresh") /\ tenant' \in Tenants
        /\ UNCHANGED <<tenant, session, rows, archived, loaded>>
        /\ UNCHANGED <<queue, landed, others, cloudRows, cloudArchived, scans, owner, products>>
    BY <1>2 DEF RefreshFromCloud, IInv, Typed, TypedScreen, view, cloud
  <2> QED
    BY <2>1, TallyBegins
<1>3. CASE NewSession
  BY <1>3, TallySession
<1>4. ASSUME NEW p \in Products, Scan(p) \/ Delete(p) PROVE Tallied'
  BY <1>4, TallyScan, TallyDelete
<1>5. ASSUME NEW i \in queue, Send(i) \/ Dequeue(i) PROVE Tallied'
  BY <1>5, TallySend, TallyDequeue
<1>6. ASSUME NEW s \in Sessions, OtherScan(s) PROVE Tallied'
  BY <1>6 DEF OtherScan
<1>7. ASSUME NEW i \in others, OtherLands(i) PROVE Tallied'
  BY <1>7 DEF Tallied, OwnItems
<1>8. ASSUME NEW l \in DOMAIN loads,
             ReadRows(l) \/ ReadFeed(l) \/ FailRead(l) \/ Superseded(l) \/ Merge(l)
      PROVE  Tallied'
  BY <1>8, TallyLoads
<1>9. CASE UNCHANGED vars
  <2>1. MountedOnce' /\ ReadsNow'
    BY <1>9 DEF vars, Tallied, MountedOnce, ReadsNow, Reading, Last
  <2>2. /\ UNCHANGED <<tenant, session, rows, archived, queue, others, scans, owner, products>>
        /\ UNCHANGED <<cloudRows, cloudArchived, loads>> /\ Unsent' = Unsent
    BY <1>9 DEF vars, Unsent
  <2>3. \A l \in DOMAIN loads' : loads'[l].archived \subseteq archived
    BY <2>2 DEF Tallied, NewestOnly
  <2> QED
    BY <2>1, <2>2, <2>3, TallyKept
<1> QED
  BY <1>1, <1>2, <1>3, <1>4, <1>5, <1>6, <1>7, <1>8, <1>9 DEF Next

LEMMA TallyCounts == ASSUME IInv, Tallied PROVE CountsAreScans
<1>1. ASSUME NEW s \in Sessions
      PROVE  Total(Shown, s) = IF Top(s) \in DOMAIN rows THEN Posted(Top(s)) ELSE 0
  <2>1. DOMAIN Shown = DOMAIN rows /\ \A c \in DOMAIN rows : Shown[c] = rows[c].qty
    BY DEF Shown
  <2>2. PICK k : k = Top(s) /\ k[1] = s
    <3>1. Top(s)[1] = s
      BY DEF Top
    <3> QED
      BY <3>1
  <2>3. {c \in DOMAIN Shown : c[1] = s} \subseteq {k}
    BY <2>1, <2>2, NewestType DEF Tallied
  <2>4. \A c \in DOMAIN Shown : Shown[c] \in Int
    BY <2>1, QtyType
  <2>5. Total(Shown, s) = IF k \in DOMAIN Shown /\ k[1] = s THEN Shown[k] ELSE 0
    BY <2>3, <2>4, TotalOfOne
  <2>6. k \in DOMAIN rows => rows[k].qty = Posted(k)
    BY DEF Tallied, RowsPosted
  <2> QED
    BY <2>1, <2>2, <2>5, <2>6
<1>2. ASSUME NEW s \in Sessions PROVE Total(Shown, s) <= Cardinality(ScansOf(s))
  <2>1. Posted(Top(s)) <= Cardinality(ScansOf(s)) /\ Cardinality(ScansOf(s)) \in Nat
    BY ArrivedFinite DEF Tallied, RowsPosted
  <2> QED
    BY <1>1, <2>1
<1>3. ASSUME session # None PROVE Total(Shown, session) = Cardinality(ScansOf(session))
  <2>1. session \in Sessions
    BY <1>3 DEF IInv, Typed, TypedScreen
  <2>2. CASE Top(session) \in DOMAIN rows
    BY <1>1, <1>3, <2>1, <2>2 DEF Tallied, RowsPosted
  <2>3. CASE Top(session) \notin DOMAIN rows
    <3>1. Cardinality(ScansOf(session)) = 0
      BY <1>3, <2>3, FS_EmptySet DEF Tallied, RowsPosted
    <3> QED
      BY <1>1, <2>1, <2>3, <3>1
  <2> QED
    BY <2>2, <2>3
<1>4. \A s \in 1..Len(owner) : s \in Sessions
  BY Bounds DEF Sessions, IInv, Typed, TypedHistory
<1> QED
  BY <1>2, <1>3, <1>4 DEF CountsAreScans

\* Of a device alone, with deletes, further sessions and refreshes at any moment:
\* the counts of the session on screen are its scans, those of a session read back
\* are never more.  A delete moves each quantity to the product that takes the
\* place of the old one, and no refresh brings the old one back beside it.  Each of
\* the four hypotheses is needed (TLC has the counterexample without it).
THEOREM CountsAreTheScans ==
  May \cap {"load", "switch", "otherScan", "landDuringLoad"} = {} => (Spec => []CountsAreScans)
<1> SUFFICES ASSUME May \cap {"load", "switch", "otherScan", "landDuringLoad"} = {}
             PROVE  Spec => []CountsAreScans
  OBVIOUS
<1> DEFINE J == IInv /\ LastMine /\ Tallied
           A == May \cap {"load", "switch", "otherScan", "landDuringLoad"} = {}
<1>1. Init => J
  BY InitInv, TalliedInit DEF Init, LastMine
<1>2. A /\ J /\ [Next]_vars => J'
  BY NextInv, LastMineStep, TallyStep
<1>3. J => CountsAreScans
  BY TallyCounts
<1>4. A
  OBVIOUS
<1> HIDE DEF J, A
<1> QED
  BY <1>1, <1>2, <1>3, <1>4, PTL DEF Spec
=============================================================================
