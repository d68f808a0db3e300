------------------------ MODULE ReviewLifecycleProofs ------------------------
(***************************************************************************)
(* What ReviewLifecycle promises, for any codes, any catalogue and any     *)
(* number of scans and decisions.  Every definition of the model that      *)
(* changes the store is a function of the store before, and so are the     *)
(* lemmas: a sound store is taken to a sound store.                        *)
(***************************************************************************)
EXTENDS ReviewLifecycle, TLAPS, FiniteSetTheorems, SequenceTheorems, WellFoundedInduction

-----------------------------------------------------------------------------
(* Stores *)

Refs(s) ==
  /\ \A a \in s.aliases : a.product \in DOMAIN s.products
  /\ \A e \in DOMAIN s.feed : s.feed[e].product \in {None} \cup DOMAIN s.products
  /\ \A c \in Codes : s.reviews[c].provisional \in {None} \cup DOMAIN s.products

Well(s) == s \in Store /\ Refs(s)

\* The products something has been linked to.
Named(s) == {a.product : a \in s.aliases}

LEMMA SeqFacts ==
  ASSUME NEW S, NEW q \in Seq(S)
  PROVE  /\ Len(q) \in Nat /\ DOMAIN q = 1..Len(q) /\ q \in [DOMAIN q -> S]
         /\ \A i \in DOMAIN q : q[i] \in S /\ i \in Nat
  BY LenProperties

LEMMA SeqChanged ==
  ASSUME NEW S, NEW q \in Seq(S), NEW f \in [DOMAIN q -> S]
  PROVE  f \in Seq(S) /\ DOMAIN f = DOMAIN q /\ Len(f) = Len(q)
<1>1. DOMAIN q = 1..Len(q) /\ Len(q) \in Nat
  BY LenProperties
<1>2. f \in [1..Len(q) -> S]
  BY <1>1
<1>3. f \in Seq(S)
  BY <1>1, <1>2, SeqDef
<1>4. DOMAIN f = 1..Len(q)
  BY <1>2
<1>5. DOMAIN f = 1..Len(f) /\ Len(f) \in Nat
  BY <1>3, LenProperties
<1>6. Len(f) = Len(q)
  BY <1>1, <1>4, <1>5
<1> QED
  BY <1>1, <1>3, <1>4, <1>6

LEMMA SeqGrown ==
  ASSUME NEW S, NEW q \in Seq(S), NEW x \in S
  PROVE  /\ Append(q, x) \in Seq(S) /\ Len(Append(q, x)) = Len(q) + 1
         /\ DOMAIN Append(q, x) = DOMAIN q \cup {Len(q) + 1}
         /\ Len(q) + 1 \notin DOMAIN q
         /\ Append(q, x)[Len(q) + 1] = x
         /\ \A i \in DOMAIN q : Append(q, x)[i] = q[i]
<1>1. /\ Append(q, x) \in Seq(S) /\ Len(Append(q, x)) = Len(q) + 1
      /\ \A i \in 1..Len(q) : Append(q, x)[i] = q[i]
      /\ Append(q, x)[Len(q) + 1] = x
  BY AppendProperties
<1>2. Len(q) \in Nat /\ DOMAIN q = 1..Len(q) /\ DOMAIN Append(q, x) = 1..Len(Append(q, x))
  BY <1>1, LenProperties
<1> QED
  BY <1>1, <1>2

LEMMA StoreFields ==
  ASSUME NEW s \in Store
  PROVE  /\ s.products \in Seq(Product) /\ s.feed \in Seq(FeedRow)
         /\ s.aliases \in SUBSET Alias /\ s.reviews \in [Codes -> Review]
         /\ Len(s.products) \in Nat /\ DOMAIN s.products = 1..Len(s.products)
         /\ Len(s.feed) \in Nat /\ DOMAIN s.feed = 1..Len(s.feed)
         /\ \A p \in DOMAIN s.products : s.products[p] \in Product /\ p \in Nat
         /\ \A e \in DOMAIN s.feed : s.feed[e] \in FeedRow /\ e \in Nat
         /\ \A c \in Codes : s.reviews[c] \in Review
<1>1. /\ s.products \in Seq(Product) /\ s.feed \in Seq(FeedRow)
      /\ s.aliases \in SUBSET Alias /\ s.reviews \in [Codes -> Review]
  BY DEF Store
<1> HIDE DEF Store
<1> QED
  BY <1>1, SeqFacts

\* The four ways to change a store.
LEMMA NewProducts ==
  ASSUME NEW s \in Store, NEW q \in Seq(Product), NEW t, t = [s EXCEPT !.products = q]
  PROVE  t \in Store /\ t.products = q /\ t.aliases = s.aliases /\ t.feed = s.feed
         /\ t.reviews = s.reviews
  BY DEF Store

LEMMA NewAliases ==
  ASSUME NEW s \in Store, NEW A \in SUBSET Alias, NEW t, t = [s EXCEPT !.aliases = A]
  PROVE  t \in Store /\ t.aliases = A /\ t.products = s.products /\ t.feed = s.feed
         /\ t.reviews = s.reviews
  BY DEF Store

LEMMA NewFeed ==
  ASSUME NEW s \in Store, NEW q \in Seq(FeedRow), NEW t, t = [s EXCEPT !.feed = q]
  PROVE  t \in Store /\ t.feed = q /\ t.products = s.products /\ t.aliases = s.aliases
         /\ t.reviews = s.reviews
  BY DEF Store

LEMMA NewReviews ==
  ASSUME NEW s \in Store, NEW r \in [Codes -> Review], NEW t, t = [s EXCEPT !.reviews = r]
  PROVE  t \in Store /\ t.reviews = r /\ t.products = s.products /\ t.aliases = s.aliases
         /\ t.feed = s.feed
  BY DEF Store

-----------------------------------------------------------------------------
(* The least and the largest of a set of numbers *)

LEMMA MinOfSet ==
  ASSUME NEW S \in SUBSET Nat, S # {}
  PROVE  Min(S) \in S
<1> DEFINE R == OpToRel(<, Nat)
<1>1. PICK x \in S : \A y \in S : ~(<<y, x>> \in R)
  <2>1. IsWellFoundedOn(R, Nat)
    BY NatLessThanWellFounded
  <2> HIDE DEF R
  <2> QED
    BY <2>1, WFMin
<1>2. ASSUME NEW y \in S PROVE x <= y
  <2>1. y \in Nat /\ x \in Nat
    OBVIOUS
  <2>2. ~(y < x)
    BY <1>1, <2>1 DEF OpToRel
  <2> QED
    BY <2>1, <2>2
<1> QED
  BY <1>2 DEF Min

LEMMA MaxOfSet ==
  ASSUME NEW n \in Nat, NEW S \in SUBSET (1..n), S # {}
  PROVE  Max(S) \in S
<1> DEFINE T == {n - s : s \in S}
           R == OpToRel(<, Nat)
<1>1. T \subseteq Nat /\ T # {}
  <2>1. \A s \in S : n - s \in Nat
    OBVIOUS
  <2> QED
    BY <2>1
<1>2. PICK x \in T : \A y \in T : ~(<<y, x>> \in R)
  <2>1. IsWellFoundedOn(R, Nat)
    BY NatLessThanWellFounded
  <2> HIDE DEF T, R
  <2> QED
    BY <1>1, <2>1, WFMin
<1>3. PICK m \in S : x = n - m
  BY <1>2
<1>4. ASSUME NEW y \in S PROVE m >= y
  <2>1. n - y \in T /\ n - y \in Nat /\ x \in Nat
    BY <1>1
  <2>2. ~(n - y < x)
    BY <1>2, <2>1 DEF OpToRel
  <2> QED
    BY <1>3, <2>2
<1> QED
  BY <1>4 DEF Max

LEMMA FirstOf ==
  ASSUME NEW s \in Store, NEW P \in SUBSET DOMAIN s.products
  PROVE  First(P) \in P \cup {None} /\ (P # {} => First(P) \in P) /\ (P = {} => First(P) = None)
         /\ (First(P) = None <=> P = {})
<1>1. P \in SUBSET Nat /\ None \notin Nat
  BY StoreFields, CatalogueAssumption
<1>2. P # {} => Min(P) \in P
  BY <1>1, MinOfSet
<1> QED
  BY <1>1, <1>2 DEF First

-----------------------------------------------------------------------------
(* A product is recounted or renamed, a row restated *)

Recounted(y, n, E) == [y EXCEPT !.qty = n, !.events = E]
Restated(y, p, u) == [y EXCEPT !.product = p, !.status = u]

LEMMA RecountedIs ==
  ASSUME NEW y \in Product, NEW n \in Nat, NEW E \in SUBSET Nat
  PROVE  LET x == Recounted(y, n, E)
         IN /\ x \in Product /\ x.qty = n /\ x.events = E
            /\ x.codes = y.codes /\ x.primary = y.primary /\ x.provisional = y.provisional
            /\ x.verified = y.verified /\ x.gone = y.gone /\ x.name = y.name
  BY DEF Product, Recounted

\* A product counts more, and a row is restated, each by two assignments.
Grown(s, p, n, E) == [s EXCEPT !.products[p].qty = @ + n, !.products[p].events = @ \cup E]
RowRestated(s, e, p, u) == [s EXCEPT !.feed[e].product = p, !.feed[e].status = u]

LEMMA RowRestatedIs ==
  ASSUME NEW s \in Store, NEW e, NEW p, NEW u
  PROVE  RowRestated(s, e, p, u) =
         [s EXCEPT !.feed = [s.feed EXCEPT ![e] = Restated(s.feed[e], p, u)]]
  BY DEF RowRestated, Restated, Store

LEMMA RestatedIs ==
  ASSUME NEW y \in FeedRow, NEW p \in Nat \cup {None},
         NEW u \in {"known", "needs_review", "conflict", "resolved"}
  PROVE  LET x == Restated(y, p, u)
         IN x \in FeedRow /\ x.product = p /\ x.status = u /\ x.code = y.code
            /\ x.decoding = y.decoding
  BY DEF FeedRow, Restated

LEMMA SameRow ==
  ASSUME NEW x \in FeedRow, NEW y \in FeedRow, x.product = y.product, x.status = y.status,
         x.code = y.code, x.decoding = y.decoding
  PROVE  x = y
BY DEF FeedRow

-----------------------------------------------------------------------------
(* One part of a store changes *)

OnlyProducts(s, t) ==
  /\ t \in Store /\ DOMAIN t.products = DOMAIN s.products /\ Len(t.products) = Len(s.products)
  /\ t.aliases = s.aliases /\ t.feed = s.feed /\ t.reviews = s.reviews
OnlyFeed(s, t) ==
  /\ t \in Store /\ DOMAIN t.feed = DOMAIN s.feed /\ Len(t.feed) = Len(s.feed)
  /\ t.products = s.products /\ t.aliases = s.aliases /\ t.reviews = s.reviews
OnlyReviews(s, t) ==
  t \in Store /\ t.products = s.products /\ t.aliases = s.aliases /\ t.feed = s.feed
OnlyAliases(s, t) ==
  t \in Store /\ t.products = s.products /\ t.feed = s.feed /\ t.reviews = s.reviews

LEMMA ProductsMapped ==
  ASSUME NEW s \in Store, NEW P \in [DOMAIN s.products -> Product],
         NEW t, t = [s EXCEPT !.products = P]
  PROVE  OnlyProducts(s, t) /\ t.products = P
<1>1. s.products \in Seq(Product)
  BY StoreFields
<1>2. P \in Seq(Product) /\ DOMAIN P = DOMAIN s.products /\ Len(P) = Len(s.products)
  BY <1>1, SeqChanged
<1> QED
  BY <1>2, NewProducts DEF OnlyProducts

ProductPut(s, t, p, x) ==
  /\ OnlyProducts(s, t) /\ t.products[p] = x
  /\ \A q \in DOMAIN s.products \ {p} : t.products[q] = s.products[q]
ReviewPut(s, t, c, r) ==
  /\ OnlyReviews(s, t) /\ t.reviews[c] = r
  /\ \A d \in Codes \ {c} : t.reviews[d] = s.reviews[d]

LEMMA OneProduct ==
  ASSUME NEW s \in Store, NEW p \in DOMAIN s.products, NEW x \in Product,
         NEW t, t = [s EXCEPT !.products = [s.products EXCEPT ![p] = x]]
  PROVE  ProductPut(s, t, p, x)
<1> DEFINE P == [s.products EXCEPT ![p] = x]
<1>1. s.products \in [DOMAIN s.products -> Product]
  BY StoreFields, SeqFacts
<1>2. /\ P \in [DOMAIN s.products -> Product] /\ P[p] = x
      /\ \A q \in DOMAIN s.products \ {p} : P[q] = s.products[q]
  BY <1>1
<1>3. t = [s EXCEPT !.products = P]
  OBVIOUS
<1> HIDE DEF P
<1>4. P \in [DOMAIN s.products -> Product]
  BY <1>2
<1>5. OnlyProducts(s, t) /\ t.products = P
  BY <1>3, <1>4, ProductsMapped
<1> QED
  BY <1>2, <1>5 DEF ProductPut

LEMMA FeedMapped ==
  ASSUME NEW s \in Store, NEW F \in [DOMAIN s.feed -> FeedRow],
         NEW t, t = [s EXCEPT !.feed = F]
  PROVE  OnlyFeed(s, t) /\ t.feed = F
<1>1. s.feed \in Seq(FeedRow)
  BY StoreFields
<1>2. F \in Seq(FeedRow) /\ DOMAIN F = DOMAIN s.feed /\ Len(F) = Len(s.feed)
  BY <1>1, SeqChanged
<1> QED
  BY <1>2, NewFeed DEF OnlyFeed

LEMMA ReviewsMapped ==
  ASSUME NEW s \in Store, NEW R \in [Codes -> Review], NEW t, t = [s EXCEPT !.reviews = R]
  PROVE  OnlyReviews(s, t) /\ t.reviews = R
BY NewReviews DEF OnlyReviews

LEMMA ReviewSet ==
  ASSUME NEW s \in Store, NEW c \in Codes, NEW r \in Review,
         NEW t, t = [s EXCEPT !.reviews = [s.reviews EXCEPT ![c] = r]]
  PROVE  ReviewPut(s, t, c, r)
<1> DEFINE R == [s.reviews EXCEPT ![c] = r]
<1>1. s.reviews \in [Codes -> Review]
  BY StoreFields
<1>2. /\ R \in [Codes -> Review] /\ R[c] = r
      /\ \A d \in Codes \ {c} : R[d] = s.reviews[d]
  BY <1>1
<1>3. t = [s EXCEPT !.reviews = R]
  OBVIOUS
<1> HIDE DEF R
<1>4. R \in [Codes -> Review]
  BY <1>2
<1>5. OnlyReviews(s, t)
  BY <1>3, <1>4, ReviewsMapped
<1>6. t.reviews = R
  BY <1>3, <1>4, ReviewsMapped
<1> QED
  BY <1>2, <1>5, <1>6 DEF ReviewPut

-----------------------------------------------------------------------------
(* Units *)

\* The units of a sequence of products.
CellsOf(P) == UNION {{p} \X (1..P[p].qty) : p \in DOMAIN P}

LEMMA UnitsAre ==
  ASSUME NEW s
  PROVE  Units(s) = Cardinality(CellsOf(s.products))
BY DEF Units, UnitsOn, CellsOf

LEMMA CellsAre ==
  ASSUME NEW P, NEW x
  PROVE  x \in CellsOf(P) <=> \E p \in DOMAIN P : \E i \in 1..P[p].qty : x = <<p, i>>
BY DEF CellsOf

LEMMA CellsFinite ==
  ASSUME NEW P \in Seq(Product)
  PROVE  IsFiniteSet(CellsOf(P)) /\ Cardinality(CellsOf(P)) \in Nat
<1> DEFINE S == {{p} \X (1..P[p].qty) : p \in DOMAIN P}
           f == [p \in DOMAIN P |-> {p} \X (1..P[p].qty)]
<1>1. DOMAIN P = 1..Len(P) /\ Len(P) \in Nat /\ \A p \in DOMAIN P : P[p] \in Product
  BY SeqFacts
<1>2. IsFiniteSet(DOMAIN P)
  BY <1>1, FS_Interval
<1>3. f \in Surjection(DOMAIN P, S)
  BY DEF Surjection
<1>4. IsFiniteSet(S)
  <2> HIDE DEF S, f
  <2> QED
    BY <1>2, <1>3, FS_Surjection
<1>5. ASSUME NEW p \in DOMAIN P PROVE IsFiniteSet({p} \X (1..P[p].qty))
  <2>1. P[p].qty \in Nat
    BY <1>1 DEF Product
  <2>2. IsFiniteSet(1..P[p].qty)
    BY <2>1, FS_Interval
  <2>3. IsFiniteSet({p})
    BY FS_Singleton
  <2> QED
    BY <2>2, <2>3, FS_Product
<1>6. \A T \in S : IsFiniteSet(T)
  BY <1>5
<1>7. CellsOf(P) = UNION S
  BY DEF CellsOf
<1>8. IsFiniteSet(UNION S)
  <2> HIDE DEF S, f
  <2> QED
    BY <1>4, <1>6, FS_UNION
<1> QED
  BY <1>7, <1>8, FS_CardinalityType

\* The count of one product changes.
LEMMA CellsShift ==
  ASSUME NEW P \in Seq(Product), NEW Q \in Seq(Product), NEW p \in DOMAIN P,
         DOMAIN Q = DOMAIN P, \A q \in DOMAIN P \ {p} : Q[q].qty = P[q].qty
  PROVE  Cardinality(CellsOf(Q)) = Cardinality(CellsOf(P)) - P[p].qty + Q[p].qty
<1>1. /\ P[p].qty \in Nat /\ Q[p].qty \in Nat
      /\ p \in DOMAIN Q
  <2>1. P[p] \in Product /\ Q[p] \in Product
    BY SeqFacts
  <2> QED
    BY <2>1 DEF Product
<1> DEFINE Rest == {x \in CellsOf(P) : x[1] # p}
<1>2. IsFiniteSet(CellsOf(P)) /\ IsFiniteSet(CellsOf(Q))
  BY CellsFinite
<1>3. Rest \in SUBSET CellsOf(P)
  OBVIOUS
<1>4. IsFiniteSet(Rest)
  <2> HIDE DEF Rest
  <2> QED
    BY <1>2, <1>3, FS_Subset
<1>5. ASSUME NEW n \in Nat
      PROVE  IsFiniteSet({p} \X (1..n)) /\ Cardinality({p} \X (1..n)) = n
  <2>1. IsFiniteSet(1..n) /\ Cardinality(1..n) = n
    <3>1. 1 \in Int /\ n \in Int
      OBVIOUS
    <3>2. IsFiniteSet(1..n) /\ Cardinality(1..n) = IF 1 > n THEN 0 ELSE n - 1 + 1
      BY <3>1, FS_Interval
    <3> QED
      BY <3>2
  <2>2. IsFiniteSet({p}) /\ Cardinality({p}) = 1
    BY FS_Singleton
  <2>3. IsFiniteSet({p} \X (1..n)) /\ Cardinality({p} \X (1..n)) = 1 * n
    <3>1. PICK A, B : A = {p} /\ B = 1..n
      OBVIOUS
    <3>2. IsFiniteSet(A \X B) /\ Cardinality(A \X B) = Cardinality(A) * Cardinality(B)
      BY <2>1, <2>2, <3>1, FS_Product
    <3> QED
      BY <2>1, <2>2, <3>1, <3>2
  <2> QED
    BY <2>3
<1>6. ASSUME NEW n \in Nat PROVE Rest \cap ({p} \X (1..n)) = {}
  OBVIOUS
<1>7. CellsOf(P) = Rest \cup ({p} \X (1..P[p].qty))
  <2>1. \A x \in CellsOf(P) : x[1] = p => x \in {p} \X (1..P[p].qty)
    BY CellsAre
  <2>2. \A x \in {p} \X (1..P[p].qty) : x \in CellsOf(P)
    BY CellsAre
  <2> QED
    BY <2>1, <2>2
<1>8. CellsOf(Q) = Rest \cup ({p} \X (1..Q[p].qty))
  <2>1. \A x \in CellsOf(Q) : x[1] = p => x \in {p} \X (1..Q[p].qty)
    BY CellsAre
  <2>2. \A x \in {p} \X (1..Q[p].qty) : x \in CellsOf(Q)
    BY <1>1, CellsAre
  <2>3. \A x \in CellsOf(Q) : x[1] # p => x \in Rest
    BY CellsAre
  <2>4. \A x \in Rest : x \in CellsOf(Q)
    BY CellsAre
  <2> QED
    BY <2>1, <2>2, <2>3, <2>4
<1>9. ASSUME NEW n \in Nat
      PROVE  Cardinality(Rest \cup ({p} \X (1..n))) = Cardinality(Rest) + n
  <2>1. PICK T : T = {p} \X (1..n)
    OBVIOUS
  <2>2. IsFiniteSet(T) /\ Cardinality(T) = n /\ Rest \cap T = {}
    BY <1>5, <1>6, <2>1
  <2>3. Cardinality(Rest \cup T) = Cardinality(Rest) + Cardinality(T) - Cardinality(Rest \cap T)
    <3> HIDE DEF Rest
    <3> QED
      BY <1>4, <2>2, FS_Union
  <2>4. Cardinality(Rest \cap T) = 0 /\ Cardinality(Rest) \in Nat
    <3> HIDE DEF Rest
    <3> QED
      BY <1>4, <2>2, FS_EmptySet, FS_CardinalityType
  <2> HIDE DEF Rest
  <2> QED
    BY <2>1, <2>2, <2>3, <2>4
<1>10. Cardinality(Rest) \in Nat
  <2> HIDE DEF Rest
  <2> QED
    BY <1>4, FS_CardinalityType
<1> HIDE DEF Rest
<1>11. Cardinality(CellsOf(P)) = Cardinality(Rest) + P[p].qty
  BY <1>1, <1>7, <1>9
<1>12. Cardinality(CellsOf(Q)) = Cardinality(Rest) + Q[p].qty
  BY <1>1, <1>8, <1>9
<1> QED
  BY <1>1, <1>10, <1>11, <1>12

LEMMA CellsSame ==
  ASSUME NEW P \in Seq(Product), NEW Q \in Seq(Product), DOMAIN Q = DOMAIN P,
         \A q \in DOMAIN P : Q[q].qty = P[q].qty
  PROVE  CellsOf(Q) = CellsOf(P)
BY DEF CellsOf

\* All the units of one product go to another.
LEMMA CellsMoved ==
  ASSUME NEW P \in Seq(Product), NEW Q \in Seq(Product), NEW o \in DOMAIN P, NEW t \in DOMAIN P,
         o # t, DOMAIN Q = DOMAIN P, Q[o].qty = 0, Q[t].qty = P[t].qty + P[o].qty,
         \A q \in DOMAIN P \ {o, t} : Q[q].qty = P[q].qty
  PROVE  Cardinality(CellsOf(Q)) = Cardinality(CellsOf(P))
<1>1. P[o] \in Product /\ P[t] \in Product /\ P \in [DOMAIN P -> Product]
  BY SeqFacts
<1>2. PICK a, b \in Nat : a = P[t].qty /\ b = P[o].qty
  BY <1>1 DEF Product
<1>3. PICK x \in Product : x.qty = a + b
  <2>1. a + b \in Nat /\ {} \in SUBSET Nat
    OBVIOUS
  <2>2. PICK n \in Nat : n = a + b
    BY <2>1
  <2>3. Recounted(P[t], n, {}) \in Product /\ Recounted(P[t], n, {}).qty = n
    BY <1>1, <2>1, RecountedIs
  <2> QED
    BY <2>2, <2>3
<1>4. PICK M : M = [P EXCEPT ![t] = x]
  OBVIOUS
<1>5. /\ M \in [DOMAIN P -> Product] /\ M[t] = x
      /\ \A q \in DOMAIN P \ {t} : M[q] = P[q]
  BY <1>1, <1>3, <1>4
<1>6. M \in Seq(Product) /\ DOMAIN M = DOMAIN P
  BY <1>5, SeqChanged
<1>7. Cardinality(CellsOf(M)) = Cardinality(CellsOf(P)) - P[t].qty + M[t].qty
  BY <1>5, <1>6, CellsShift
<1>8. Cardinality(CellsOf(Q)) = Cardinality(CellsOf(M)) - M[o].qty + Q[o].qty
  <2>1. \A q \in DOMAIN M \ {o} : Q[q].qty = M[q].qty
    BY <1>2, <1>3, <1>5, <1>6
  <2> QED
    BY <1>6, <2>1, CellsShift
<1>9. M[t].qty = a + b /\ M[o].qty = b
  BY <1>2, <1>3, <1>5
<1>10. Cardinality(CellsOf(P)) \in Nat
  BY CellsFinite
<1>11. PICK u, v, w : /\ u = Cardinality(CellsOf(P)) /\ v = Cardinality(CellsOf(M))
                     /\ w = Cardinality(CellsOf(Q))
  OBVIOUS
<1>12. u \in Nat /\ v = u - a + (a + b) /\ w = v - b + 0
  BY <1>2, <1>7, <1>8, <1>9, <1>10, <1>11
<1> QED
  BY <1>11, <1>12

LEMMA CellsMinted ==
  ASSUME NEW P \in Seq(Product), NEW x \in Product, x.qty = 0
  PROVE  CellsOf(Append(P, x)) = CellsOf(P)
<1> DEFINE Q == Append(P, x)
<1>1. /\ DOMAIN Q = DOMAIN P \cup {Len(P) + 1} /\ Q[Len(P) + 1] = x
      /\ \A i \in DOMAIN P : Q[i] = P[i]
  BY SeqGrown
<1> HIDE DEF Q
<1>2. ASSUME NEW y \in CellsOf(Q) PROVE y \in CellsOf(P)
  <2>1. PICK p \in DOMAIN Q : \E i \in 1..Q[p].qty : y = <<p, i>>
    BY CellsAre
  <2>2. PICK i \in 1..Q[p].qty : y = <<p, i>>
    BY <2>1
  <2>3. p # Len(P) + 1
    BY <1>1
  <2> QED
    BY <1>1, <2>2, <2>3, CellsAre
<1>3. ASSUME NEW y \in CellsOf(P) PROVE y \in CellsOf(Q)
  <2>1. PICK p \in DOMAIN P : \E i \in 1..P[p].qty : y = <<p, i>>
    BY CellsAre
  <2> QED
    BY <1>1, <2>1, CellsAre
<1> QED
  BY <1>2, <1>3 DEF Q

-----------------------------------------------------------------------------
(* A sound store *)

\* What is on the books are rows of the feed, each for a unit of its own.
Booked(s) ==
  \A p \in DOMAIN s.products :
    /\ s.products[p].events \subseteq DOMAIN s.feed
    /\ Cardinality(s.products[p].events) <= s.products[p].qty

\* KnownIsCounted.
OnBooks(s) ==
  \A e \in DOMAIN s.feed : s.feed[e].status = "known" =>
    s.feed[e].product # None /\ e \in s.products[s.feed[e].product].events

\* L: the products something has been linked to, or is about to be.
Coded(s, L) ==
  \A p \in DOMAIN s.products :
    /\ s.products[p].primary \in s.products[p].codes
    /\ s.products[p].verified => ~s.products[p].provisional
    /\ s.products[p].gone => s.products[p].qty = 0 \/ p \in L

\* A placeholder nothing was linked to.
Floating(s, L, p) == s.products[p].provisional /\ p \notin L

\* Of the floating placeholders of a code one has units.
Apart(s, L) ==
  \A p, q \in DOMAIN s.products :
    /\ Floating(s, L, p) /\ Floating(s, L, q) /\ s.products[p].primary = s.products[q].primary
    /\ s.products[p].qty > 0 /\ s.products[q].qty > 0
    => p = q

\* N: the products an answer has renamed.
Identity(s, N) ==
  \A p \in DOMAIN s.products :
    s.products[p].verified => s.products[p].name \in {"human", "backed"} \/ p \in N

Good(s, L, N) ==
  Well(s) /\ Booked(s) /\ OnBooks(s) /\ Coded(s, L) /\ Apart(s, L) /\ Identity(s, N)

\* Rows nobody has decided or counted.
OpenRows(s) == {e \in DOMAIN s.feed : s.feed[e].status = "needs_review"}

\* Units, and units to come.
Weight(s) == Units(s) + Cardinality(OpenRows(s))

\* Counting on p keeps the placeholders apart.
Room(s, L, p) ==
  \/ p \in L
  \/ /\ ~s.products[p].gone
     /\ s.products[p].provisional =>
          \A q \in DOMAIN s.products \ {p} :
            Floating(s, L, q) /\ s.products[q].primary = s.products[p].primary
            => s.products[q].qty = 0

LEMMA RowsFinite ==
  ASSUME NEW s \in Store
  PROVE  /\ IsFiniteSet(DOMAIN s.feed)
         /\ \A E \in SUBSET DOMAIN s.feed : IsFiniteSet(E) /\ Cardinality(E) \in Nat
         /\ IsFiniteSet(OpenRows(s)) /\ Cardinality(OpenRows(s)) \in Nat
         /\ Units(s) \in Nat /\ Weight(s) \in Nat
<1>1. DOMAIN s.feed = 1..Len(s.feed) /\ Len(s.feed) \in Nat /\ s.products \in Seq(Product)
  BY StoreFields
<1>2. IsFiniteSet(DOMAIN s.feed)
  BY <1>1, FS_Interval
<1>3. ASSUME NEW E \in SUBSET DOMAIN s.feed PROVE IsFiniteSet(E) /\ Cardinality(E) \in Nat
  BY <1>2, FS_Subset, FS_CardinalityType
<1>4. OpenRows(s) \in SUBSET DOMAIN s.feed
  BY DEF OpenRows
<1>5. Units(s) \in Nat
  BY <1>1, CellsFinite, UnitsAre
<1>6. IsFiniteSet(OpenRows(s)) /\ Cardinality(OpenRows(s)) \in Nat
  BY <1>3, <1>4
<1> QED
  BY <1>2, <1>3, <1>5, <1>6 DEF Weight

LEMMA GoodWiden ==
  ASSUME NEW s, NEW L, NEW N, Good(s, L, N), NEW M, L \subseteq M, NEW K, N \subseteq K
  PROVE  Good(s, M, K)
<1>1. Coded(s, M)
  BY DEF Good, Coded
<1>2. Apart(s, M)
  <2>1. \A p : Floating(s, M, p) => Floating(s, L, p)
    BY DEF Floating
  <2> QED
    BY <2>1 DEF Good, Apart
<1>3. Identity(s, K)
  BY DEF Good, Identity
<1> QED
  BY <1>1, <1>2, <1>3 DEF Good

-----------------------------------------------------------------------------
(* A change of one part keeps a store sound *)

\* As many units, and no row opened.
Rests(s, t, L, N) ==
  Good(t, L, N) /\ Units(t) = Units(s) /\ OpenRows(t) \subseteq OpenRows(s)

\* Rows are rewritten: none becomes known or open that was not.
LEMMA FeedSound ==
  ASSUME NEW s, NEW L, NEW N, Good(s, L, N), NEW t, OnlyFeed(s, t),
         \A e \in DOMAIN s.feed :
           /\ t.feed[e].product \in {None} \cup DOMAIN s.products
           /\ t.feed[e].status = "known" =>
                s.feed[e].status = "known" /\ t.feed[e].product = s.feed[e].product
           /\ t.feed[e].status = "needs_review" => s.feed[e].status = "needs_review"
  PROVE  Rests(s, t, L, N)
<1>1. Well(t)
  BY DEF Good, Well, Refs, OnlyFeed
<1>2. Booked(t)
  BY DEF Good, Booked, OnlyFeed
<1>3. OnBooks(t)
  BY DEF Good, OnBooks, OnlyFeed
<1>4. Coded(t, L) /\ Apart(t, L) /\ Identity(t, N)
  BY DEF Good, Coded, Apart, Floating, Identity, OnlyFeed
<1>5. Units(t) = Units(s)
  BY UnitsAre DEF OnlyFeed
<1>6. OpenRows(t) \subseteq OpenRows(s)
  BY DEF OpenRows, OnlyFeed
<1> QED
  BY <1>1, <1>2, <1>3, <1>4, <1>5, <1>6 DEF Good, Rests

LEMMA ReviewsSound ==
  ASSUME NEW s, NEW L, NEW N, Good(s, L, N), NEW t, OnlyReviews(s, t),
         \A c \in Codes : t.reviews[c].provisional \in {None} \cup DOMAIN s.products
  PROVE  Rests(s, t, L, N)
<1>1. Well(t)
  BY DEF Good, Well, Refs, OnlyReviews
<1>2. Booked(t) /\ OnBooks(t)
  BY DEF Good, Booked, OnBooks, OnlyReviews
<1>3. Coded(t, L) /\ Apart(t, L) /\ Identity(t, N)
  BY DEF Good, Coded, Apart, Floating, Identity, OnlyReviews
<1>4. Units(t) = Units(s) /\ OpenRows(t) = OpenRows(s)
  BY UnitsAre DEF OpenRows, OnlyReviews
<1> QED
  BY <1>1, <1>2, <1>3, <1>4 DEF Good, Rests

LEMMA AliasesSound ==
  ASSUME NEW s, NEW L, NEW N, Good(s, L, N), NEW t, OnlyAliases(s, t),
         \A a \in t.aliases : a.product \in DOMAIN s.products
  PROVE  Rests(s, t, L, N)
<1>1. Well(t)
  BY DEF Good, Well, Refs, OnlyAliases
<1>2. Booked(t) /\ OnBooks(t)
  BY DEF Good, Booked, OnBooks, OnlyAliases
<1>3. Coded(t, L) /\ Apart(t, L) /\ Identity(t, N)
  BY DEF Good, Coded, Apart, Floating, Identity, OnlyAliases
<1>4. Units(t) = Units(s) /\ OpenRows(t) = OpenRows(s)
  BY UnitsAre DEF OpenRows, OnlyAliases
<1> QED
  BY <1>1, <1>2, <1>3, <1>4 DEF Good, Rests

\* What a product is, but for its count, changes.
LEMMA PersonSound ==
  ASSUME NEW s, NEW L, NEW N, Good(s, L, N), NEW t, OnlyProducts(s, t),
         NEW p \in DOMAIN s.products, NEW y, NEW x, y = s.products[p], x = t.products[p],
         \A q \in DOMAIN s.products \ {p} : t.products[q] = s.products[q],
         x.qty = y.qty, x.events = y.events, x.primary = y.primary, x.gone = y.gone,
         y.codes \subseteq x.codes,
         x.provisional => y.provisional \/ p \in L,
         x.verified => ~x.provisional,
         x.verified => x.name \in {"human", "backed"} \/ p \in N
  PROVE  Rests(s, t, L, N)
<1>1. /\ \A q \in DOMAIN s.products :
           /\ t.products[q].qty = s.products[q].qty /\ t.products[q].events = s.products[q].events
           /\ t.products[q].primary = s.products[q].primary
           /\ Floating(t, L, q) => Floating(s, L, q)
      /\ s.products \in Seq(Product) /\ t.products \in Seq(Product)
  BY StoreFields DEF Floating, OnlyProducts, Good, Well
<1>2. Well(t)
  BY DEF Good, Well, Refs, OnlyProducts
<1>3. Booked(t)
  BY <1>1 DEF Good, Booked, OnlyProducts
<1>4. OnBooks(t)
  <2>1. \A e \in DOMAIN s.feed : s.feed[e].product \in {None} \cup DOMAIN s.products
    BY DEF Good, Well, Refs
  <2> QED
    BY <1>1, <2>1 DEF Good, OnBooks, OnlyProducts
<1>5. Coded(t, L)
  BY DEF Good, Coded, OnlyProducts
<1>6. Apart(t, L)
  BY <1>1 DEF Good, Apart, OnlyProducts
<1>7. Identity(t, N)
  BY DEF Good, Identity, OnlyProducts
<1>8. Units(t) = Units(s)
  BY <1>1, UnitsAre, CellsSame DEF OnlyProducts
<1>9. OpenRows(t) = OpenRows(s)
  BY DEF OpenRows, OnlyProducts
<1> QED
  BY <1>2, <1>3, <1>4, <1>5, <1>6, <1>7, <1>8, <1>9 DEF Good, Rests

\* The rows E count on p, which grows by n.
Counts(s, t, p, E, n) ==
  /\ t \in Store /\ t.aliases = s.aliases /\ t.reviews = s.reviews
  /\ DOMAIN t.products = DOMAIN s.products /\ DOMAIN t.feed = DOMAIN s.feed
  /\ Len(t.products) = Len(s.products) /\ Len(t.feed) = Len(s.feed)
  /\ \A q \in DOMAIN s.products \ {p} : t.products[q] = s.products[q]
  /\ t.products[p] = Recounted(s.products[p], s.products[p].qty + n, s.products[p].events \cup E)
  /\ \A e \in DOMAIN s.feed \ E : t.feed[e] = s.feed[e]
  /\ \A e \in E : t.feed[e].product = p /\ t.feed[e].status = "known"

\* The rows that are new to p are no more than n.
Covers(s, p, E, n) == Cardinality(E \ s.products[p].events) <= n

LEMMA CountSound ==
  ASSUME NEW s, NEW L, NEW N, Good(s, L, N), NEW t, NEW p \in DOMAIN s.products, Room(s, L, p),
         NEW E \in SUBSET DOMAIN s.feed, NEW n \in Nat, Counts(s, t, p, E, n), Covers(s, p, E, n)
  PROVE  Good(t, L, N) /\ Units(t) = Units(s) + n /\ OpenRows(t) = OpenRows(s) \ E
<1>0. s \in Store /\ t \in Store /\ s.products \in Seq(Product) /\ t.products \in Seq(Product)
  BY StoreFields DEF Good, Well, Counts
<1>1. PICK y : y = s.products[p]
  OBVIOUS
<1>2. PICK x : x = t.products[p]
  OBVIOUS
<1>3. y \in Product /\ y.qty \in Nat /\ y.events \in SUBSET Nat /\ E \in SUBSET Nat
  <2>1. y \in Product /\ \A e \in DOMAIN s.feed : e \in Nat
    BY <1>0, <1>1, StoreFields
  <2> QED
    BY <2>1 DEF Product
<1>4. /\ x.qty = y.qty + n /\ x.events = y.events \cup E
      /\ x.codes = y.codes /\ x.primary = y.primary /\ x.provisional = y.provisional
      /\ x.verified = y.verified /\ x.gone = y.gone /\ x.name = y.name
  <2>1. x = Recounted(y, y.qty + n, y.events \cup E)
    BY <1>1, <1>2 DEF Counts
  <2>2. y.qty + n \in Nat /\ y.events \cup E \in SUBSET Nat
    BY <1>3
  <2> QED
    BY <1>3, <2>1, <2>2, RecountedIs
<1>5. /\ \A q \in DOMAIN s.products \ {p} : t.products[q] = s.products[q]
      /\ DOMAIN t.products = DOMAIN s.products /\ DOMAIN t.feed = DOMAIN s.feed
      /\ \A e \in DOMAIN s.feed \ E : t.feed[e] = s.feed[e]
      /\ \A e \in E : t.feed[e].product = p /\ t.feed[e].status = "known"
      /\ t.aliases = s.aliases /\ t.reviews = s.reviews
  BY DEF Counts
<1>6. Well(t)
  BY <1>0, <1>5 DEF Good, Well, Refs
<1>7. Booked(t)
  <2>1. y.events \subseteq DOMAIN s.feed /\ Cardinality(y.events) <= y.qty
    BY <1>1 DEF Good, Booked
  <2>2. PICK D : D = E \ y.events
    OBVIOUS
  <2>3. /\ IsFiniteSet(y.events) /\ Cardinality(y.events) \in Nat
        /\ IsFiniteSet(D) /\ Cardinality(D) \in Nat
    BY <1>0, <2>1, <2>2, RowsFinite
  <2>4. y.events \cup E = y.events \cup D /\ y.events \cap D = {}
    BY <2>2
  <2>5. Cardinality(y.events \cup D) = Cardinality(y.events) + Cardinality(D) - Cardinality({})
    BY <2>3, <2>4, FS_Union
  <2>6. Cardinality({}) = 0 /\ Cardinality(D) <= n
    BY <1>1, <2>2, FS_EmptySet DEF Covers
  <2>7. Cardinality(x.events) <= x.qty
    <3>1. x.events = y.events \cup D
      BY <1>4, <2>4
    <3>2. PICK a, b, d : /\ a = Cardinality(y.events) /\ b = Cardinality(D)
                        /\ d = Cardinality(x.events)
      OBVIOUS
    <3>3. d = a + b - 0
      BY <2>4, <2>5, <2>6, <3>1, <3>2
    <3>4. a \in Nat /\ b \in Nat /\ b <= n /\ a <= y.qty
      BY <2>1, <2>3, <2>6, <3>2
    <3> QED
      BY <1>3, <1>4, <3>2, <3>3, <3>4
  <2>8. x.events \subseteq DOMAIN t.feed
    BY <1>4, <1>5, <2>1
  <2> QED
    BY <1>2, <1>5, <2>7, <2>8 DEF Good, Booked
<1>8. OnBooks(t)
  <2> SUFFICES ASSUME NEW e \in DOMAIN s.feed, t.feed[e].status = "known"
               PROVE  t.feed[e].product # None
                      /\ e \in t.products[t.feed[e].product].events
    BY <1>5 DEF OnBooks
  <2>1. p # None
    BY <1>0, StoreFields, CatalogueAssumption
  <2>2. CASE e \in E
    BY <1>2, <1>4, <1>5, <2>1, <2>2
  <2>3. CASE e \notin E
    <3>1. t.feed[e] = s.feed[e] /\ s.feed[e].product \in {None} \cup DOMAIN s.products
      BY <1>5, <2>3 DEF Good, Well, Refs
    <3>2. s.feed[e].product # None /\ e \in s.products[s.feed[e].product].events
      BY <3>1 DEF Good, OnBooks
    <3> QED
      BY <1>1, <1>2, <1>4, <1>5, <3>1, <3>2
  <2> QED
    BY <2>2, <2>3
<1>9. \A q \in DOMAIN s.products :
        /\ t.products[q].codes = s.products[q].codes
        /\ t.products[q].primary = s.products[q].primary
        /\ t.products[q].provisional = s.products[q].provisional
        /\ t.products[q].verified = s.products[q].verified
        /\ t.products[q].gone = s.products[q].gone
        /\ t.products[q].name = s.products[q].name
  BY <1>1, <1>2, <1>4, <1>5
<1>10. Coded(t, L)
  <2>1. y.gone => p \in L
    BY <1>1 DEF Room
  <2>2. \A q \in DOMAIN s.products :
          t.products[q].gone => t.products[q].qty = 0 \/ q \in L
    BY <1>1, <1>5, <1>9, <2>1 DEF Good, Coded
  <2> QED
    BY <1>5, <1>9, <2>2 DEF Good, Coded
<1>11. Apart(t, L)
  <2> SUFFICES ASSUME NEW q \in DOMAIN s.products, NEW r \in DOMAIN s.products,
                      Floating(t, L, q), Floating(t, L, r),
                      t.products[q].primary = t.products[r].primary,
                      t.products[q].qty > 0, t.products[r].qty > 0, q # r
               PROVE  FALSE
    BY <1>5 DEF Apart
  <2>1. /\ Floating(s, L, q) /\ Floating(s, L, r)
        /\ s.products[q].primary = s.products[r].primary
    BY <1>9 DEF Floating
  <2>2. CASE q # p /\ r # p
    BY <1>5, <2>1, <2>2 DEF Good, Apart
  <2>3. CASE q = p
    <3>1. s.products[r].qty = 0
      BY <2>1, <2>3 DEF Room, Floating
    <3> QED
      BY <1>5, <2>3, <3>1
  <2>4. CASE r = p
    <3>1. s.products[q].qty = 0
      BY <2>1, <2>4 DEF Room, Floating
    <3> QED
      BY <1>5, <2>4, <3>1
  <2> QED
    BY <2>2, <2>3, <2>4
<1>12. Identity(t, N)
  BY <1>5, <1>9 DEF Good, Identity
<1>13. Units(t) = Units(s) + n
  <2>1. \A q \in DOMAIN s.products \ {p} : t.products[q].qty = s.products[q].qty
    BY <1>5
  <2>2. Cardinality(CellsOf(t.products)) =
          Cardinality(CellsOf(s.products)) - s.products[p].qty + t.products[p].qty
    BY <1>0, <1>5, <2>1, CellsShift
  <2>3. Cardinality(CellsOf(s.products)) \in Nat
    BY <1>0, CellsFinite
  <2>4. PICK u, v : u = Cardinality(CellsOf(t.products)) /\ v = Cardinality(CellsOf(s.products))
    OBVIOUS
  <2>5. u = v - y.qty + (y.qty + n) /\ v \in Nat
    BY <1>1, <1>2, <1>4, <2>2, <2>3, <2>4
  <2>6. u = v + n
    BY <1>3, <2>5
  <2> QED
    BY <2>4, <2>6, UnitsAre
<1>14. OpenRows(t) = OpenRows(s) \ E
  BY <1>5 DEF OpenRows
<1> QED
  BY <1>6, <1>7, <1>8, <1>10, <1>11, <1>12, <1>13, <1>14 DEF Good

\* A row nobody has decided joins the feed.
RowJoins(s, t, k, c) ==
  /\ Units(t) = Units(s) /\ OpenRows(t) = OpenRows(s) \cup {k} /\ k \notin OpenRows(s)
  /\ t.products = s.products /\ t.aliases = s.aliases /\ t.reviews = s.reviews
  /\ DOMAIN t.feed = DOMAIN s.feed \cup {k} /\ Len(t.feed) = k
  /\ k \notin DOMAIN s.feed /\ k \in Nat
  /\ t.feed[k].code = c /\ t.feed[k].status = "needs_review" /\ t.feed[k].product = None

LEMMA NewRowSound ==
  ASSUME NEW s, NEW L, NEW N, Good(s, L, N), NEW c \in Codes, NEW b \in BOOLEAN,
         NEW t, t = NewRow(s, c, None, "needs_review", b), NEW k, k = Len(s.feed) + 1
  PROVE  /\ Good(t, L, N) /\ RowJoins(s, t, k, c)
         /\ t.feed = Append(s.feed, [code |-> c, product |-> None, status |-> "needs_review",
                                     decoding |-> b])
<1>0. s \in Store /\ s.feed \in Seq(FeedRow) /\ Len(s.feed) \in Nat
  BY StoreFields DEF Good, Well
<1> DEFINE row == [code |-> c, product |-> None, status |-> "needs_review", decoding |-> b]
           F == Append(s.feed, row)
<1>1. row \in FeedRow /\ row.code = c /\ row.product = None /\ row.status = "needs_review"
  BY DEF FeedRow
<1>2. t = [s EXCEPT !.feed = F]
  BY <1>0 DEF NewRow, Store
<1> HIDE DEF row
<1>3. /\ F \in Seq(FeedRow) /\ Len(F) = k /\ DOMAIN F = DOMAIN s.feed \cup {k}
      /\ k \notin DOMAIN s.feed /\ F[k] = row /\ \A e \in DOMAIN s.feed : F[e] = s.feed[e]
  BY <1>0, <1>1, SeqGrown
<1> HIDE DEF F
<1>4. /\ t \in Store /\ t.feed = F /\ t.products = s.products /\ t.aliases = s.aliases
      /\ t.reviews = s.reviews
  BY <1>0, <1>2, <1>3, NewFeed
<1>5. Well(t)
  BY <1>1, <1>3, <1>4 DEF Good, Well, Refs
<1>6. Booked(t)
  BY <1>3, <1>4 DEF Good, Booked
<1>7. OnBooks(t)
  BY <1>1, <1>3, <1>4 DEF Good, OnBooks
<1>8. Coded(t, L) /\ Apart(t, L) /\ Identity(t, N)
  BY <1>4 DEF Good, Coded, Apart, Floating, Identity
<1>9. Units(t) = Units(s)
  BY <1>4, UnitsAre
<1>10. OpenRows(t) = OpenRows(s) \cup {k} /\ k \notin OpenRows(s)
  BY <1>1, <1>3, <1>4 DEF OpenRows
<1>11. t.feed[k].code = c /\ t.feed[k].status = "needs_review" /\ t.feed[k].product = None
  BY <1>1, <1>3, <1>4
<1>12. Good(t, L, N)
  BY <1>5, <1>6, <1>7, <1>8 DEF Good
<1>13. t.feed = Append(s.feed, [code |-> c, product |-> None, status |-> "needs_review",
                                decoding |-> b])
  BY <1>4 DEF F, row
<1>14. /\ DOMAIN t.feed = DOMAIN s.feed \cup {k} /\ Len(t.feed) = k
       /\ k \notin DOMAIN s.feed /\ k \in Nat
  <2>1. k \in Nat
    BY <1>0
  <2> QED
    BY <1>3, <1>4, <2>1, Zenon
<1>15. RowJoins(s, t, k, c)
  BY <1>4, <1>9, <1>10, <1>11, <1>14, Zenon DEF RowJoins
<1> QED
  BY <1>12, <1>13, <1>15

\* A product without a count joins the others.
Gains(s, t, x, h) ==
  /\ Units(t) = Units(s) /\ OpenRows(t) = OpenRows(s)
  /\ t.feed = s.feed /\ t.aliases = s.aliases /\ t.reviews = s.reviews
  /\ DOMAIN t.products = DOMAIN s.products \cup {h} /\ Len(t.products) = h
  /\ h \notin DOMAIN s.products /\ h \in Nat /\ t.products[h] = x
  /\ \A p \in DOMAIN s.products : t.products[p] = s.products[p]

LEMMA MintSound ==
  ASSUME NEW s, NEW L, NEW N, Good(s, L, N), NEW x \in Product,
         x.qty = 0, x.events = {}, x.primary \in x.codes, ~x.verified, ~x.gone,
         NEW t, t = Mint(s, x), NEW h, h = Len(s.products) + 1
  PROVE  /\ Good(t, L, N) /\ Gains(s, t, x, h)
         /\ Carriers(s, x.primary) = {} => Room(t, L, h)
<1>0. s \in Store /\ s.products \in Seq(Product) /\ Len(s.products) \in Nat
      /\ \A p \in DOMAIN s.products : s.products[p] \in Product
  BY StoreFields DEF Good, Well
<1> DEFINE P == Append(s.products, x)
<1>1. t = [s EXCEPT !.products = P]
  BY <1>0 DEF Mint, Store
<1>2. /\ P \in Seq(Product) /\ Len(P) = h /\ DOMAIN P = DOMAIN s.products \cup {h}
      /\ h \notin DOMAIN s.products /\ P[h] = x /\ \A p \in DOMAIN s.products : P[p] = s.products[p]
  BY <1>0, SeqGrown
<1>3. CellsOf(P) = CellsOf(s.products)
  BY <1>0, CellsMinted
<1> HIDE DEF P
<1>4. /\ t \in Store /\ t.products = P /\ t.feed = s.feed /\ t.aliases = s.aliases
      /\ t.reviews = s.reviews
  BY <1>0, <1>1, <1>2, NewProducts
<1>5. Well(t)
  BY <1>2, <1>4 DEF Good, Well, Refs
<1>6. Booked(t)
  <2> SUFFICES ASSUME NEW p \in DOMAIN t.products
               PROVE  /\ t.products[p].events \subseteq DOMAIN t.feed
                      /\ Cardinality(t.products[p].events) <= t.products[p].qty
    BY DEF Booked
  <2>1. CASE p = h
    <3>1. IsFiniteSet(x.events)
      BY FS_EmptySet
    <3>2. Cardinality(x.events) = 0
      BY <3>1, FS_EmptySet
    <3>3. t.products[p] = x /\ x.events \subseteq DOMAIN t.feed
      BY <1>2, <1>4, <2>1
    <3>4. Cardinality(t.products[p].events) = 0
      BY <3>2, <3>3, Zenon
    <3>5. t.products[p].qty = 0
      BY <3>3
    <3>6. t.products[p].events \subseteq DOMAIN t.feed
      BY <3>3
    <3> QED
      BY <3>4, <3>5, <3>6
  <2>2. CASE p \in DOMAIN s.products
    BY <1>2, <1>4, <2>2 DEF Good, Booked
  <2> QED
    BY <1>2, <1>4, <2>1, <2>2
<1>7. OnBooks(t)
  <2>1. \A e \in DOMAIN s.feed : s.feed[e].product \in {None} \cup DOMAIN s.products
    BY DEF Good, Well, Refs
  <2> QED
    BY <1>2, <1>4, <2>1 DEF Good, OnBooks
<1>8. Coded(t, L)
  BY <1>2, <1>4 DEF Good, Coded
<1>9. Apart(t, L)
  <2>1. \A p \in DOMAIN s.products : Floating(t, L, p) <=> Floating(s, L, p)
    BY <1>2, <1>4 DEF Floating
  <2>2. \A p \in DOMAIN t.products : t.products[p].qty > 0 => p # h
    BY <1>2, <1>4
  <2> QED
    BY <1>2, <1>4, <2>1, <2>2 DEF Good, Apart
<1>10. Identity(t, N)
  BY <1>2, <1>4 DEF Good, Identity
<1>11. Units(t) = Units(s) /\ OpenRows(t) = OpenRows(s)
  BY <1>3, <1>4, UnitsAre DEF OpenRows
<1>12. ASSUME Carriers(s, x.primary) = {} PROVE Room(t, L, h)
  <2> SUFFICES ASSUME NEW q \in DOMAIN s.products, Floating(t, L, q),
                      t.products[q].primary = x.primary
               PROVE  t.products[q].qty = 0
    BY <1>2, <1>4 DEF Room
  <2>1. s.products[q].primary \in s.products[q].codes /\ (s.products[q].gone => s.products[q].qty = 0)
    BY <1>2, <1>4 DEF Good, Coded, Floating
  <2>2. s.products[q].qty \in Nat
    BY <1>0 DEF Product
  <2>3. q \notin Carriers(s, x.primary)
    BY <1>12
  <2>4. ~s.products[q].gone => ~(s.products[q].qty > 0)
    BY <1>2, <1>4, <2>1, <2>3 DEF Carriers, Counted, Live
  <2> QED
    BY <1>2, <1>4, <2>1, <2>2, <2>4
<1>13. Good(t, L, N)
  BY <1>5, <1>6, <1>7, <1>8, <1>9, <1>10 DEF Good
<1>14. h \in Nat
  BY <1>0
<1>15. Gains(s, t, x, h)
  BY <1>2, <1>4, <1>11, <1>14, Zenon DEF Gains
<1> QED
  BY <1>12, <1>13, <1>15

Emptied(y) == [y EXCEPT !.gone = TRUE, !.qty = 0, !.events = {}]

LEMMA EmptiedIs ==
  ASSUME NEW y \in Product
  PROVE  LET x == Emptied(y)
         IN /\ x \in Product /\ x.qty = 0 /\ x.events = {} /\ x.gone = TRUE
            /\ x.codes = y.codes /\ x.primary = y.primary /\ x.provisional = y.provisional
            /\ x.verified = y.verified /\ x.name = y.name
  BY DEF Product, Emptied

\* A row moves to another product.
Shifted(y, p) == [y EXCEPT !.product = p]

LEMMA RowMoved ==
  ASSUME NEW y \in FeedRow, NEW p \in Nat \cup {None}
  PROVE  LET x == Shifted(y, p)
         IN x \in FeedRow /\ x.product = p /\ x.status = y.status /\ x.code = y.code
  BY DEF FeedRow, Shifted

\* What the products of s are called and carry is so in u, but for o.
SamePeople(s, u, o) ==
  /\ DOMAIN u.products = DOMAIN s.products
  /\ \A q \in DOMAIN s.products \ {o} :
       /\ u.products[q].codes = s.products[q].codes
       /\ u.products[q].primary = s.products[q].primary
       /\ u.products[q].provisional = s.products[q].provisional
       /\ u.products[q].verified = s.products[q].verified
       /\ u.products[q].gone = s.products[q].gone
       /\ u.products[q].name = s.products[q].name

\* What a transfer makes of the store.
Transferred(s, u, o, t) ==
  /\ u \in Store /\ u.aliases = s.aliases /\ u.reviews = s.reviews
  /\ DOMAIN u.products = DOMAIN s.products /\ DOMAIN u.feed = DOMAIN s.feed
  /\ u.products[o] = Emptied(s.products[o])
  /\ u.products[t] = Recounted(s.products[t], s.products[t].qty + s.products[o].qty,
                               s.products[t].events \cup s.products[o].events)
  /\ \A q \in DOMAIN s.products \ {o, t} : u.products[q] = s.products[q]
  /\ \A e \in DOMAIN s.feed :
       u.feed[e] = IF s.feed[e].product = o THEN Shifted(s.feed[e], t) ELSE s.feed[e]

LEMMA TransferIs ==
  ASSUME NEW s \in Store, NEW o \in DOMAIN s.products, NEW t \in DOMAIN s.products, o # t,
         NEW u, u = Transfer(s, o, t)
  PROVE  Transferred(s, u, o, t)
<1>0. /\ s.products \in Seq(Product) /\ s.feed \in Seq(FeedRow)
      /\ \A p \in DOMAIN s.products : s.products[p] \in Product /\ p \in Nat
      /\ \A e \in DOMAIN s.feed : s.feed[e] \in FeedRow
  BY StoreFields
<1>17. PICK y : y = s.products[o]
  OBVIOUS
<1>18. PICK z : z = s.products[t]
  OBVIOUS
<1>1. PICK a : a = Emptied(y)
  OBVIOUS
<1>2. PICK b : b = Recounted(z, z.qty + y.qty, z.events \cup y.events)
  OBVIOUS
<1>3. a \in Product /\ b \in Product
  <2>1. y \in Product /\ z \in Product
    BY <1>0, <1>17, <1>18
  <2>2. z.qty + y.qty \in Nat /\ z.events \cup y.events \in SUBSET Nat
    BY <2>1 DEF Product
  <2> QED
    BY <1>1, <1>2, <2>1, <2>2, EmptiedIs, RecountedIs
<1>4. PICK P : P = [p \in DOMAIN s.products |-> IF p = o THEN a ELSE IF p = t THEN b ELSE s.products[p]]
  OBVIOUS
<1>5. PICK F : F = [e \in DOMAIN s.feed |->
        IF s.feed[e].product = o THEN Shifted(s.feed[e], t) ELSE s.feed[e]]
  OBVIOUS
<1>6. P \in [DOMAIN s.products -> Product]
  BY <1>0, <1>3, <1>4
<1>7. F \in [DOMAIN s.feed -> FeedRow]
  <2>1. \A e \in DOMAIN s.feed : Shifted(s.feed[e], t) \in FeedRow
    BY <1>0, RowMoved
  <2> QED
    BY <1>0, <1>5, <2>1
<1>8. P = [p \in DOMAIN s.products |->
             IF p = o THEN [s.products[p] EXCEPT !.gone = TRUE, !.qty = 0, !.events = {}]
             ELSE IF p = t
             THEN [s.products[p] EXCEPT !.qty = s.products[t].qty + s.products[o].qty,
                                        !.events = s.products[t].events \cup s.products[o].events]
             ELSE s.products[p]]
  BY <1>17, <1>18, <1>1, <1>2, <1>4 DEF Emptied, Recounted
<1>9. PICK v : v = [s EXCEPT !.products = P]
  OBVIOUS
<1>10. OnlyProducts(s, v) /\ v.products = P
  BY <1>6, <1>9, ProductsMapped
<1>11. u = [v EXCEPT !.feed = F]
  <2>1. u = [s EXCEPT !.products = P, !.feed = F]
    BY <1>5, <1>8 DEF Transfer, Shifted
  <2>2. [s EXCEPT !.products = P, !.feed = F] = [[s EXCEPT !.products = P] EXCEPT !.feed = F]
    BY DEF Store
  <2> QED
    BY <1>9, <2>1, <2>2
<1>12. v \in Store /\ F \in [DOMAIN v.feed -> FeedRow]
  BY <1>7, <1>10 DEF OnlyProducts
<1>13. OnlyFeed(v, u) /\ u.feed = F
  BY <1>11, <1>12, FeedMapped
<1>14. /\ u \in Store /\ u.aliases = s.aliases /\ u.reviews = s.reviews
       /\ DOMAIN u.products = DOMAIN s.products /\ DOMAIN u.feed = DOMAIN s.feed
       /\ u.products = P
  BY <1>10, <1>13 DEF OnlyProducts, OnlyFeed
<1>15. /\ P[o] = a /\ P[t] = b
       /\ \A q \in DOMAIN s.products \ {o, t} : P[q] = s.products[q]
  BY <1>4
<1>16. \A e \in DOMAIN s.feed :
         F[e] = IF s.feed[e].product = o THEN Shifted(s.feed[e], t) ELSE s.feed[e]
  BY <1>5
<1> QED
  BY <1>17, <1>18, <1>1, <1>2, <1>13, <1>14, <1>15, <1>16 DEF Transferred

LEMMA TransferSound ==
  ASSUME NEW s, NEW L, NEW N, Good(s, L, N), NEW o \in DOMAIN s.products,
         NEW t \in DOMAIN s.products, o # t, Room(s, L, t), NEW u, u = Transfer(s, o, t)
  PROVE  /\ Good(u, L, N) /\ Units(u) = Units(s) /\ OpenRows(u) = OpenRows(s)
         /\ u.aliases = s.aliases /\ u.reviews = s.reviews
         /\ DOMAIN u.feed = DOMAIN s.feed /\ SamePeople(s, u, o)
<1>0. /\ s \in Store /\ s.products \in Seq(Product)
      /\ \A p \in DOMAIN s.products : s.products[p] \in Product /\ p \in Nat
      /\ \A e \in DOMAIN s.feed : s.feed[e] \in FeedRow
  BY StoreFields DEF Good, Well
<1>1. PICK y : y = s.products[o]
  OBVIOUS
<1>2. PICK z : z = s.products[t]
  OBVIOUS
<1>3. /\ u \in Store /\ u.aliases = s.aliases /\ u.reviews = s.reviews
      /\ DOMAIN u.products = DOMAIN s.products /\ DOMAIN u.feed = DOMAIN s.feed
      /\ u.products[o] = Emptied(y)
      /\ u.products[t] = Recounted(z, z.qty + y.qty, z.events \cup y.events)
      /\ \A q \in DOMAIN s.products \ {o, t} : u.products[q] = s.products[q]
      /\ \A e \in DOMAIN s.feed :
           u.feed[e] = IF s.feed[e].product = o THEN Shifted(s.feed[e], t) ELSE s.feed[e]
  <2>1. Transferred(s, u, o, t)
    BY <1>0, TransferIs
  <2> QED
    BY <1>1, <1>2, <2>1 DEF Transferred
<1>4. /\ y \in Product /\ z \in Product /\ y.qty \in Nat /\ z.qty \in Nat
      /\ z.qty + y.qty \in Nat /\ z.events \cup y.events \in SUBSET Nat
  <2>1. y \in Product /\ z \in Product
    BY <1>0, <1>1, <1>2
  <2> QED
    BY <2>1 DEF Product
<1>5. PICK x : x = u.products[t]
  OBVIOUS
<1>6. /\ x.qty = z.qty + y.qty /\ x.events = z.events \cup y.events
      /\ x.codes = z.codes /\ x.primary = z.primary /\ x.provisional = z.provisional
      /\ x.verified = z.verified /\ x.gone = z.gone /\ x.name = z.name
  BY <1>3, <1>4, <1>5, RecountedIs
<1>7. PICK w : w = u.products[o]
  OBVIOUS
<1>8. /\ w.qty = 0 /\ w.events = {} /\ w.gone = TRUE
      /\ w.codes = y.codes /\ w.primary = y.primary /\ w.provisional = y.provisional
      /\ w.verified = y.verified /\ w.name = y.name
  <2>1. w = Emptied(y) /\ y \in Product
    BY <1>3, <1>4, <1>7
  <2> QED
    BY <2>1, EmptiedIs
<1>9. \A e \in DOMAIN s.feed :
        /\ u.feed[e].status = s.feed[e].status
        /\ u.feed[e].product = IF s.feed[e].product = o THEN t ELSE s.feed[e].product
  <2> SUFFICES ASSUME NEW e \in DOMAIN s.feed
               PROVE  /\ u.feed[e].status = s.feed[e].status
                      /\ u.feed[e].product = IF s.feed[e].product = o THEN t ELSE s.feed[e].product
    OBVIOUS
  <2>1. CASE s.feed[e].product = o
    <3>1. u.feed[e] = Shifted(s.feed[e], t) /\ s.feed[e] \in FeedRow /\ t \in Nat \cup {None}
      BY <1>0, <1>3, <2>1
    <3>2. PICK r \in FeedRow : r = s.feed[e]
      BY <3>1
    <3>3. Shifted(r, t).product = t /\ Shifted(r, t).status = r.status
      BY <3>1, RowMoved
    <3> QED
      BY <2>1, <3>1, <3>2, <3>3
  <2>2. CASE s.feed[e].product # o
    BY <1>3, <2>2
  <2> QED
    BY <2>1, <2>2
<1>10. SamePeople(s, u, o)
  BY <1>2, <1>3, <1>5, <1>6 DEF SamePeople
<1>11. Well(u)
  BY <1>3, <1>9 DEF Good, Well, Refs
<1>12. Booked(u)
  <2> SUFFICES ASSUME NEW p \in DOMAIN s.products
               PROVE  /\ u.products[p].events \subseteq DOMAIN s.feed
                      /\ Cardinality(u.products[p].events) <= u.products[p].qty
    BY <1>3 DEF Booked
  <2>1. CASE p = o
    <3>1. IsFiniteSet(w.events)
      BY <1>8, FS_EmptySet
    <3>2. Cardinality(w.events) = 0
      BY <1>8, <3>1, FS_EmptySet
    <3>3. Cardinality(u.products[p].events) = 0
      BY <1>7, <2>1, <3>2, Zenon
    <3>4. u.products[p].qty = 0 /\ u.products[p].events \subseteq DOMAIN s.feed
      BY <1>7, <1>8, <2>1
    <3> QED
      BY <3>3, <3>4
  <2>2. CASE p = t
    <3>1. /\ y.events \subseteq DOMAIN s.feed /\ Cardinality(y.events) <= y.qty
          /\ z.events \subseteq DOMAIN s.feed /\ Cardinality(z.events) <= z.qty
      BY <1>1, <1>2 DEF Good, Booked
    <3>2. /\ IsFiniteSet(y.events) /\ IsFiniteSet(z.events)
          /\ Cardinality(y.events) \in Nat /\ Cardinality(z.events) \in Nat
      BY <1>0, <3>1, RowsFinite
    <3>3. PICK I : I = z.events \cap y.events
      OBVIOUS
    <3>4. Cardinality(I) \in Nat
      BY <1>0, <3>1, <3>3, RowsFinite
    <3>5. Cardinality(z.events \cup y.events)
            = Cardinality(z.events) + Cardinality(y.events) - Cardinality(I)
      BY <3>2, <3>3, FS_Union
    <3>6. PICK a, b, i, d : /\ a = Cardinality(z.events) /\ b = Cardinality(y.events)
                           /\ i = Cardinality(I) /\ d = Cardinality(x.events)
      OBVIOUS
    <3>7. d = a + b - i /\ a \in Nat /\ b \in Nat /\ i \in Nat /\ a <= z.qty /\ b <= y.qty
      BY <1>6, <3>1, <3>2, <3>4, <3>5, <3>6
    <3>8. d <= x.qty
      BY <1>4, <1>6, <3>7
    <3>9. x.events \subseteq DOMAIN s.feed
      BY <1>6, <3>1
    <3> QED
      BY <1>5, <2>2, <3>6, <3>8, <3>9
  <2>3. CASE p \notin {o, t}
    BY <1>3, <2>3 DEF Good, Booked
  <2> QED
    BY <2>1, <2>2, <2>3
<1>13. OnBooks(u)
  <2> SUFFICES ASSUME NEW e \in DOMAIN s.feed, u.feed[e].status = "known"
               PROVE  u.feed[e].product # None /\ e \in u.products[u.feed[e].product].events
    BY <1>3 DEF OnBooks
  <2>1. PICK p : p = s.feed[e].product
    OBVIOUS
  <2>2. p # None /\ e \in s.products[p].events /\ p \in DOMAIN s.products
    BY <1>9, <2>1 DEF Good, Well, Refs, OnBooks
  <2>3. CASE p = o
    <3>1. u.feed[e].product = t /\ e \in y.events
      BY <1>1, <1>9, <2>1, <2>2, <2>3
    <3>2. t # None
      BY <1>0, CatalogueAssumption
    <3> QED
      BY <1>5, <1>6, <3>1, <3>2
  <2>4. CASE p = t
    <3>1. u.feed[e].product = t /\ e \in z.events
      BY <1>2, <1>9, <2>1, <2>2, <2>4
    <3> QED
      BY <1>5, <1>6, <2>2, <2>4, <3>1
  <2>5. CASE p \notin {o, t}
    BY <1>3, <1>9, <2>1, <2>2, <2>5
  <2> QED
    BY <2>3, <2>4, <2>5
<1>14. Coded(u, L)
  <2> SUFFICES ASSUME NEW p \in DOMAIN s.products
               PROVE  /\ u.products[p].primary \in u.products[p].codes
                      /\ u.products[p].verified => ~u.products[p].provisional
                      /\ u.products[p].gone => u.products[p].qty = 0 \/ p \in L
    BY <1>3 DEF Coded
  <2>1. /\ s.products[p].primary \in s.products[p].codes
        /\ s.products[p].verified => ~s.products[p].provisional
        /\ s.products[p].gone => s.products[p].qty = 0 \/ p \in L
    BY DEF Good, Coded
  <2>2. CASE p = o
    BY <1>1, <1>7, <1>8, <2>1, <2>2
  <2>3. CASE p = t
    <3>1. z.gone => p \in L
      BY <1>2, <2>3 DEF Room
    <3> QED
      BY <1>2, <1>5, <1>6, <2>1, <2>3, <3>1
  <2>4. CASE p \notin {o, t}
    BY <1>3, <2>1, <2>4
  <2> QED
    BY <2>2, <2>3, <2>4
<1>15. \A q \in DOMAIN s.products : Floating(u, L, q) <=> Floating(s, L, q)
  BY <1>1, <1>7, <1>8, <1>10 DEF SamePeople, Floating
<1>16. \A q \in DOMAIN s.products : u.products[q].primary = s.products[q].primary
  BY <1>1, <1>7, <1>8, <1>10 DEF SamePeople
<1>17. \A q \in DOMAIN s.products \ {t} : u.products[q].qty > 0 => s.products[q].qty > 0
  BY <1>3, <1>7, <1>8
<1>18. Apart(u, L)
  <2> SUFFICES ASSUME NEW q \in DOMAIN s.products, NEW r \in DOMAIN s.products,
                      Floating(s, L, q), Floating(s, L, r),
                      s.products[q].primary = s.products[r].primary,
                      u.products[q].qty > 0, u.products[r].qty > 0, q # r
               PROVE  FALSE
    BY <1>3, <1>15, <1>16 DEF Apart
  <2>1. CASE q # t /\ r # t
    BY <1>17, <2>1 DEF Good, Apart
  <2>2. CASE q = t
    <3>1. s.products[r].qty = 0
      BY <2>2 DEF Room, Floating
    <3> QED
      BY <1>17, <2>2, <3>1
  <2>3. CASE r = t
    <3>1. s.products[q].qty = 0
      BY <2>3 DEF Room, Floating
    <3> QED
      BY <1>17, <2>3, <3>1
  <2> QED
    BY <2>1, <2>2, <2>3
<1>19. Identity(u, N)
  <2>1. /\ u.products[o].verified = s.products[o].verified
        /\ u.products[o].name = s.products[o].name
    BY <1>1, <1>7, <1>8
  <2> QED
    BY <1>3, <1>10, <2>1 DEF Good, Identity, SamePeople
<1>20. Units(u) = Units(s)
  <2>1. u.products \in Seq(Product)
    BY <1>3, StoreFields
  <2>2. u.products[o].qty = 0 /\ u.products[t].qty = s.products[t].qty + s.products[o].qty
    BY <1>1, <1>2, <1>5, <1>6, <1>7, <1>8
  <2>3. \A q \in DOMAIN s.products \ {o, t} : u.products[q].qty = s.products[q].qty
    BY <1>3
  <2>4. Cardinality(CellsOf(u.products)) = Cardinality(CellsOf(s.products))
    <3>1. PICK P, Q : P = s.products /\ Q = u.products
      OBVIOUS
    <3>2. P \in Seq(Product) /\ o \in DOMAIN P /\ t \in DOMAIN P /\ o # t
      BY <1>0, <3>1
    <3>3. /\ Q \in Seq(Product) /\ DOMAIN Q = DOMAIN P
          /\ Q[o].qty = 0 /\ Q[t].qty = P[t].qty + P[o].qty
          /\ \A q \in DOMAIN P \ {o, t} : Q[q].qty = P[q].qty
      BY <1>3, <2>1, <2>2, <2>3, <3>1
    <3>4. Cardinality(CellsOf(Q)) = Cardinality(CellsOf(P))
      BY <3>2, <3>3, CellsMoved
    <3> QED
      BY <3>1, <3>4
  <2> QED
    BY <2>4, UnitsAre
<1>21. OpenRows(u) = OpenRows(s)
  BY <1>3, <1>9 DEF OpenRows
<1>22. Good(u, L, N)
  BY <1>11, <1>12, <1>13, <1>14, <1>18, <1>19 DEF Good
<1> QED
  BY <1>3, <1>10, <1>20, <1>21, <1>22

-----------------------------------------------------------------------------
(* Counting *)

LEMMA CountRowIs ==
  ASSUME NEW s \in Store, NEW p \in DOMAIN s.products, NEW e \in DOMAIN s.feed,
         NEW t, t = CountRow(s, p, e)
  PROVE  Counts(s, t, p, {e}, IF e \in s.products[p].events THEN 0 ELSE 1)
<1>0. /\ s.feed \in Seq(FeedRow) /\ s.products \in Seq(Product)
      /\ \A q \in DOMAIN s.products : s.products[q] \in Product /\ q \in Nat
      /\ \A f \in DOMAIN s.feed : s.feed[f] \in FeedRow /\ f \in Nat
      /\ s.feed \in [DOMAIN s.feed -> FeedRow]
  BY StoreFields, SeqFacts
<1>1. PICK r : r = Restated(s.feed[e], p, "known")
  OBVIOUS
<1>2. r \in FeedRow /\ r.product = p /\ r.status = "known"
  <2>1. s.feed[e] \in FeedRow /\ p \in Nat \cup {None}
    BY <1>0
  <2> QED
    BY <1>1, <2>1, RestatedIs
<1>3. PICK F : F = [s.feed EXCEPT ![e] = r]
  OBVIOUS
<1>4. /\ F \in [DOMAIN s.feed -> FeedRow] /\ F[e] = r
      /\ \A f \in DOMAIN s.feed \ {e} : F[f] = s.feed[f]
  BY <1>0, <1>2, <1>3
<1>5. PICK v : v = [s EXCEPT !.feed = F]
  OBVIOUS
<1>6. OnlyFeed(s, v) /\ v.feed = F
  BY <1>4, <1>5, FeedMapped
<1>7. v = [s EXCEPT !.feed[e].product = p, !.feed[e].status = "known"]
  BY <1>1, <1>3, <1>5 DEF Restated, Store
<1>8. t = Increment(v, p, e)
  BY <1>7 DEF CountRow
<1>9. v \in Store /\ v.products = s.products /\ v.aliases = s.aliases /\ v.reviews = s.reviews
      /\ DOMAIN F = DOMAIN s.feed /\ Len(F) = Len(s.feed)
  BY <1>6 DEF OnlyFeed
<1>10. PICK y \in Product : y = s.products[p]
  BY <1>0
<1>11. y.qty \in Nat /\ y.events \in SUBSET Nat /\ y.events \cup {e} \in SUBSET Nat
  BY <1>0 DEF Product
<1>12. CASE e \in y.events
  <2>1. t = v
    BY <1>8, <1>9, <1>10, <1>12 DEF Increment
  <2>2. y = Recounted(y, y.qty + 0, y.events \cup {e})
    <3>1. y.qty + 0 = y.qty /\ y.events \cup {e} = y.events
      BY <1>11, <1>12
    <3>2. y = [y EXCEPT !.qty = y.qty, !.events = y.events]
      BY DEF Product
    <3> QED
      BY <3>1, <3>2 DEF Recounted
  <2>3. t.products[p] = Recounted(s.products[p], s.products[p].qty + 0, s.products[p].events \cup {e})
    BY <1>9, <1>10, <2>1, <2>2
  <2> QED
    BY <1>2, <1>4, <1>6, <1>9, <1>10, <1>12, <2>1, <2>3 DEF Counts
<1>13. CASE e \notin y.events
  <2>1. PICK x : x = Recounted(y, y.qty + 1, y.events \cup {e})
    OBVIOUS
  <2>2. x \in Product
    BY <1>11, <2>1, RecountedIs
  <2>3. t = [v EXCEPT !.products = [v.products EXCEPT ![p] = x]]
    <3>1. t = Grown(v, p, 1, {e})
      <4>1. e \notin v.products[p].events
        BY <1>9, <1>10, <1>13
      <4> QED
        BY <1>8, <4>1, Zenon DEF Increment, Grown
    <3>2. p \in DOMAIN v.products
      BY <1>9
    <3>3. x = Recounted(v.products[p], v.products[p].qty + 1, v.products[p].events \cup {e})
      BY <1>9, <1>10, <2>1, Zenon
    <3> QED
      <4>1. v \in Store /\ v.products \in [DOMAIN v.products -> Product]
        BY <1>9, StoreFields, SeqFacts
      <4> QED
        BY <3>1, <3>2, <3>3, <4>1 DEF Grown, Recounted, Store, Product
  <2>4. ProductPut(v, t, p, x)
    BY <1>9, <2>2, <2>3, OneProduct
  <2> QED
    BY <1>2, <1>4, <1>6, <1>9, <1>10, <1>13, <2>1, <2>4 DEF Counts, OnlyProducts, ProductPut
<1> QED
  BY <1>12, <1>13

\* A row that is counted without having been open.
Extra(s, p, e) == IF e \notin s.products[p].events /\ s.feed[e].status # "needs_review" THEN 1 ELSE 0

LEMMA CountRowSound ==
  ASSUME NEW s, NEW L, NEW N, Good(s, L, N), NEW p \in DOMAIN s.products, Room(s, L, p),
         NEW e \in DOMAIN s.feed, NEW t, t = CountRow(s, p, e)
  PROVE  /\ Good(t, L, N)
         /\ Counts(s, t, p, {e}, IF e \in s.products[p].events THEN 0 ELSE 1)
         /\ Weight(t) <= Weight(s) + Extra(s, p, e)
<1>0. s \in Store
  BY DEF Good, Well
<1>1. PICK n \in Nat : n = IF e \in s.products[p].events THEN 0 ELSE 1
  OBVIOUS
<1>2. PICK E : E = {e}
  OBVIOUS
<1>3. Counts(s, t, p, E, n)
  BY <1>0, <1>1, <1>2, CountRowIs
<1>4. Covers(s, p, E, n)
  <2> SUFFICES Cardinality(E \ s.products[p].events) <= n
    BY DEF Covers
  <2>1. CASE e \in s.products[p].events
    <3>1. E \ s.products[p].events = {}
      BY <1>2, <2>1
    <3>2. Cardinality(E \ s.products[p].events) = 0
      BY <3>1, FS_EmptySet
    <3> QED
      BY <3>2
  <2>2. CASE e \notin s.products[p].events
    <3>1. E \ s.products[p].events = {e}
      BY <1>2, <2>2
    <3>2. Cardinality(E \ s.products[p].events) = 1
      BY <3>1, FS_Singleton
    <3> QED
      BY <1>1, <2>2, <3>2
  <2> QED
    BY <2>1, <2>2
<1>5. Good(t, L, N) /\ Units(t) = Units(s) + n /\ OpenRows(t) = OpenRows(s) \ E
  <2>1. E \in SUBSET DOMAIN s.feed
    BY <1>2
  <2>2. Good(t, L, N)
    BY <1>3, <1>4, <2>1, CountSound
  <2>3. Units(t) = Units(s) + n
    BY <1>3, <1>4, <2>1, CountSound
  <2>4. OpenRows(t) = OpenRows(s) \ E
    BY <1>3, <2>1 DEF Counts, OpenRows
  <2> QED
    BY <2>2, <2>3, <2>4
<1>6. /\ IsFiniteSet(OpenRows(s)) /\ Cardinality(OpenRows(s)) \in Nat /\ Units(s) \in Nat
  BY <1>0, RowsFinite
<1>7. Cardinality(OpenRows(t)) = IF e \in OpenRows(s) THEN Cardinality(OpenRows(s)) - 1
                                 ELSE Cardinality(OpenRows(s))
  <2>1. PICK R : R = OpenRows(s)
    OBVIOUS
  <2>2. IsFiniteSet(R) /\ Cardinality(R) \in Nat
    BY <1>6, <2>1
  <2>3. e \in R => Cardinality(R \ {e}) = Cardinality(R) - 1
    BY <2>2, FS_RemoveElement
  <2>4. e \notin R => R \ {e} = R
    OBVIOUS
  <2>5. OpenRows(t) = R \ {e}
    BY <1>2, <1>5, <2>1
  <2> QED
    BY <2>1, <2>3, <2>4, <2>5
<1>8. e \in OpenRows(s) <=> s.feed[e].status = "needs_review"
  BY DEF OpenRows
<1>9. PICK x \in Nat : x = Extra(s, p, e)
  BY DEF Extra
<1>10. PICK u, v, a, b : /\ u = Units(s) /\ v = Units(t) /\ a = Cardinality(OpenRows(s))
                        /\ b = Cardinality(OpenRows(t))
  OBVIOUS
<1>11. /\ u \in Nat /\ a \in Nat /\ v = u + n
       /\ Weight(t) = v + b /\ Weight(s) = u + a
  BY <1>5, <1>6, <1>10 DEF Weight
<1>12. b = (IF e \in OpenRows(s) THEN a - 1 ELSE a) /\ (e \notin OpenRows(s) => n = x) /\ n <= 1
  BY <1>1, <1>7, <1>8, <1>9, <1>10 DEF Extra
<1>13. v + b <= u + a + x
  BY <1>1, <1>9, <1>11, <1>12
<1> QED
  BY <1>1, <1>2, <1>3, <1>5, <1>9, <1>11, <1>13

-----------------------------------------------------------------------------
(* Steps: what an operation on code c makes of a sound store *)

Moves(s, t, c) ==
  /\ DOMAIN s.products \subseteq DOMAIN t.products
  /\ Named(s) \subseteq Named(t)
  /\ \A d \in Codes \ {c} : t.reviews[d] = s.reviews[d]

\* At most k units more.
Takes(s, t, c, L, N, k) == Good(t, L, N) /\ Weight(t) <= Weight(s) + k /\ Moves(s, t, c)

LEMMA WeightType ==
  ASSUME NEW s, NEW L, NEW N, Good(s, L, N)
  PROVE  Weight(s) \in Nat
BY RowsFinite DEF Good, Well

LEMMA TakesThen ==
  ASSUME NEW s, NEW u, NEW t, NEW c, NEW L, NEW N, NEW K, NEW M, NEW j \in Nat, NEW k \in Nat,
         Good(s, K, M), Takes(s, u, c, L, N, j), Takes(u, t, c, L, N, k)
  PROVE  Takes(s, t, c, L, N, j + k)
<1>1. Weight(s) \in Nat /\ Weight(u) \in Nat /\ Weight(t) \in Nat
  BY WeightType DEF Takes
<1>2. Weight(t) <= Weight(s) + (j + k)
  <2>1. PICK a, b, d \in Nat : a = Weight(s) /\ b = Weight(u) /\ d = Weight(t)
    BY <1>1
  <2>2. b <= a + j /\ d <= b + k
    BY <2>1 DEF Takes
  <2> QED
    BY <2>1, <2>2
<1>3. Moves(s, t, c)
  BY DEF Takes, Moves
<1> QED
  BY <1>2, <1>3 DEF Takes

\* Two steps the first of which brings nothing.
LEMMA TakesOn ==
  ASSUME NEW s, NEW u, NEW t, NEW c, NEW L, NEW N, NEW k \in Nat,
         Good(s, L, N), Takes(s, u, c, L, N, 0), Takes(u, t, c, L, N, k)
  PROVE  Takes(s, t, c, L, N, k)
<1>1. Takes(s, t, c, L, N, 0 + k)
  BY TakesThen
<1> QED
  BY <1>1

LEMMA TakesNothing ==
  ASSUME NEW s, NEW c, NEW L, NEW N, Good(s, L, N)
  PROVE  Takes(s, s, c, L, N, 0)
BY WeightType DEF Takes, Moves

LEMMA SameWeight ==
  ASSUME NEW s, NEW t, NEW L, NEW N, Good(s, L, N), Rests(s, t, L, N)
  PROVE  Weight(t) <= Weight(s) + 0
<1>1. IsFiniteSet(OpenRows(s)) /\ Cardinality(OpenRows(s)) \in Nat /\ Units(s) \in Nat
  BY RowsFinite DEF Good, Well
<1>2. Cardinality(OpenRows(t)) <= Cardinality(OpenRows(s)) /\ Cardinality(OpenRows(t)) \in Nat
  BY <1>1, FS_Subset, FS_CardinalityType DEF Rests
<1> QED
  BY <1>1, <1>2 DEF Weight, Rests

LEMMA FeedTakes ==
  ASSUME NEW s, NEW L, NEW N, Good(s, L, N), NEW F \in [DOMAIN s.feed -> FeedRow],
         NEW c, NEW t, t = [s EXCEPT !.feed = F],
         \A e \in DOMAIN s.feed :
           /\ F[e].product \in {None} \cup DOMAIN s.products
           /\ F[e].status = "known" =>
                s.feed[e].status = "known" /\ F[e].product = s.feed[e].product
           /\ F[e].status = "needs_review" => s.feed[e].status = "needs_review"
  PROVE  Takes(s, t, c, L, N, 0) /\ t.products = s.products /\ t.reviews = s.reviews
         /\ t.aliases = s.aliases
<1>1. s \in Store
  BY DEF Good, Well
<1>2. OnlyFeed(s, t) /\ t.feed = F
  BY <1>1, FeedMapped
<1>3. Rests(s, t, L, N)
  BY <1>2, FeedSound
<1>4. Weight(t) <= Weight(s) + 0
  BY <1>3, SameWeight
<1>5. Moves(s, t, c) /\ t.products = s.products /\ t.reviews = s.reviews /\ t.aliases = s.aliases
  BY <1>2 DEF Moves, OnlyFeed, Named
<1> QED
  BY <1>3, <1>4, <1>5 DEF Takes, Rests

Rewrite(s, c, r) == [s EXCEPT !.reviews = [s.reviews EXCEPT ![c] = r]]

LEMMA ReviewTakes ==
  ASSUME NEW s, NEW L, NEW N, Good(s, L, N), NEW c \in Codes, NEW r \in Review,
         r.provisional \in {None} \cup DOMAIN s.products,
         NEW t, t = Rewrite(s, c, r)
  PROVE  Takes(s, t, c, L, N, 0) /\ ReviewPut(s, t, c, r)
<1>1. s \in Store
  BY DEF Good, Well
<1>2. ReviewPut(s, t, c, r)
  BY <1>1, ReviewSet DEF Rewrite
<1>3. OnlyReviews(s, t) /\ \A d \in Codes : t.reviews[d].provisional \in {None} \cup DOMAIN s.products
  BY <1>2 DEF Good, Well, Refs, ReviewPut
<1>4. Rests(s, t, L, N)
  BY <1>3, ReviewsSound
<1>5. Weight(t) <= Weight(s) + 0
  BY <1>4, SameWeight
<1>6. Moves(s, t, c)
  BY <1>2 DEF Moves, OnlyReviews, Named, ReviewPut
<1> QED
  BY <1>2, <1>4, <1>5, <1>6 DEF Takes, Rests, ReviewPut

LEMMA AliasesTake ==
  ASSUME NEW s, NEW L, NEW N, Good(s, L, N), NEW c, NEW t, OnlyAliases(s, t),
         \A a \in t.aliases : a.product \in DOMAIN s.products, Named(s) \subseteq Named(t)
  PROVE  Takes(s, t, c, L, N, 0)
<1>1. Rests(s, t, L, N)
  BY AliasesSound
<1>2. Weight(t) <= Weight(s) + 0
  BY <1>1, SameWeight
<1> QED
  BY <1>1, <1>2 DEF Takes, Rests, Moves, OnlyAliases

LEMMA PersonTakes ==
  ASSUME NEW s, NEW L, NEW N, Good(s, L, N), NEW c, NEW p \in DOMAIN s.products,
         NEW y, y = s.products[p], NEW x \in Product, NEW t, ProductPut(s, t, p, x),
         x.qty = y.qty, x.events = y.events, x.primary = y.primary, x.gone = y.gone,
         y.codes \subseteq x.codes,
         x.provisional => y.provisional \/ p \in L,
         x.verified => ~x.provisional,
         x.verified => x.name \in {"human", "backed"} \/ p \in N
  PROVE  Takes(s, t, c, L, N, 0)
<1>1. Rests(s, t, L, N)
  <2>1. /\ OnlyProducts(s, t) /\ x = t.products[p]
        /\ \A q \in DOMAIN s.products \ {p} : t.products[q] = s.products[q]
    BY DEF ProductPut
  <2> QED
    BY <2>1, PersonSound
<1>2. Weight(t) <= Weight(s) + 0
  BY <1>1, SameWeight
<1>3. Moves(s, t, c)
  BY DEF Moves, OnlyProducts, Named, ProductPut
<1> QED
  BY <1>1, <1>2, <1>3 DEF Takes, Rests

LEMMA PutTwice ==
  ASSUME NEW s, NEW u, NEW t, NEW p, NEW x, NEW z, ProductPut(s, u, p, x), ProductPut(u, t, p, z)
  PROVE  ProductPut(s, t, p, z)
BY DEF ProductPut, OnlyProducts

-----------------------------------------------------------------------------
(* Counting, minting, merging *)

LEMMA NewRowTakes ==
  ASSUME NEW s, NEW L, NEW N, Good(s, L, N), NEW c \in Codes, NEW b \in BOOLEAN,
         NEW t, t = NewRow(s, c, None, "needs_review", b)
  PROVE  Takes(s, t, c, L, N, 1)
<1>1. PICK k : k = Len(s.feed) + 1
  OBVIOUS
<1>2. Good(t, L, N) /\ RowJoins(s, t, k, c)
  BY <1>1, NewRowSound
<1>3. IsFiniteSet(OpenRows(s)) /\ Cardinality(OpenRows(s)) \in Nat /\ Units(s) \in Nat
  BY RowsFinite DEF Good, Well
<1>4. Cardinality(OpenRows(s) \cup {k}) = Cardinality(OpenRows(s)) + 1
  BY <1>2, <1>3, FS_AddElement DEF RowJoins
<1>5. PICK u, a, b2 : u = Units(s) /\ a = Cardinality(OpenRows(s)) /\ b2 = Cardinality(OpenRows(t))
  OBVIOUS
<1>6. Units(t) = u /\ b2 = a + 1 /\ u \in Nat /\ a \in Nat
  BY <1>2, <1>3, <1>4, <1>5 DEF RowJoins
<1>7. Weight(t) = u + b2 /\ Weight(s) = u + a
  BY <1>5, <1>6 DEF Weight
<1>8. Weight(t) <= Weight(s) + 1
  BY <1>6, <1>7
<1>9. Moves(s, t, c)
  BY <1>2 DEF RowJoins, Moves, Named
<1> QED
  BY <1>2, <1>8, <1>9 DEF Takes

LEMMA MintTakes ==
  ASSUME NEW s, NEW L, NEW N, Good(s, L, N), NEW c, NEW x \in Product,
         x.qty = 0, x.events = {}, x.primary \in x.codes, ~x.verified, ~x.gone,
         NEW t, t = Mint(s, x)
  PROVE  Takes(s, t, c, L, N, 0)
<1>1. PICK h : h = Len(s.products) + 1
  OBVIOUS
<1>2. Good(t, L, N) /\ Gains(s, t, x, h)
  BY <1>1, MintSound
<1>3. Weight(t) <= Weight(s) + 0
  BY <1>2, WeightType DEF Weight, Gains
<1> QED
  BY <1>2, <1>3 DEF Takes, Moves, Named, Gains

LEMMA TransferTakes ==
  ASSUME NEW s, NEW L, NEW N, Good(s, L, N), NEW c, NEW o \in DOMAIN s.products,
         NEW p \in DOMAIN s.products, o # p, Room(s, L, p), NEW t, t = Transfer(s, o, p)
  PROVE  Takes(s, t, c, L, N, 0)
<1>1. /\ Good(t, L, N) /\ Units(t) = Units(s) /\ OpenRows(t) = OpenRows(s)
      /\ t.aliases = s.aliases /\ t.reviews = s.reviews /\ SamePeople(s, t, o)
  BY TransferSound
<1>2. Weight(t) <= Weight(s) + 0
  BY <1>1, WeightType DEF Weight
<1> QED
  BY <1>1, <1>2 DEF Takes, Moves, Named, SamePeople

LEMMA CountRowTakes ==
  ASSUME NEW s, NEW L, NEW N, Good(s, L, N), NEW c, NEW p \in DOMAIN s.products, Room(s, L, p),
         NEW e \in DOMAIN s.feed, NEW t, t = CountRow(s, p, e)
  PROVE  Takes(s, t, c, L, N, Extra(s, p, e))
<1>1. /\ Good(t, L, N)
      /\ Counts(s, t, p, {e}, IF e \in s.products[p].events THEN 0 ELSE 1)
      /\ Weight(t) <= Weight(s) + Extra(s, p, e)
  BY CountRowSound
<1> QED
  BY <1>1 DEF Takes, Moves, Named, Counts

\* What counting leaves alone.
SamePlaces(s, t) ==
  /\ t.reviews = s.reviews /\ t.aliases = s.aliases
  /\ DOMAIN t.products = DOMAIN s.products /\ DOMAIN t.feed = DOMAIN s.feed

LEMMA CountRowPlaces ==
  ASSUME NEW s \in Store, NEW p \in DOMAIN s.products, NEW e \in DOMAIN s.feed,
         NEW t, t = CountRow(s, p, e)
  PROVE  SamePlaces(s, t)
<1>1. PICK n : n = IF e \in s.products[p].events THEN 0 ELSE 1
  OBVIOUS
<1>2. Counts(s, t, p, {e}, n)
  BY <1>1, CountRowIs
<1> QED
  BY <1>2 DEF Counts, SamePlaces

\* On what scans and answers count.
LEMMA RoomOn ==
  ASSUME NEW s, NEW L, NEW N, Good(s, L, N), NEW p
  PROVE  /\ p \in Counted(s) => Room(s, L, p)
         /\ p \in Live(s) /\ ~s.products[p].provisional => Room(s, L, p)
         /\ p \in L => Room(s, L, p)
<1>1. ASSUME p \in Counted(s), p \notin L PROVE Room(s, L, p)
  <2>1. p \in DOMAIN s.products /\ ~s.products[p].gone /\ s.products[p].qty > 0
    BY <1>1 DEF Counted, Live
  <2> SUFFICES ASSUME NEW q \in DOMAIN s.products \ {p}, Floating(s, L, q),
                      s.products[p].provisional, s.products[q].primary = s.products[p].primary
               PROVE  s.products[q].qty = 0
    BY <2>1 DEF Room
  <2>2. s.products[q].qty \in Nat
    <3>1. s.products[q] \in Product
      BY StoreFields DEF Good, Well
    <3> QED
      BY <3>1 DEF Product
  <2>3. ~(s.products[q].qty > 0)
    BY <1>1, <2>1 DEF Good, Apart, Floating
  <2> QED
    BY <2>2, <2>3
<1> QED
  BY <1>1 DEF Room, Live

-----------------------------------------------------------------------------
(* Deciding *)

LEMMA LearnTakes ==
  ASSUME NEW s, NEW L, NEW N, Good(s, L, N), NEW c, NEW C \in SUBSET Codes,
         NEW p \in DOMAIN s.products, NEW ok \in BOOLEAN, NEW t, t = Learn(s, C, p, ok)
  PROVE  Takes(s, t, c, L, N, 0) /\ OnlyAliases(s, t) /\ (C # {} => p \in Named(t))
<1>0. s \in Store /\ s.aliases \in SUBSET Alias /\ p \in Nat
      /\ \A a \in s.aliases : a.product \in DOMAIN s.products
  BY StoreFields DEF Good, Well, Refs
<1>1. PICK A : A = {[code |-> x, product |-> p, approved |-> ok] : x \in {y \in C : ~HasAlias(s, y, p)}}
  OBVIOUS
<1>2. A \in SUBSET Alias /\ \A a \in A : a.product = p
  BY <1>0, <1>1 DEF Alias
<1>3. PICK B : B = s.aliases \cup A
  OBVIOUS
<1>4. t = [s EXCEPT !.aliases = B]
  BY <1>0, <1>1, <1>3 DEF Learn, Store
<1>5. B \in SUBSET Alias /\ \A a \in B : a.product \in DOMAIN s.products
  BY <1>0, <1>2, <1>3
<1>6. OnlyAliases(s, t) /\ t.aliases = B
  BY <1>0, <1>4, <1>5, NewAliases DEF OnlyAliases
<1>7. Named(s) \subseteq Named(t)
  BY <1>3, <1>6 DEF Named
<1>8. Takes(s, t, c, L, N, 0)
  BY <1>5, <1>6, <1>7, AliasesTake
<1>9. ASSUME NEW x \in C PROVE p \in Named(t)
  <2>1. CASE HasAlias(s, x, p)
    BY <1>3, <1>6, <2>1 DEF HasAlias, Named
  <2>2. CASE ~HasAlias(s, x, p)
    <3>1. [code |-> x, product |-> p, approved |-> ok] \in A
      BY <1>1, <2>2
    <3>2. PICK a \in A : a.product = p
      BY <3>1
    <3> QED
      BY <1>3, <1>6, <3>2 DEF Named
  <2> QED
    BY <2>1, <2>2
<1> QED
  BY <1>6, <1>8, <1>9

LEMMA LearnAllTakes ==
  ASSUME NEW s, NEW L, NEW N, Good(s, L, N), NEW c, NEW C \in SUBSET Codes,
         NEW p \in DOMAIN s.products, NEW t, t = LearnAll(s, C, p)
  PROVE  Takes(s, t, c, L, N, 0) /\ OnlyAliases(s, t)
<1>1. PICK D : D = {x \in C : ~Taken(s, x, p)}
  OBVIOUS
<1>2. D \in SUBSET Codes /\ t = Learn(s, D, p, TRUE)
  BY <1>1 DEF LearnAll
<1> QED
  BY <1>2, LearnTakes

\* One review is rewritten.
LEMMA ReviewIs ==
  ASSUME NEW s, NEW L, NEW N, Good(s, L, N), NEW c \in Codes
  PROVE  /\ s.reviews[c] \in Review
         /\ s.reviews[c].provisional \in {None} \cup DOMAIN s.products
         /\ s \in Store /\ s.reviews \in [Codes -> Review]
BY StoreFields DEF Good, Well, Refs

LEMMA SettledTakes ==
  ASSUME NEW s, NEW L, NEW N, Good(s, L, N), NEW c \in Codes, NEW t, t = Settled(s, c)
  PROVE  Takes(s, t, c, L, N, 0) /\ OnlyReviews(s, t)
         /\ t.reviews[c].status = "resolved" /\ t.reviews[c].by = "human"
<1>0. /\ s.reviews[c] \in Review /\ s.reviews[c].provisional \in {None} \cup DOMAIN s.products
      /\ s \in Store /\ s.reviews \in [Codes -> Review]
  BY ReviewIs
<1>1. PICK y \in Review : y = s.reviews[c]
  BY <1>0
<1>2. PICK r : r = [y EXCEPT !.status = "resolved", !.by = "human"]
  OBVIOUS
<1>3. r \in Review /\ r.provisional = y.provisional /\ r.status = "resolved" /\ r.by = "human"
  BY <1>2 DEF Review
<1>4. t = Rewrite(s, c, r)
  BY <1>0, <1>1, <1>2 DEF Settled, Rewrite, Store
<1>5. r.provisional \in {None} \cup DOMAIN s.products
  BY <1>0, <1>1, <1>3
<1>6. Takes(s, t, c, L, N, 0) /\ ReviewPut(s, t, c, r)
  BY <1>3, <1>4, <1>5, ReviewTakes
<1> QED
  BY <1>3, <1>6 DEF ReviewPut

LEMMA RelabelTakes ==
  ASSUME NEW s, NEW L, NEW N, Good(s, L, N), NEW c, NEW p \in DOMAIN s.products,
         NEW t, t = Relabel(s, c, p)
  PROVE  Takes(s, t, c, L, N, 0) /\ t.products = s.products /\ t.reviews = s.reviews
         /\ t.aliases = s.aliases
<1>0. /\ s \in Store /\ p \in Nat /\ \A e \in DOMAIN s.feed : s.feed[e] \in FeedRow
      /\ \A e \in DOMAIN s.feed : s.feed[e].product \in {None} \cup DOMAIN s.products
  BY StoreFields DEF Good, Well, Refs
<1>1. PICK F : F = [e \in DOMAIN s.feed |->
        IF s.feed[e].code = c
           /\ (s.feed[e].status \in {"needs_review", "conflict"} \/ s.feed[e].product # p)
        THEN [s.feed[e] EXCEPT !.status = "resolved", !.product = p] ELSE s.feed[e]]
  OBVIOUS
<1>2. t = [s EXCEPT !.feed = F]
  BY <1>0, <1>1 DEF Relabel, Store
<1>3. ASSUME NEW y \in FeedRow
      PROVE  [y EXCEPT !.status = "resolved", !.product = p] = Restated(y, p, "resolved")
  BY DEF FeedRow, Restated
<1>4. ASSUME NEW e \in DOMAIN s.feed
      PROVE  /\ F[e] \in FeedRow /\ F[e].product \in {None} \cup DOMAIN s.products
             /\ F[e].status = "known" =>
                  s.feed[e].status = "known" /\ F[e].product = s.feed[e].product
             /\ F[e].status = "needs_review" => s.feed[e].status = "needs_review"
  <2>1. PICK y \in FeedRow : y = s.feed[e]
    BY <1>0
  <2>2. PICK x : x = Restated(y, p, "resolved")
    OBVIOUS
  <2>3. x \in FeedRow /\ x.product = p /\ x.status = "resolved"
    <3>1. p \in Nat \cup {None}
      BY <1>0
    <3> QED
      BY <2>2, <3>1, RestatedIs
  <2>4. F[e] = x \/ F[e] = y
    BY <1>1, <1>3, <2>1, <2>2
  <2> QED
    BY <1>0, <2>1, <2>3, <2>4
<1>5. F \in [DOMAIN s.feed -> FeedRow]
  BY <1>1, <1>4
<1> QED
  BY <1>2, <1>4, <1>5, FeedTakes

Mergeable(s, o, p) == o # None => o \in DOMAIN s.products /\ o # p

\* A decision for p, which is linked to or soon will be, brings no unit.
LEMMA CommitTakes ==
  ASSUME NEW s, NEW L, NEW N, Good(s, L, N), NEW c \in Codes, NEW p \in DOMAIN s.products,
         p \in L, NEW weak \in BOOLEAN, NEW orphan, Mergeable(s, orphan, p),
         NEW also, also.made \in SUBSET Codes, also.chosen \in SUBSET Codes,
         NEW t, t = Commit(s, c, p, weak, orphan, also)
  PROVE  Takes(s, t, c, L, N, 0) /\ p \in Named(t)
         /\ t.reviews[c].status = "resolved" /\ t.reviews[c].by = "human"
<1>1. PICK u1 : u1 = Learn(s, {c}, p, ~weak)
  OBVIOUS
<1>2. PICK u2 : u2 = Learn(u1, also.made, p, TRUE)
  OBVIOUS
<1>3. PICK u3 : u3 = LearnAll(u2, also.chosen, p)
  OBVIOUS
<1>4. PICK u4 : u4 = Settled(u3, c)
  OBVIOUS
<1>5. PICK u5 : u5 = Relabel(u4, c, p)
  OBVIOUS
<1>6. t = IF orphan = None THEN u5 ELSE Transfer(u5, orphan, p)
  BY <1>1, <1>2, <1>3, <1>4, <1>5 DEF Commit
<1>7. Takes(s, u1, c, L, N, 0) /\ OnlyAliases(s, u1) /\ p \in Named(u1)
  <2>1. PICK C : C = {c}
    OBVIOUS
  <2>2. PICK ok : ok = ~weak
    OBVIOUS
  <2>3. u1 = Learn(s, C, p, ok) /\ C \in SUBSET Codes /\ C # {}
    BY <1>1, <2>1, <2>2
  <2>4. ok \in BOOLEAN
    BY <2>2, Zenon
  <2> QED
    BY <2>3, <2>4, LearnTakes
<1>8. Good(u1, L, N) /\ p \in DOMAIN u1.products /\ u1.products = s.products
  BY <1>7 DEF Takes, OnlyAliases
<1>9. Takes(u1, u2, c, L, N, 0) /\ OnlyAliases(u1, u2)
  BY <1>2, <1>8, LearnTakes
<1>10. Good(u2, L, N) /\ p \in DOMAIN u2.products /\ u2.products = s.products
  BY <1>8, <1>9 DEF Takes, OnlyAliases
<1>11. Takes(u2, u3, c, L, N, 0) /\ OnlyAliases(u2, u3)
  BY <1>3, <1>10, LearnAllTakes
<1>12. Good(u3, L, N) /\ u3.products = s.products
  BY <1>10, <1>11 DEF Takes, OnlyAliases
<1>13. Takes(u3, u4, c, L, N, 0) /\ OnlyReviews(u3, u4)
       /\ u4.reviews[c].status = "resolved" /\ u4.reviews[c].by = "human"
  BY <1>4, <1>12, SettledTakes
<1>14. Good(u4, L, N) /\ p \in DOMAIN u4.products /\ u4.products = s.products
  BY <1>12, <1>13 DEF Takes, OnlyReviews
<1>15. Takes(u4, u5, c, L, N, 0) /\ u5.products = s.products /\ u5.reviews = u4.reviews
  BY <1>5, <1>14, RelabelTakes
<1>16. Good(u5, L, N)
  BY <1>15 DEF Takes
<1>17. Takes(u5, t, c, L, N, 0) /\ t.reviews = u5.reviews
  <2>1. CASE orphan = None
    BY <1>6, <1>16, <2>1, TakesNothing
  <2>2. CASE orphan # None
    <3>1. /\ orphan \in DOMAIN u5.products /\ p \in DOMAIN u5.products /\ orphan # p
          /\ Room(u5, L, p) /\ t = Transfer(u5, orphan, p)
      BY <1>6, <1>14, <1>15, <2>2 DEF Room, Mergeable
    <3>2. Takes(u5, t, c, L, N, 0)
      BY <1>16, <3>1, TransferTakes
    <3>3. t.reviews = u5.reviews
      BY <1>16, <3>1, TransferSound
    <3> QED
      BY <3>2, <3>3
  <2> QED
    BY <2>1, <2>2
<1>18. Takes(u4, t, c, L, N, 0)
  BY <1>14, <1>15, <1>17, TakesOn
<1>19. Takes(u3, t, c, L, N, 0)
  BY <1>12, <1>13, <1>18, TakesOn
<1>20. Takes(u2, t, c, L, N, 0)
  BY <1>10, <1>11, <1>19, TakesOn
<1>21. Takes(u1, t, c, L, N, 0)
  BY <1>8, <1>9, <1>20, TakesOn
<1>22. Takes(s, t, c, L, N, 0)
  BY <1>7, <1>21, TakesOn
<1>23. p \in Named(t)
  BY <1>7, <1>21 DEF Takes, Moves
<1> QED
  BY <1>13, <1>15, <1>17, <1>22, <1>23

-----------------------------------------------------------------------------
(* Scanning *)

LastPut(q, i, y) == [q EXCEPT ![i] = y]

LEMMA LastSet ==
  ASSUME NEW S, NEW q \in Seq(S), NEW x \in S, NEW y \in S
  PROVE  LastPut(Append(q, x), Len(q) + 1, y) = Append(q, y)
<1> DEFINE n == Len(q) + 1
           P == Append(q, x)
           Q == Append(q, y)
           R == [P EXCEPT ![n] = y]
<1>1. /\ P \in Seq(S) /\ DOMAIN P = DOMAIN q \cup {n} /\ \A i \in DOMAIN q : P[i] = q[i]
      /\ n \notin DOMAIN q
  BY SeqGrown
<1>2. /\ Q \in Seq(S) /\ DOMAIN Q = DOMAIN q \cup {n} /\ \A i \in DOMAIN q : Q[i] = q[i]
      /\ Q[n] = y
  BY SeqGrown
<1>3. P \in [DOMAIN P -> S] /\ Q \in [DOMAIN Q -> S]
  BY <1>1, <1>2, SeqFacts
<1> HIDE DEF P, Q, n
<1>4. R \in [DOMAIN P -> S] /\ \A i \in DOMAIN P : R[i] = IF i = n THEN y ELSE P[i]
  BY <1>3
<1> HIDE DEF R
<1>5. \A i \in DOMAIN P : R[i] = Q[i]
  BY <1>1, <1>2, <1>4
<1>6. R = Q
  BY <1>1, <1>2, <1>3, <1>4, <1>5
<1> QED
  BY <1>6 DEF R, P, Q, n, LastPut

LEMMA PlaceholderIs ==
  ASSUME NEW c \in Codes
  PROVE  LET x == Placeholder(c)
         IN /\ x \in Product /\ x.qty = 0 /\ x.events = {} /\ x.primary = c /\ x.codes = {c}
            /\ x.provisional = TRUE /\ x.verified = FALSE /\ x.gone = FALSE /\ x.name = "floor"
  BY DEF Product, Placeholder, Names

\* A row that is known at once is an open row counted at once.
Landed(s, c, p) == Increment(NewRow(s, c, p, "known", FALSE), p, Len(s.feed) + 1)
Opening(s, c) == NewRow(s, c, None, "needs_review", FALSE)

LEMMA LandedIs ==
  ASSUME NEW s \in Store, NEW c \in Codes, NEW p \in DOMAIN s.products,
         NEW u, u = Opening(s, c), NEW k, k = Len(s.feed) + 1
  PROVE  Landed(s, c, p) = CountRow(u, p, k)
<1>0. s.feed \in Seq(FeedRow) /\ Len(s.feed) \in Nat /\ p \in Nat
  BY StoreFields
<1> PICK b : b = FALSE
  OBVIOUS
<1>14. b \in BOOLEAN
  BY Zenon
<1>1. PICK x : x = [code |-> c, product |-> None, status |-> "needs_review", decoding |-> b]
  OBVIOUS
<1>2. PICK y : y = [code |-> c, product |-> p, status |-> "known", decoding |-> b]
  OBVIOUS
<1>3. x \in FeedRow /\ y \in FeedRow
  BY <1>0, <1>1, <1>2, <1>14 DEF FeedRow
<1>4. PICK F : F = Append(s.feed, x)
  OBVIOUS
<1>5. PICK G : G = Append(s.feed, y)
  OBVIOUS
<1>6. LastPut(F, k, y) = G
  BY <1>0, <1>3, <1>4, <1>5, LastSet
<1>7. F[k] = x /\ F \in Seq(FeedRow)
  BY <1>0, <1>3, <1>4, SeqGrown
<1>8. u = [s EXCEPT !.feed = F]
  BY <1>1, <1>4 DEF Opening, NewRow, Store
<1>9. NewRow(s, c, p, "known", FALSE) = [s EXCEPT !.feed = G]
  BY <1>2, <1>5 DEF NewRow, Store
<1>10. u \in Store /\ u.feed = F
  BY <1>7, <1>8, NewFeed
<1>11. y = Restated(x, p, "known")
  <2>1. PICK z : z = Restated(x, p, "known")
    OBVIOUS
  <2>2. p \in Nat \cup {None}
    BY <1>0
  <2>3. z \in FeedRow /\ z.product = p /\ z.status = "known" /\ z.code = x.code
        /\ z.decoding = x.decoding
    BY <1>3, <2>1, <2>2 DEF FeedRow, Restated
  <2>4. z.product = y.product /\ z.status = y.status /\ z.code = y.code
    BY <1>1, <1>2, <2>3
  <2>5. z.decoding = y.decoding
    BY <1>1, <1>2, <2>3
  <2>6. z = y
    BY <1>3, <2>3, <2>4, <2>5, SameRow
  <2> QED
    BY <2>1, <2>6
<1>12. [u EXCEPT !.feed[k].product = p, !.feed[k].status = "known"] = [u EXCEPT !.feed = G]
  <2>1. [u EXCEPT !.feed[k].product = p, !.feed[k].status = "known"]
          = [u EXCEPT !.feed = [u.feed EXCEPT ![k] = Restated(u.feed[k], p, "known")]]
    <3>1. RowRestated(u, k, p, "known") =
            [u EXCEPT !.feed = [u.feed EXCEPT ![k] = Restated(u.feed[k], p, "known")]]
      BY <1>10, RowRestatedIs
    <3> QED
      BY <3>1, Zenon DEF RowRestated
  <2>2. [u.feed EXCEPT ![k] = Restated(u.feed[k], p, "known")] = G
    BY <1>6, <1>7, <1>10, <1>11 DEF LastPut
  <2> QED
    BY <2>1, <2>2
<1>13. [u EXCEPT !.feed = G] = [s EXCEPT !.feed = G]
  BY <1>8 DEF Store
<1> QED
  BY <1>9, <1>12, <1>13 DEF Landed, CountRow

LEMMA LandedTakes ==
  ASSUME NEW s, NEW L, NEW N, Good(s, L, N), NEW c \in Codes, NEW p \in DOMAIN s.products,
         Room(s, L, p), NEW t, t = Landed(s, c, p)
  PROVE  Takes(s, t, c, L, N, 1)
<1>0. s \in Store
  BY DEF Good, Well
<1>1. PICK k : k = Len(s.feed) + 1
  OBVIOUS
<1>2. PICK u : u = Opening(s, c)
  OBVIOUS
<1>3. t = CountRow(u, p, k)
  BY <1>0, <1>1, <1>2, LandedIs
<1>4. Good(u, L, N) /\ RowJoins(s, u, k, c)
  BY <1>1, <1>2, NewRowSound DEF Opening
<1>5. Takes(s, u, c, L, N, 1)
  BY <1>2, NewRowTakes DEF Opening
<1>6. p \in DOMAIN u.products /\ Room(u, L, p) /\ k \in DOMAIN u.feed
  BY <1>4 DEF RowJoins, Room, Floating
<1>7. Extra(u, p, k) = 0
  BY <1>4 DEF RowJoins, Extra
<1>8. Takes(u, t, c, L, N, 0)
  BY <1>3, <1>4, <1>6, <1>7, CountRowTakes
<1>9. Takes(s, t, c, L, N, 1 + 0)
  BY <1>5, <1>8, TakesThen
<1> QED
  BY <1>9

\* What a code resolves to can be counted on.
LEMMA ResolvedRoom ==
  ASSUME NEW s, NEW L, NEW N, Good(s, L, N), Named(s) \subseteq L, NEW c, NEW p \in Resolved(s, c)
  PROVE  p \in DOMAIN s.products /\ Room(s, L, p)
<1>1. CASE \E a \in s.aliases : a.product = p
  BY <1>1 DEF Good, Well, Refs, Named, Room
<1>2. CASE p \in Live(s) /\ s.products[p].verified
  BY <1>2 DEF Good, Coded, Live, Room
<1> QED
  BY <1>1, <1>2 DEF Resolved

LEMMA OfferedTakes ==
  ASSUME NEW s, NEW L, NEW N, Good(s, L, N), NEW c \in Codes, NEW t, t = Offered(s, c)
  PROVE  Takes(s, t, c, L, N, 0) /\ OnlyReviews(s, t)
<1>0. /\ s.reviews[c] \in Review /\ s.reviews[c].provisional \in {None} \cup DOMAIN s.products
      /\ s \in Store /\ s.reviews \in [Codes -> Review]
  BY ReviewIs
<1>1. CASE t = s
  BY <1>0, <1>1, TakesNothing DEF OnlyReviews
<1>2. CASE t = [s EXCEPT !.reviews[c].offered = "pending"]
  <2>1. PICK y \in Review : y = s.reviews[c]
    BY <1>0
  <2>2. PICK r : r = [y EXCEPT !.offered = "pending"]
    OBVIOUS
  <2>3. r \in Review /\ r.provisional = y.provisional
    BY <2>2 DEF Review
  <2>4. t = Rewrite(s, c, r)
    BY <1>0, <1>2, <2>1, <2>2 DEF Rewrite, Store
  <2>5. r.provisional \in {None} \cup DOMAIN s.products
    BY <1>0, <2>1, <2>3
  <2>6. Takes(s, t, c, L, N, 0) /\ ReviewPut(s, t, c, r)
    BY <2>3, <2>4, <2>5, ReviewTakes
  <2> QED
    BY <2>6 DEF ReviewPut
<1> QED
  BY <1>1, <1>2 DEF Offered

\* A placeholder for c joins the others.
LEMMA FreshTakes ==
  ASSUME NEW s, NEW L, NEW N, Good(s, L, N), NEW c \in Codes,
         NEW t, t = Mint(s, Placeholder(c)), NEW h, h = Len(s.products) + 1
  PROVE  /\ Takes(s, t, c, L, N, 0) /\ Gains(s, t, Placeholder(c), h)
         /\ Carriers(s, c) = {} => Room(t, L, h)
<1>1. PICK x : x = Placeholder(c)
  OBVIOUS
<1>2. /\ x \in Product /\ x.qty = 0 /\ x.events = {} /\ x.primary = c /\ x.primary \in x.codes
      /\ ~x.verified /\ ~x.gone
  BY <1>1, PlaceholderIs
<1>3. Takes(s, t, c, L, N, 0)
  BY <1>1, <1>2, MintTakes
<1>4. Gains(s, t, x, h) /\ (Carriers(s, x.primary) = {} => Room(t, L, h))
  BY <1>1, <1>2, MintSound
<1> QED
  BY <1>1, <1>2, <1>3, <1>4

LEMMA UnknownScanTakes ==
  ASSUME NEW s, NEW L, NEW N, Good(s, L, N), NEW c \in Codes, NEW ask \in BOOLEAN,
         NEW t, t = UnknownScan(s, c, ask)
  PROVE  Takes(s, t, c, L, N, 1)
<1>1. PICK b : b = (ask /\ s.reviews[c].status # "open")
  OBVIOUS
<1>2. b \in BOOLEAN
  BY <1>1, Zenon
<1>3. PICK held : held = NewRow(s, c, None, "needs_review", b)
  OBVIOUS
<1>4. PICK fresh : fresh = Len(s.products) + 1
  OBVIOUS
<1>5. PICK k : k = Len(s.feed) + 1
  OBVIOUS
<1>6. PICK minted : minted = Mint(held, Placeholder(c))
  OBVIOUS
<1>7. PICK done : done = IF Carriers(s, c) # {} THEN held ELSE CountRow(minted, fresh, Len(held.feed))
  OBVIOUS
<1>8. Takes(s, held, c, L, N, 1)
  BY <1>2, <1>3, NewRowTakes
<1>9. Good(held, L, N) /\ RowJoins(s, held, k, c)
  BY <1>2, <1>3, <1>5, NewRowSound
<1>10. Takes(s, done, c, L, N, 1) /\ done.reviews = s.reviews
       /\ (Carriers(s, c) = {} => fresh \in DOMAIN done.products)
  <2>1. CASE Carriers(s, c) # {}
    BY <1>7, <1>8, <1>9, <2>1 DEF RowJoins
  <2>2. CASE Carriers(s, c) = {}
    <3>1. held.products = s.products /\ Len(held.feed) = k
      BY <1>9 DEF RowJoins
    <3>2. Carriers(held, c) = {}
      BY <2>2, <3>1 DEF Carriers, Counted, Live
    <3>3. /\ Takes(held, minted, c, L, N, 0) /\ Gains(held, minted, Placeholder(c), fresh)
          /\ Room(minted, L, fresh)
      BY <1>4, <1>6, <1>9, <3>1, <3>2, FreshTakes
    <3>4. Good(minted, L, N) /\ fresh \in DOMAIN minted.products /\ k \in DOMAIN minted.feed
          /\ minted.reviews = s.reviews /\ minted.feed[k].status = "needs_review"
      BY <1>9, <3>3 DEF Takes, Gains, RowJoins
    <3>5. Extra(minted, fresh, k) = 0
      BY <3>4 DEF Extra
    <3>6. done = CountRow(minted, fresh, k)
      BY <1>7, <2>2, <3>1
    <3>7. Takes(minted, done, c, L, N, 0)
      BY <3>3, <3>4, <3>5, <3>6, CountRowTakes
    <3>8. Takes(held, done, c, L, N, 0)
      BY <1>9, <3>3, <3>7, TakesOn
    <3>9. Takes(s, done, c, L, N, 1 + 0)
      BY <1>8, <3>8, TakesThen
    <3>10. minted \in Store
      BY <3>4 DEF Good, Well
    <3>11. done.reviews = minted.reviews /\ DOMAIN done.products = DOMAIN minted.products
      BY <3>4, <3>6, <3>10, CountRowPlaces DEF SamePlaces
    <3> QED
      BY <3>4, <3>9, <3>11
  <2> QED
    BY <2>1, <2>2
<1>11. Good(done, L, N)
  BY <1>10 DEF Takes
<1>12. /\ done.reviews[c] \in Review /\ done.reviews[c].provisional \in {None} \cup DOMAIN done.products
       /\ done \in Store /\ done.reviews \in [Codes -> Review]
  BY <1>11, ReviewIs
<1>13. PICK own : own = First({p \in Live(done) : done.products[p].provisional
                                                 /\ done.products[p].primary = c})
  OBVIOUS
<1>14. own \in {None} \cup DOMAIN done.products
  BY <1>12, <1>13, FirstOf DEF Live
<1>15. \A p \in DOMAIN done.products : p \in Nat
  BY <1>12, StoreFields
<1>16. PICK y \in Review : y = done.reviews[c]
  BY <1>12
<1>17. PICK r : r = IF y.status # "open"
                    THEN [NoReview EXCEPT !.status = "open", !.provisional = own]
                    ELSE IF Carriers(s, c) = {} /\ y.provisional = None
                    THEN [y EXCEPT !.provisional = fresh] ELSE y
  OBVIOUS
<1>18. r \in Review /\ r.provisional \in {None} \cup DOMAIN done.products
  <2>1. CASE r = [NoReview EXCEPT !.status = "open", !.provisional = own]
    BY <1>14, <1>15, <2>1 DEF NoReview, Review
  <2>2. CASE Carriers(s, c) = {} /\ r = [y EXCEPT !.provisional = fresh]
    <3>1. fresh \in DOMAIN done.products /\ fresh \in Nat
      BY <1>10, <1>15, <2>2
    <3> QED
      BY <2>2, <3>1 DEF Review
  <2>3. CASE r = y
    BY <1>12, <1>16, <2>3
  <2> QED
    BY <1>17, <2>1, <2>2, <2>3
<1>19. t = [done EXCEPT !.reviews[c] = r]
  <2> DEFINE Listed == NewRow(s, c, None, "needs_review", ask /\ s.reviews[c].status # "open")
             Fresh == Len(s.products) + 1
             OnBook == IF Carriers(s, c) # {} THEN Listed
                       ELSE CountRow(Mint(Listed, Placeholder(c)), Fresh, Len(Listed.feed))
             Minted(d) == First({p \in Live(d) : d.products[p].provisional
                                                 /\ d.products[p].primary = c})
             Entry(x, o, f) == IF x.status # "open"
                               THEN [NoReview EXCEPT !.status = "open", !.provisional = o]
                               ELSE IF Carriers(s, c) = {} /\ x.provisional = None
                               THEN [x EXCEPT !.provisional = f] ELSE x
  <2>1. t = [OnBook EXCEPT !.reviews[c] = Entry(s.reviews[c], Minted(OnBook), Fresh)]
    BY Zenon DEF UnknownScan
  <2>2. own = Minted(done) /\ r = Entry(y, own, fresh) /\ fresh = Fresh
    BY <1>4, <1>13, <1>17, Zenon
  <2> HIDE DEF Minted, Entry
  <2>3. held = Listed
    BY <1>1, <1>3, Zenon
  <2>4. done = OnBook
    BY <1>4, <1>6, <1>7, <2>3, Zenon
  <2>5. y = s.reviews[c]
    BY <1>10, <1>16
  <2> HIDE DEF OnBook, Fresh
  <2> QED
    BY <2>1, <2>2, <2>4, <2>5, Zenon
<1>20. t = Rewrite(done, c, r)
  BY <1>12, <1>19 DEF Rewrite, Store
<1>21. Takes(done, t, c, L, N, 0)
  BY <1>11, <1>18, <1>20, ReviewTakes
<1>22. Takes(s, t, c, L, N, 1 + 0)
  BY <1>10, <1>21, TakesThen
<1> QED
  BY <1>22

\* A scan brings one unit.
LEMMA ScanTakes ==
  ASSUME NEW s, NEW L, NEW N, Good(s, L, N), Named(s) \subseteq L, NEW c \in Codes,
         NEW ask \in BOOLEAN, NEW t, t = ScanOf(s, c, ask)
  PROVE  Takes(s, t, c, L, N, 1)
<1>1. CASE Cardinality(Resolved(s, c)) = 1
  <2>1. PICK p : p = CHOOSE x \in Resolved(s, c) : TRUE
    OBVIOUS
  <2>2. Resolved(s, c) # {}
    <3>1. ASSUME Resolved(s, c) = {} PROVE FALSE
      <4>1. Cardinality(Resolved(s, c)) = 0
        BY <3>1, FS_EmptySet
      <4> QED
        BY <1>1, <4>1
    <3> QED
      BY <3>1
  <2>3. p \in Resolved(s, c)
    BY <2>1, <2>2
  <2>4. p \in DOMAIN s.products /\ Room(s, L, p)
    BY <2>3, ResolvedRoom
  <2>5. t = Landed(s, c, p)
    BY <1>1, <2>1 DEF ScanOf, Landed
  <2> QED
    BY <2>4, <2>5, LandedTakes
<1>2. CASE Cardinality(Resolved(s, c)) # 1 /\ Bridge(s, c) # {}
  <2>1. PICK p : p = Min(Bridge(s, c))
    OBVIOUS
  <2>2. p \in Bridge(s, c)
    <3>1. Bridge(s, c) \in SUBSET DOMAIN s.products
      BY DEF Bridge, Carriers, Counted, Live
    <3>2. Bridge(s, c) \in SUBSET Nat
      BY <3>1, StoreFields DEF Good, Well
    <3> QED
      BY <1>2, <2>1, <3>2, MinOfSet
  <2>3. p \in DOMAIN s.products /\ Room(s, L, p)
    BY <2>2, RoomOn DEF Bridge, Carriers, Counted, Live
  <2>4. PICK u : u = Landed(s, c, p)
    OBVIOUS
  <2>5. t = Offered(u, c)
    BY <1>2, <2>1, <2>4 DEF ScanOf, Landed
  <2>6. Takes(s, u, c, L, N, 1)
    BY <2>3, <2>4, LandedTakes
  <2>7. Takes(u, t, c, L, N, 0)
    BY <2>5, <2>6, OfferedTakes DEF Takes
  <2>8. Takes(s, t, c, L, N, 1 + 0)
    BY <2>6, <2>7, TakesThen
  <2> QED
    BY <2>8
<1>3. CASE Cardinality(Resolved(s, c)) # 1 /\ Bridge(s, c) = {}
  <2>1. PICK u : u = Offered(s, c)
    OBVIOUS
  <2>2. t = UnknownScan(u, c, ask)
    BY <1>3, <2>1 DEF ScanOf
  <2>3. Takes(s, u, c, L, N, 0)
    BY <2>1, OfferedTakes
  <2>4. Takes(u, t, c, L, N, 1)
    BY <2>2, <2>3, UnknownScanTakes DEF Takes
  <2> QED
    BY <2>3, <2>4, TakesOn
<1> QED
  BY <1>1, <1>2, <1>3

-----------------------------------------------------------------------------
(* Decisions: from a sound store to a sound store *)

\* At most k units more, and the placeholders nothing is linked to still apart.
Brings(s, t, c, N, k) ==
  Good(t, Named(t), N) /\ Weight(t) <= Weight(s) + k /\ Moves(s, t, c)

LEMMA TakenBrings ==
  ASSUME NEW s, NEW t, NEW c, NEW N, NEW P, P \subseteq Named(t), NEW k,
         Takes(s, t, c, Named(s) \cup P, N, k)
  PROVE  Brings(s, t, c, N, k)
<1>1. Named(s) \cup P \subseteq Named(t)
  BY DEF Takes, Moves
<1>2. Good(t, Named(t), N)
  BY <1>1, GoodWiden DEF Takes
<1> QED
  BY <1>2 DEF Takes, Brings

LEMMA BringsThen ==
  ASSUME NEW s, NEW u, NEW t, NEW c, NEW N, NEW K, NEW M, Good(s, K, M), NEW j \in Nat, NEW k \in Nat,
         Brings(s, u, c, N, j), Brings(u, t, c, N, k)
  PROVE  Brings(s, t, c, N, j + k)
<1>1. Weight(s) \in Nat /\ Weight(u) \in Nat /\ Weight(t) \in Nat
  BY WeightType DEF Brings
<1>2. Weight(t) <= Weight(s) + (j + k)
  <2>1. PICK a, b, d \in Nat : a = Weight(s) /\ b = Weight(u) /\ d = Weight(t)
    BY <1>1
  <2>2. b <= a + j /\ d <= b + k
    BY <2>1 DEF Brings
  <2> QED
    BY <2>1, <2>2
<1>3. Moves(s, t, c)
  BY DEF Brings, Moves
<1> QED
  BY <1>2, <1>3 DEF Brings

LEMMA BringsNothing ==
  ASSUME NEW s, NEW c, NEW N, Good(s, Named(s), N)
  PROVE  Brings(s, s, c, N, 0)
BY WeightType DEF Brings, Moves

\* What a product may be confirmed as.
Identities == [name : {"guess", "backed", "human"}, codes : SUBSET Codes]

LEMMA ConfirmTakes ==
  ASSUME NEW s, NEW L, NEW N, Good(s, L, N), NEW c, NEW p \in DOMAIN s.products, p \in L,
         NEW named \in Identities, NEW weak \in BOOLEAN,
         ~weak => named.name \in {"human", "backed"},
         NEW t, t = Confirm(s, p, named, weak)
  PROVE  /\ Takes(s, t, c, L, N, 0) /\ OnlyProducts(s, t)
         /\ t.products[p].verified = ~weak
<1>0. s \in Store /\ s.products \in Seq(Product)
  BY StoreFields DEF Good, Well
<1>1. PICK y \in Product : y = s.products[p]
  BY <1>0, StoreFields
<1>2. PICK b : b = ~weak
  OBVIOUS
<1>3. b \in BOOLEAN
  BY <1>2, Zenon
<1>4. PICK x : x = [y EXCEPT !.verified = b, !.provisional = weak, !.name = named.name,
                             !.codes = y.codes \cup named.codes]
  OBVIOUS
<1>5. /\ x \in Product /\ x.qty = y.qty /\ x.events = y.events /\ x.primary = y.primary
      /\ x.gone = y.gone /\ y.codes \subseteq x.codes /\ x.provisional = weak /\ x.verified = b
      /\ x.name = named.name
  <2>1. /\ named.name \in Names /\ named.codes \in SUBSET Codes
    BY DEF Identities, Names
  <2>2. y.codes \cup named.codes \in SUBSET Codes
    BY <2>1 DEF Product
  <2> QED
    BY <1>3, <1>4, <2>1, <2>2 DEF Product
<1>6. ProductPut(s, t, p, x)
  <2>1. PICK u1 : u1 = [s EXCEPT !.products[p].verified = b]
    OBVIOUS
  <2>2. PICK u2 : u2 = [u1 EXCEPT !.products[p].provisional = weak]
    OBVIOUS
  <2>3. PICK u3 : u3 = [u2 EXCEPT !.products[p].name = named.name]
    OBVIOUS
  <2>4. PICK u4 : u4 = [u3 EXCEPT !.products[p].codes = @ \cup named.codes]
    OBVIOUS
  <2>5. t = u4
    <3>1. t = [s EXCEPT !.products[p].verified = b, !.products[p].provisional = weak,
                        !.products[p].name = named.name, !.products[p].codes = @ \cup named.codes]
      BY <1>2, Zenon DEF Confirm
    <3>2. PICK n, C : n = named.name /\ C = named.codes
      OBVIOUS
    <3>3. t = [s EXCEPT !.products[p].verified = b, !.products[p].provisional = weak,
                        !.products[p].name = n, !.products[p].codes = @ \cup C]
      BY <3>1, <3>2
    <3> QED
      BY <1>0, <2>1, <2>2, <2>3, <2>4, <3>2, <3>3 DEF Store
  <2>6. PICK y1 : y1 = [y EXCEPT !.verified = b]
    OBVIOUS
  <2>7. PICK y2 : y2 = [y1 EXCEPT !.provisional = weak]
    OBVIOUS
  <2>8. PICK y3 : y3 = [y2 EXCEPT !.name = named.name]
    OBVIOUS
  <2>9. PICK y4 : y4 = [y3 EXCEPT !.codes = @ \cup named.codes]
    OBVIOUS
  <2>10. y1 \in Product
    BY <1>3, <2>6 DEF Product
  <2>11. y2 \in Product
    BY <2>7, <2>10 DEF Product
  <2>12. y3 \in Product
    BY <2>8, <2>11 DEF Product, Identities, Names
  <2>13. y4 \in Product
    BY <2>9, <2>12 DEF Product, Identities
  <2>14. y4 = x
    BY <1>4, <2>6, <2>7, <2>8, <2>9 DEF Product
  <2>15. ProductPut(s, u1, p, y1)
    <3>1. u1 = [s EXCEPT !.products = [s.products EXCEPT ![p] = y1]]
      BY <1>0, <1>1, <2>1, <2>6 DEF Store
    <3> QED
      BY <1>0, <2>10, <3>1, OneProduct
  <2>16. ProductPut(u1, u2, p, y2)
    <3>1. u1 \in Store /\ p \in DOMAIN u1.products /\ u1.products[p] = y1
      BY <2>15 DEF ProductPut, OnlyProducts
    <3>2. u2 = [u1 EXCEPT !.products = [u1.products EXCEPT ![p] = y2]]
      BY <3>1, <2>2, <2>7 DEF Store
    <3> QED
      BY <2>11, <3>1, <3>2, OneProduct
  <2>17. ProductPut(u2, u3, p, y3)
    <3>1. u2 \in Store /\ p \in DOMAIN u2.products /\ u2.products[p] = y2
      BY <2>15, <2>16 DEF ProductPut, OnlyProducts
    <3>2. u3 = [u2 EXCEPT !.products = [u2.products EXCEPT ![p] = y3]]
      BY <3>1, <2>3, <2>8 DEF Store
    <3> QED
      BY <2>12, <3>1, <3>2, OneProduct
  <2>18. ProductPut(u3, u4, p, y4)
    <3>1. u3 \in Store /\ p \in DOMAIN u3.products /\ u3.products[p] = y3
      BY <2>15, <2>16, <2>17 DEF ProductPut, OnlyProducts
    <3>2. u4 = [u3 EXCEPT !.products = [u3.products EXCEPT ![p] = y4]]
      BY <3>1, <2>4, <2>9 DEF Store
    <3> QED
      BY <2>13, <3>1, <3>2, OneProduct
  <2>19. ProductPut(s, u2, p, y2)
    BY <2>15, <2>16, PutTwice
  <2>20. ProductPut(s, u3, p, y3)
    BY <2>17, <2>19, PutTwice
  <2>21. ProductPut(s, u4, p, y4)
    BY <2>18, <2>20, PutTwice
  <2> QED
    BY <2>5, <2>14, <2>21
<1>7. /\ x.provisional => y.provisional \/ p \in L
      /\ x.verified => ~x.provisional
      /\ x.verified => x.name \in {"human", "backed"} \/ p \in N
  <2>1. x.verified <=> ~x.provisional
    BY <1>2, <1>5, Zenon
  <2>2. x.provisional <=> weak
    BY <1>5, Zenon
  <2> QED
    BY <1>5, <2>1, <2>2
<1>8. Takes(s, t, c, L, N, 0)
  BY <1>1, <1>5, <1>6, <1>7, PersonTakes
<1> QED
  BY <1>2, <1>5, <1>6, <1>8, Zenon DEF ProductPut

LEMMA OrphanIs ==
  ASSUME NEW s \in Store, NEW c
  PROVE  Orphan(s, c) \in {None} \cup Counted(s) /\ Counted(s) \subseteq DOMAIN s.products
<1>1. Bridge(s, c) \subseteq Counted(s) /\ Counted(s) \subseteq DOMAIN s.products
  BY DEF Bridge, Carriers, Counted, Live
<1>2. First(Bridge(s, c)) \in {None} \cup Counted(s)
  BY <1>1, FirstOf
<1> QED
  BY <1>1, <1>2 DEF Orphan

LEMMA ConflictedTakes ==
  ASSUME NEW s, NEW L, NEW N, Good(s, L, N), NEW c, NEW o, NEW t, t = Conflicted(s, o)
  PROVE  Takes(s, t, c, L, N, 0)
<1>0. /\ s \in Store /\ \A e \in DOMAIN s.feed : s.feed[e] \in FeedRow
      /\ \A e \in DOMAIN s.feed : s.feed[e].product \in {None} \cup DOMAIN s.products
  BY StoreFields DEF Good, Well, Refs
<1>1. PICK F : F = [e \in DOMAIN s.feed |->
        IF o # None /\ s.feed[e].product = o
        THEN [s.feed[e] EXCEPT !.status = "conflict", !.decoding = FALSE] ELSE s.feed[e]]
  OBVIOUS
<1>2. t = [s EXCEPT !.feed = F]
  BY <1>0, <1>1 DEF Conflicted, Store
<1>3. ASSUME NEW y \in FeedRow, NEW x, x = [y EXCEPT !.status = "conflict", !.decoding = FALSE]
      PROVE  x \in FeedRow /\ x.product = y.product /\ x.status = "conflict"
  BY <1>3 DEF FeedRow
<1>4. ASSUME NEW e \in DOMAIN s.feed
      PROVE  /\ F[e] \in FeedRow /\ F[e].product \in {None} \cup DOMAIN s.products
             /\ F[e].status = "known" =>
                  s.feed[e].status = "known" /\ F[e].product = s.feed[e].product
             /\ F[e].status = "needs_review" => s.feed[e].status = "needs_review"
  <2>1. PICK y \in FeedRow : y = s.feed[e]
    BY <1>0
  <2>2. PICK x : x = [y EXCEPT !.status = "conflict", !.decoding = FALSE]
    OBVIOUS
  <2>3. x \in FeedRow /\ x.product = y.product /\ x.status = "conflict"
    BY <1>3, <2>2
  <2>4. F[e] = x \/ F[e] = y
    BY <1>1, <2>1, <2>2
  <2> QED
    BY <1>0, <2>1, <2>3, <2>4
<1>5. F \in [DOMAIN s.feed -> FeedRow]
  BY <1>1, <1>4
<1> QED
  BY <1>2, <1>4, <1>5, FeedTakes

\* A decision for a product there is.
Joining(s, p, named, waits, weak) ==
  IF waits /\ ~weak THEN Confirm(s, p, [named EXCEPT !.codes = {}], FALSE) ELSE s

LEMMA JoinBrings ==
  ASSUME NEW s, NEW N, Good(s, Named(s), N), NEW c \in Codes, NEW named \in Identities,
         NEW human \in BOOLEAN, human => named.name = "human", NEW p \in DOMAIN s.products,
         NEW orphan, Mergeable(s, orphan, p),
         NEW also, also.made \in SUBSET Codes, also.chosen \in SUBSET Codes,
         NEW waits \in BOOLEAN, NEW weak \in BOOLEAN, weak <=> waits /\ Weak(named, human),
         NEW ready, ready = Joining(s, p, named, waits, weak),
         NEW t, t = Commit(ready, c, p, weak, orphan, also)
  PROVE  Brings(s, t, c, N, 0)
<1>1. PICK L : L = Named(s) \cup {p}
  OBVIOUS
<1>2. Good(s, L, N)
  BY <1>1, GoodWiden
<1>3. Takes(s, ready, c, L, N, 0) /\ DOMAIN ready.products = DOMAIN s.products
  <2>1. CASE waits /\ ~weak
    <3>1. PICK m : m = [named EXCEPT !.codes = {}]
      OBVIOUS
    <3>2. m \in Identities /\ m.name = named.name
      BY <3>1 DEF Identities
    <3>3. named.name \in {"human", "backed"}
      BY <2>1 DEF Identities, Weak
    <3>4. PICK no \in BOOLEAN : no = FALSE
      OBVIOUS
    <3>5. ready = Confirm(s, p, m, no)
      BY <2>1, <3>1, <3>4, Zenon DEF Joining
    <3>6. p \in L /\ m.name \in {"human", "backed"}
      BY <1>1, <3>2, <3>3
    <3>7. Takes(s, ready, c, L, N, 0) /\ OnlyProducts(s, ready)
      BY <1>2, <3>2, <3>5, <3>6, ConfirmTakes
    <3> QED
      BY <3>7 DEF OnlyProducts
  <2>2. CASE ~(waits /\ ~weak)
    <3>1. ready = s
      BY <2>2, Zenon DEF Joining
    <3> QED
      BY <1>2, <3>1, TakesNothing
  <2> QED
    BY <2>1, <2>2
<1>4. Good(ready, L, N) /\ p \in L /\ p \in DOMAIN ready.products
      /\ Mergeable(ready, orphan, p)
  BY <1>1, <1>3 DEF Takes, Mergeable
<1>5. Takes(ready, t, c, L, N, 0) /\ p \in Named(t)
  BY <1>4, CommitTakes
<1>6. Takes(s, t, c, L, N, 0)
  BY <1>2, <1>3, <1>5, TakesOn
<1> QED
  BY <1>1, <1>5, <1>6, TakenBrings

\* A decision for the placeholder that has the count.
Owning(s, c, p, named, weak) == Confirm(s, p, [named EXCEPT !.codes = @ \cup {c}], weak)
Besides(s, c, p, chosen) == [made |-> s.products[p].codes \ {c}, chosen |-> chosen]

LEMMA OwnBrings ==
  ASSUME NEW s, NEW N, Good(s, Named(s), N), NEW c \in Codes, NEW named \in Identities,
         NEW p \in DOMAIN s.products, NEW chosen \in SUBSET Codes,
         NEW weak \in BOOLEAN, ~weak => named.name \in {"human", "backed"},
         NEW ready, ready = Owning(s, c, p, named, weak),
         NEW also, also = Besides(ready, c, p, chosen),
         NEW t, t = Commit(ready, c, p, weak, None, also)
  PROVE  Brings(s, t, c, N, 0)
<1>1. PICK L : L = Named(s) \cup {p}
  OBVIOUS
<1>2. Good(s, L, N)
  BY <1>1, GoodWiden
<1>3. PICK m : m = [named EXCEPT !.codes = @ \cup {c}]
  OBVIOUS
<1>4. m \in Identities /\ m.name = named.name
  BY <1>3 DEF Identities
<1>5. Takes(s, ready, c, L, N, 0) /\ OnlyProducts(s, ready)
  <2>1. ready = Confirm(s, p, m, weak)
    BY <1>3 DEF Owning
  <2>2. p \in L /\ (~weak => m.name \in {"human", "backed"})
    BY <1>1, <1>4
  <2> QED
    BY <1>2, <1>4, <2>1, <2>2, ConfirmTakes
<1>6. Good(ready, L, N) /\ p \in L /\ p \in DOMAIN ready.products
  BY <1>1, <1>5 DEF Takes, OnlyProducts
<1>7. also.made \in SUBSET Codes /\ also.chosen \in SUBSET Codes
  <2>1. ready.products[p] \in Product
    BY <1>6, StoreFields DEF Good, Well
  <2>2. ready.products[p].codes \in SUBSET Codes
    BY <2>1 DEF Product
  <2> QED
    BY <2>2 DEF Besides
<1>8. Mergeable(ready, None, p)
  BY DEF Mergeable
<1>9. Takes(ready, t, c, L, N, 0) /\ p \in Named(t)
  BY <1>6, <1>7, <1>8, CommitTakes
<1>10. Takes(s, t, c, L, N, 0)
  BY <1>2, <1>5, <1>9, TakesOn
<1> QED
  BY <1>1, <1>9, <1>10, TakenBrings

\* A decision for a product made for it.
Naming(s, c, h, named, weak) ==
  [Confirm(Mint(s, Placeholder(c)), h, named, weak) EXCEPT !.products[h].provisional = FALSE]

LEMMA NewBrings ==
  ASSUME NEW s, NEW N, Good(s, Named(s), N), NEW c \in Codes, NEW named \in Identities,
         NEW chosen \in SUBSET Codes,
         NEW weak \in BOOLEAN, ~weak => named.name \in {"human", "backed"},
         NEW h, h = Len(s.products) + 1, NEW minted, minted = Naming(s, c, h, named, weak),
         NEW also, also = Besides(minted, c, Len(minted.products), chosen),
         NEW t, t = Commit(minted, c, Len(minted.products), weak, None, also)
  PROVE  Brings(s, t, c, N, 0)
<1>1. PICK L : L = Named(s) \cup {h}
  OBVIOUS
<1>2. Good(s, L, N)
  BY <1>1, GoodWiden
<1>3. PICK u : u = Mint(s, Placeholder(c))
  OBVIOUS
<1>4. Takes(s, u, c, L, N, 0) /\ Gains(s, u, Placeholder(c), h)
  BY <1>2, <1>3, FreshTakes
<1>5. Good(u, L, N) /\ h \in DOMAIN u.products /\ Len(u.products) = h /\ h \in L
  BY <1>1, <1>4 DEF Takes, Gains
<1>6. PICK v : v = Confirm(u, h, named, weak)
  OBVIOUS
<1>7. Takes(u, v, c, L, N, 0) /\ OnlyProducts(u, v)
  BY <1>5, <1>6, ConfirmTakes
<1>8. /\ Good(v, L, N) /\ h \in DOMAIN v.products /\ Len(v.products) = h
      /\ v \in Store /\ v.products[h] \in Product
  <2>1. Good(v, L, N) /\ h \in DOMAIN v.products /\ Len(v.products) = h /\ v \in Store
    BY <1>5, <1>7 DEF Takes, OnlyProducts
  <2> QED
    BY <2>1, StoreFields
<1>9. PICK y \in Product : y = v.products[h]
  BY <1>8
<1>10. PICK x : x = [y EXCEPT !.provisional = FALSE]
  OBVIOUS
<1>11. /\ x \in Product /\ x.qty = y.qty /\ x.events = y.events /\ x.primary = y.primary
       /\ x.gone = y.gone /\ x.codes = y.codes /\ x.name = y.name /\ x.verified = y.verified
       /\ x.provisional = FALSE
  BY <1>10 DEF Product
<1>12. minted = [v EXCEPT !.products = [v.products EXCEPT ![h] = x]]
  <2>1. minted = [v EXCEPT !.products[h].provisional = FALSE]
    BY <1>3, <1>6 DEF Naming
  <2> QED
    BY <1>8, <1>9, <1>10, <2>1 DEF Store
<1>13. ProductPut(v, minted, h, x)
  BY <1>8, <1>11, <1>12, OneProduct
<1>14. Takes(v, minted, c, L, N, 0)
  <2>1. y.verified => y.name \in {"human", "backed"} \/ h \in N
    BY <1>8, <1>9 DEF Good, Identity
  <2>2. ~x.provisional
    BY <1>11
  <2>3. x.verified => x.name \in {"human", "backed"} \/ h \in N
    BY <1>11, <2>1
  <2>4. y.codes \subseteq x.codes
    BY <1>11
  <2> QED
    BY <1>8, <1>9, <1>11, <1>13, <2>2, <2>3, <2>4, PersonTakes
<1>15. Good(minted, L, N) /\ h \in DOMAIN minted.products /\ Len(minted.products) = h
  BY <1>8, <1>13, <1>14 DEF Takes, ProductPut, OnlyProducts
<1>16. also.made \in SUBSET Codes /\ also.chosen \in SUBSET Codes
  <2>1. minted.products[h] \in Product
    BY <1>15, StoreFields DEF Good, Well
  <2>2. minted.products[h].codes \in SUBSET Codes
    BY <2>1 DEF Product
  <2> QED
    BY <1>15, <2>2 DEF Besides
<1>17. t = Commit(minted, c, h, weak, None, also) /\ Mergeable(minted, None, h)
  BY <1>15 DEF Mergeable
<1>18. Takes(minted, t, c, L, N, 0) /\ h \in Named(t)
  BY <1>5, <1>15, <1>16, <1>17, CommitTakes
<1>19. Takes(v, t, c, L, N, 0)
  BY <1>8, <1>14, <1>18, TakesOn
<1>20. Takes(u, t, c, L, N, 0)
  BY <1>5, <1>7, <1>19, TakesOn
<1>21. Takes(s, t, c, L, N, 0)
  BY <1>2, <1>4, <1>20, TakesOn
<1> QED
  BY <1>1, <1>18, <1>21, TakenBrings

\* What create_new and link_existing come to.
Results == [store : Store, held : BOOLEAN, rescan : BOOLEAN]

LEMMA HeldIs ==
  ASSUME NEW s \in Store
  PROVE  Held(s) \in Results /\ Held(s).store = s
BY DEF Held, Results

LEMMA DoneIs ==
  ASSUME NEW s \in Store, NEW b \in BOOLEAN
  PROVE  Done(s, b) \in Results /\ Done(s, b).store = s
BY DEF Done, Results

\* Action create_new brings no unit.
LEMMA CreateNewBrings ==
  ASSUME NEW s, NEW N, Good(s, Named(s), N), NEW c \in Codes, NEW named \in Identities,
         NEW human \in BOOLEAN, human => named.name = "human", NEW alike \in BOOLEAN,
         NEW chosen \in SUBSET Codes, NEW r, r = CreateNew(s, c, named, human, alike, chosen)
  PROVE  Brings(s, r.store, c, N, 0) /\ r \in Results
<1> DEFINE orphan == Orphan(s, c)
           mine == {c} \cup named.codes
           owners == ((UNION {Resolved(s, x) : x \in mine}) \cup
                      {p \in Counted(s) : s.products[p].codes \cap mine # {}}) \ {orphan}
           real == {p \in Live(s) \ {orphan} : ~s.products[p].provisional}
           twin == First({p \in real : s.products[p].codes \cap named.codes # {}})
           targets == IF owners = {} /\ twin # None THEN {twin} ELSE owners
           p == CHOOSE t \in targets : TRUE
           waits == p \in Live(s) /\ s.products[p].provisional
           weak == waits /\ Weak(named, human)
           chose == IF p \in Live(s) THEN chosen ELSE {}
           h == Len(s.products) + 1
           alone == Weak(named, human)
           fresh == Weak(named, FALSE)
           joined == Commit(Joining(s, p, named, waits, weak), c, p, weak, orphan,
                            [made |-> {}, chosen |-> chose])
           owned == Commit(Owning(s, c, orphan, named, alone), c, orphan, alone, None,
                           Besides(Owning(s, c, orphan, named, alone), c, orphan, chosen))
           minted == Naming(s, c, h, named, fresh)
           made == Commit(minted, c, Len(minted.products), fresh, None,
                          Besides(minted, c, Len(minted.products), chosen))
<1>1. r = IF targets = {} /\ alike /\ real # {} THEN Held(s)
          ELSE IF Cardinality(targets) > 1 THEN Held(Conflicted(s, orphan))
          ELSE IF targets # {} THEN Done(joined, orphan = None /\ ~waits)
          ELSE IF orphan # None THEN Done(owned, FALSE)
          ELSE Done(made, ~fresh)
  BY Zenon DEF CreateNew, Joining, Owning, Besides, Naming
<1>2. s \in Store
  BY DEF Good, Well
<1>3. orphan \in {None} \cup Counted(s) /\ Counted(s) \subseteq DOMAIN s.products
  BY <1>2, OrphanIs
<1>4. targets \subseteq DOMAIN s.products \ {orphan}
  <2>1. real \subseteq DOMAIN s.products \ {orphan}
    BY DEF Live
  <2>2. twin # None => twin \in real
    <3>1. {x \in real : s.products[x].codes \cap named.codes # {}} \in SUBSET DOMAIN s.products
      BY <2>1
    <3> HIDE DEF real
    <3> QED
      BY <1>2, <3>1, FirstOf
  <2>3. \A x : \A q \in Resolved(s, x) : q \in DOMAIN s.products
    BY ResolvedRoom
  <2>4. owners \subseteq DOMAIN s.products \ {orphan}
    <3> HIDE DEF orphan, mine
    <3> SUFFICES ASSUME NEW q \in owners PROVE q \in DOMAIN s.products \ {orphan}
      OBVIOUS
    <3>1. q # orphan /\ (q \in Counted(s) \/ \E x \in mine : q \in Resolved(s, x))
      OBVIOUS
    <3> QED
      BY <1>3, <2>3, <3>1
  <2> HIDE DEF owners, twin, real, orphan
  <2> QED
    BY <2>1, <2>2, <2>4
<1>5. alone \in BOOLEAN /\ (~alone => named.name \in {"human", "backed"})
  BY DEF Weak, Identities
<1>6. fresh \in BOOLEAN /\ (~fresh => named.name \in {"human", "backed"})
  BY DEF Weak, Identities
<1>7. waits \in BOOLEAN /\ weak \in BOOLEAN /\ (weak <=> waits /\ Weak(named, human))
  BY Zenon
<1> HIDE DEF targets, owners, real, twin, orphan, mine, waits, weak, alone, fresh, chose, minted
<1>8. CASE r = Held(s)
  BY <1>2, <1>8, HeldIs, BringsNothing
<1>9. CASE r = Held(Conflicted(s, orphan))
  <2>1. PICK t : t = Conflicted(s, orphan)
    OBVIOUS
  <2>2. Takes(s, t, c, Named(s), N, 0)
    BY <2>1, ConflictedTakes
  <2>3. {} \subseteq Named(t) /\ Named(s) \cup {} = Named(s)
    OBVIOUS
  <2>4. Brings(s, t, c, N, 0)
    BY <2>2, <2>3, TakenBrings
  <2>5. t \in Store
    BY <2>4 DEF Brings, Good, Well
  <2> QED
    BY <1>9, <2>1, <2>4, <2>5, HeldIs
<1>10. CASE targets # {} /\ r = Done(joined, orphan = None /\ ~waits)
  <2>1. p \in targets
    BY <1>10
  <2>2. p \in DOMAIN s.products /\ Mergeable(s, orphan, p)
    BY <1>3, <1>4, <2>1 DEF Mergeable
  <2> HIDE DEF p
  <2>3. PICK also : also = [made |-> {}, chosen |-> chose]
    OBVIOUS
  <2>4. also.made \in SUBSET Codes /\ also.chosen \in SUBSET Codes
    BY <2>3 DEF chose
  <2>5. PICK ready : ready = Joining(s, p, named, waits, weak)
    OBVIOUS
  <2>6. joined = Commit(ready, c, p, weak, orphan, also)
    BY <2>3, <2>5
  <2> HIDE DEF joined
  <2>7. Brings(s, joined, c, N, 0)
    BY <1>7, <2>2, <2>4, <2>5, <2>6, JoinBrings
  <2>8. PICK b : b = (orphan = None /\ ~waits)
    OBVIOUS
  <2>9. b \in BOOLEAN
    BY <2>8, Zenon
  <2>10. joined \in Store
    BY <2>7 DEF Brings, Good, Well
  <2>11. r = Done(joined, b)
    BY <1>10, <2>8, Zenon
  <2> QED
    BY <2>7, <2>9, <2>10, <2>11, DoneIs
<1>11. CASE orphan # None /\ r = Done(owned, FALSE)
  <2>1. orphan \in DOMAIN s.products
    BY <1>3, <1>11
  <2>2. PICK ready : ready = Owning(s, c, orphan, named, alone)
    OBVIOUS
  <2>3. PICK also : also = Besides(ready, c, orphan, chosen)
    OBVIOUS
  <2>4. owned = Commit(ready, c, orphan, alone, None, also)
    BY <2>2, <2>3
  <2> HIDE DEF owned
  <2>5. Brings(s, owned, c, N, 0)
    BY <1>5, <2>1, <2>2, <2>3, <2>4, OwnBrings
  <2>6. owned \in Store
    BY <2>5 DEF Brings, Good, Well
  <2>7. PICK b \in BOOLEAN : b = FALSE
    OBVIOUS
  <2>8. r = Done(owned, b)
    BY <1>11, <2>7, Zenon
  <2> QED
    BY <2>5, <2>6, <2>8, DoneIs
<1>12. CASE r = Done(made, ~fresh)
  <2>1. PICK also : also = Besides(minted, c, Len(minted.products), chosen)
    OBVIOUS
  <2>2. made = Commit(minted, c, Len(minted.products), fresh, None, also)
    BY <2>1
  <2>3. minted = Naming(s, c, h, named, fresh)
    BY DEF minted
  <2> HIDE DEF made
  <2>4. Brings(s, made, c, N, 0)
    BY <1>6, <2>1, <2>2, <2>3, NewBrings
  <2>5. made \in Store
    BY <2>4 DEF Brings, Good, Well
  <2>6. PICK b : b = ~fresh
    OBVIOUS
  <2>7. b \in BOOLEAN
    BY <2>6, Zenon
  <2>8. r = Done(made, b)
    BY <1>12, <2>6, Zenon
  <2> QED
    BY <2>4, <2>5, <2>7, <2>8, DoneIs
<1> HIDE DEF p, joined, owned, made
<1> QED
  BY <1>1, <1>8, <1>9, <1>10, <1>11, <1>12, Zenon

\* Action link_existing brings no unit.
LEMMA LinkBrings ==
  ASSUME NEW s, NEW N, Good(s, Named(s), N), NEW c \in Codes, NEW p \in DOMAIN s.products,
         NEW r, r = LinkTo(s, c, p)
  PROVE  Brings(s, r.store, c, N, 0) /\ r \in Results
<1>1. PICK L : L = Named(s) \cup {p}
  OBVIOUS
<1>2. Good(s, L, N) /\ p \in L /\ s \in Store
  BY <1>1, GoodWiden DEF Good, Well
<1>3. PICK orphan : orphan = IF Orphan(s, c) = p THEN None ELSE Orphan(s, c)
  OBVIOUS
<1>4. Mergeable(s, orphan, p)
  BY <1>2, <1>3, OrphanIs DEF Mergeable
<1>5. PICK also : also = [made |-> {}, chosen |-> {}]
  OBVIOUS
<1>6. also.made \in SUBSET Codes /\ also.chosen \in SUBSET Codes
  BY <1>5
<1>7. PICK no \in BOOLEAN : no = FALSE
  OBVIOUS
<1>8. PICK t : t = Commit(s, c, p, no, orphan, also)
  OBVIOUS
<1>9. Takes(s, t, c, L, N, 0) /\ p \in Named(t)
  BY <1>2, <1>4, <1>6, <1>8, CommitTakes
<1>10. Brings(s, t, c, N, 0)
  BY <1>1, <1>9, TakenBrings
<1>11. PICK b : b = (orphan = None)
  OBVIOUS
<1>12. b \in BOOLEAN
  BY <1>11, Zenon
<1>13. r = Done(t, b)
  BY <1>3, <1>5, <1>7, <1>8, <1>11, Zenon DEF LinkTo
<1>14. t \in Store
  BY <1>10 DEF Brings, Good, Well
<1> QED
  BY <1>10, <1>12, <1>13, <1>14, DoneIs

LEMMA ReviewBrings ==
  ASSUME NEW s, NEW N, Good(s, Named(s), N), NEW c \in Codes, NEW r \in Review,
         r.provisional \in {None} \cup DOMAIN s.products, NEW t, t = Rewrite(s, c, r)
  PROVE  Brings(s, t, c, N, 0) /\ ReviewPut(s, t, c, r) /\ t \in Store
<1>1. Takes(s, t, c, Named(s), N, 0) /\ ReviewPut(s, t, c, r)
  BY ReviewTakes
<1>2. {} \subseteq Named(t) /\ Named(s) \cup {} = Named(s)
  OBVIOUS
<1>3. Brings(s, t, c, N, 0)
  BY <1>1, <1>2, TakenBrings
<1> QED
  BY <1>1, <1>3 DEF Brings, Good, Well

LEMMA OfferIs ==
  ASSUME NEW y \in Review, NEW v \in {"no", "pending", "settled"}
  PROVE  LET x == [y EXCEPT !.offered = v]
         IN x \in Review /\ x.provisional = y.provisional /\ x.status = y.status /\ x.by = y.by
BY DEF Review

LEMMA TaggedBrings ==
  ASSUME NEW s, NEW N, Good(s, Named(s), N), NEW c \in Codes,
         NEW r \in Results, r.store = s, NEW u, u = Tagged(r, c)
  PROVE  Brings(s, u.store, c, N, 0) /\ u \in Results /\ u.rescan = r.rescan
<1>0. /\ s.reviews[c] \in Review /\ s.reviews[c].provisional \in {None} \cup DOMAIN s.products
      /\ s \in Store /\ s.reviews \in [Codes -> Review]
  BY ReviewIs
<1>1. PICK y \in Review : y = s.reviews[c]
  BY <1>0
<1>2. PICK v : v = IF y.offered = "pending" /\ y.status \notin Awaiting THEN "settled" ELSE y.offered
  OBVIOUS
<1>3. v \in {"no", "pending", "settled"}
  BY <1>2 DEF Review
<1>4. PICK x : x = [y EXCEPT !.offered = v]
  OBVIOUS
<1>5. x \in Review /\ x.provisional = y.provisional
  BY <1>3, <1>4, OfferIs
<1>6. PICK t : t = Rewrite(s, c, x)
  OBVIOUS
<1>7. Brings(s, t, c, N, 0) /\ t \in Store
  BY <1>0, <1>1, <1>5, <1>6, ReviewBrings
<1>8. u = [r EXCEPT !.store = t]
  BY <1>0, <1>1, <1>2, <1>4, <1>6 DEF Tagged, Rewrite, Results, Store
<1>9. u.store = t /\ u \in Results /\ u.rescan = r.rescan
  BY <1>7, <1>8 DEF Results
<1> QED
  BY <1>7, <1>9

LEMMA UntaggedBrings ==
  ASSUME NEW s, NEW N, Good(s, Named(s), N), NEW c \in Codes,
         NEW r \in Results, r.store = s, NEW u, u = Untagged(r, c)
  PROVE  Brings(s, u.store, c, N, 0) /\ u \in Results
<1>0. /\ s.reviews[c] \in Review /\ s.reviews[c].provisional \in {None} \cup DOMAIN s.products
      /\ s \in Store /\ s.reviews \in [Codes -> Review]
  BY ReviewIs
<1>1. CASE u = r
  BY <1>1, BringsNothing
<1>2. CASE u = [r EXCEPT !.store.reviews[c].status = "open", !.store.reviews[c].offered = "no"]
  <2>1. PICK y \in Review : y = s.reviews[c]
    BY <1>0
  <2>2. PICK x : x = [y EXCEPT !.status = "open"]
    OBVIOUS
  <2>3. x \in Review /\ x.provisional = y.provisional
    BY <2>2 DEF Review
  <2>4. PICK t : t = Rewrite(s, c, x)
    OBVIOUS
  <2>5. Brings(s, t, c, N, 0) /\ t \in Store /\ ReviewPut(s, t, c, x)
    BY <1>0, <2>1, <2>3, <2>4, ReviewBrings
  <2>6. PICK q : q = [r EXCEPT !.store.reviews[c].status = "open"]
    OBVIOUS
  <2>7. q = [r EXCEPT !.store = t]
    BY <1>0, <2>1, <2>2, <2>4, <2>6 DEF Rewrite, Results, Store
  <2>8. q \in Results /\ q.store = t
    BY <2>5, <2>7 DEF Results
  <2>9. u = [q EXCEPT !.store.reviews[c].offered = "no"]
    BY <1>2, <2>6, Zenon
  <2>10. Good(t, Named(t), N)
    BY <2>5 DEF Brings
  <2>11. /\ t.reviews[c] = x /\ t.reviews \in [Codes -> Review]
         /\ x.provisional \in {None} \cup DOMAIN t.products
    BY <2>5, <2>10, ReviewIs DEF ReviewPut
  <2>12. PICK z : z = [x EXCEPT !.offered = "no"]
    OBVIOUS
  <2>13. z \in Review /\ z.provisional = x.provisional
    BY <2>3, <2>12, OfferIs
  <2>14. PICK w : w = Rewrite(t, c, z)
    OBVIOUS
  <2>15. Brings(t, w, c, N, 0) /\ w \in Store
    BY <2>10, <2>11, <2>13, <2>14, ReviewBrings
  <2>16. u = [q EXCEPT !.store = w]
    BY <2>5, <2>8, <2>9, <2>11, <2>12, <2>14 DEF Rewrite, Results, Store
  <2>17. u.store = w /\ u \in Results
    BY <2>8, <2>15, <2>16 DEF Results
  <2>18. Brings(s, w, c, N, 0 + 0)
    BY <2>5, <2>15, BringsThen
  <2> QED
    BY <2>17, <2>18
<1> QED
  BY <1>1, <1>2 DEF Untagged

LEMMA ReopenedBrings ==
  ASSUME NEW s, NEW N, Good(s, Named(s), N), NEW c \in Codes, NEW t, t = Reopened(s, c)
  PROVE  Brings(s, t, c, N, 0) /\ OnlyReviews(s, t) /\ t.reviews[c].by = None
<1>0. /\ s.reviews[c] \in Review /\ s.reviews[c].provisional \in {None} \cup DOMAIN s.products
      /\ s \in Store /\ s.reviews \in [Codes -> Review]
  BY ReviewIs
<1>1. PICK y \in Review : y = s.reviews[c]
  BY <1>0
<1>2. PICK x : x = [y EXCEPT !.status = "open", !.by = None, !.name = None, !.codes = {}]
  OBVIOUS
<1>3. x \in Review /\ x.provisional = y.provisional /\ x.by = None
  BY <1>2 DEF Review
<1>4. t = Rewrite(s, c, x)
  BY <1>0, <1>1, <1>2 DEF Reopened, Rewrite, Store
<1>5. Brings(s, t, c, N, 0) /\ ReviewPut(s, t, c, x)
  BY <1>0, <1>1, <1>3, <1>4, ReviewBrings
<1> QED
  BY <1>3, <1>5 DEF ReviewPut

LEMMA ToNameBrings ==
  ASSUME NEW s, NEW N, Good(s, Named(s), N), NEW c \in Codes, NEW e \in DOMAIN s.feed,
         NEW t, t = ToName(s, c, e)
  PROVE  Brings(s, t, c, N, 0)
<1>0. /\ s.reviews[c] \in Review /\ s.reviews[c].provisional \in {None} \cup DOMAIN s.products
      /\ s \in Store /\ s.reviews \in [Codes -> Review]
  BY ReviewIs
<1>1. CASE t = s
  BY <1>1, BringsNothing
<1>2. CASE t = [s EXCEPT !.reviews[c].status = "open", !.reviews[c].by = None]
  <2>1. PICK y \in Review : y = s.reviews[c]
    BY <1>0
  <2>2. PICK x : x = [y EXCEPT !.status = "open", !.by = None]
    OBVIOUS
  <2>3. x \in Review /\ x.provisional = y.provisional
    BY <2>2 DEF Review
  <2>4. t = Rewrite(s, c, x)
    BY <1>0, <1>2, <2>1, <2>2 DEF Rewrite, Store
  <2> QED
    BY <1>0, <2>1, <2>3, <2>4, ReviewBrings
<1>3. CASE t = [Reopened(s, c) EXCEPT !.reviews[c].provisional = Keep(@, s.feed[e].product)]
  <2>1. PICK u : u = Reopened(s, c)
    OBVIOUS
  <2>2. Brings(s, u, c, N, 0) /\ OnlyReviews(s, u)
    BY <2>1, ReopenedBrings
  <2>3. Good(u, Named(u), N)
    BY <2>2 DEF Brings
  <2>4. /\ u.reviews[c] \in Review /\ u.reviews[c].provisional \in {None} \cup DOMAIN u.products
        /\ u \in Store /\ u.reviews \in [Codes -> Review]
    BY <2>3, ReviewIs
  <2>5. PICK y \in Review : y = u.reviews[c]
    BY <2>4
  <2>6. PICK v : v = Keep(y.provisional, s.feed[e].product)
    OBVIOUS
  <2>7. v \in {None} \cup DOMAIN u.products /\ v \in Nat \cup {None}
    <3>1. s.feed[e].product \in {None} \cup DOMAIN s.products
      BY DEF Good, Well, Refs
    <3>2. \A p \in DOMAIN s.products : p \in Nat
      BY <1>0, StoreFields
    <3> QED
      BY <2>2, <2>4, <2>5, <2>6, <3>1, <3>2 DEF Keep, OnlyReviews
  <2>8. PICK x : x = [y EXCEPT !.provisional = v]
    OBVIOUS
  <2>9. x \in Review /\ x.provisional = v
    BY <2>7, <2>8 DEF Review
  <2>10. t = Rewrite(u, c, x)
    BY <1>3, <2>1, <2>4, <2>5, <2>6, <2>8 DEF Rewrite, Store
  <2>11. Brings(u, t, c, N, 0)
    BY <2>3, <2>7, <2>9, <2>10, ReviewBrings
  <2>12. Brings(s, t, c, N, 0 + 0)
    BY <2>2, <2>11, BringsThen
  <2> QED
    BY <2>12
<1> QED
  BY <1>1, <1>2, <1>3 DEF ToName

-----------------------------------------------------------------------------
(* Answers *)

LEMMA QuietTakes ==
  ASSUME NEW s, NEW L, NEW N, Good(s, L, N), NEW c, NEW t, t = Quiet(s, c)
  PROVE  Takes(s, t, c, L, N, 0) /\ t.products = s.products /\ t.reviews = s.reviews
         /\ t.aliases = s.aliases
<1>0. /\ s \in Store /\ \A e \in DOMAIN s.feed : s.feed[e] \in FeedRow
      /\ \A e \in DOMAIN s.feed : s.feed[e].product \in {None} \cup DOMAIN s.products
  BY StoreFields DEF Good, Well, Refs
<1>1. PICK F : F = [e \in DOMAIN s.feed |->
        IF s.feed[e].code = c THEN [s.feed[e] EXCEPT !.decoding = FALSE] ELSE s.feed[e]]
  OBVIOUS
<1>2. t = [s EXCEPT !.feed = F]
  BY <1>0, <1>1 DEF Quiet, Store
<1>3. ASSUME NEW y \in FeedRow, NEW x, x = [y EXCEPT !.decoding = FALSE]
      PROVE  x \in FeedRow /\ x.product = y.product /\ x.status = y.status
  BY <1>3 DEF FeedRow
<1>4. ASSUME NEW e \in DOMAIN s.feed
      PROVE  /\ F[e] \in FeedRow /\ F[e].product \in {None} \cup DOMAIN s.products
             /\ F[e].status = "known" =>
                  s.feed[e].status = "known" /\ F[e].product = s.feed[e].product
             /\ F[e].status = "needs_review" => s.feed[e].status = "needs_review"
  <2>1. PICK y \in FeedRow : y = s.feed[e]
    BY <1>0
  <2>2. PICK x : x = [y EXCEPT !.decoding = FALSE]
    OBVIOUS
  <2>3. x \in FeedRow /\ x.product = y.product /\ x.status = y.status
    BY <1>3, <2>2
  <2>4. F[e] = x \/ F[e] = y
    BY <1>1, <2>1, <2>2
  <2> QED
    BY <1>0, <2>1, <2>3, <2>4
<1>5. F \in [DOMAIN s.feed -> FeedRow]
  BY <1>1, <1>4
<1> QED
  BY <1>2, <1>4, <1>5, FeedTakes

LEMMA AnswerIs ==
  ASSUME NEW c \in Codes, NEW a \in Answers(c)
  PROVE  /\ a.name \in {"empty", "guess", "backed"} /\ a.codes \in SUBSET Codes
         /\ a.then \in {"keep", "park", "close"}
BY DEF Answers

\* What an answer writes on the review brings no unit and decides nothing.
LEMMA WrittenTakes ==
  ASSUME NEW s, NEW L, NEW N, Good(s, L, N), NEW c \in Codes, NEW a \in Answers(c),
         NEW t, t = Written(s, c, a)
  PROVE  /\ Takes(s, t, c, L, N, 0) /\ t.products = s.products /\ t.aliases = s.aliases
         /\ t.reviews[c].status = s.reviews[c].status /\ t.reviews[c].by = s.reviews[c].by
<1>0. /\ s.reviews[c] \in Review /\ s.reviews[c].provisional \in {None} \cup DOMAIN s.products
      /\ s \in Store /\ s.reviews \in [Codes -> Review]
  BY ReviewIs
<1>1. PICK y \in Review : y = s.reviews[c]
  BY <1>0
<1>2. PICK n, C : n = a.name /\ C = a.codes
  OBVIOUS
<1>3. PICK x : x = [y EXCEPT !.name = n, !.codes = C]
  OBVIOUS
<1>4. x \in Review /\ x.provisional = y.provisional /\ x.status = y.status /\ x.by = y.by
  BY <1>2, <1>3, AnswerIs DEF Review
<1>5. PICK u : u = Rewrite(s, c, x)
  OBVIOUS
<1>6. u = [s EXCEPT !.reviews[c].name = n, !.reviews[c].codes = C]
  BY <1>0, <1>1, <1>3, <1>5 DEF Rewrite, Store
<1>7. t = Quiet(u, c)
  BY <1>2, <1>6 DEF Written
<1>8. Takes(s, u, c, L, N, 0) /\ ReviewPut(s, u, c, x)
  BY <1>0, <1>1, <1>4, <1>5, ReviewTakes
<1>9. Good(u, L, N)
  BY <1>8 DEF Takes
<1>10. Takes(u, t, c, L, N, 0) /\ t.products = u.products /\ t.reviews = u.reviews
       /\ t.aliases = u.aliases
  BY <1>7, <1>9, QuietTakes
<1>11. Takes(s, t, c, L, N, 0)
  BY <1>8, <1>10, TakesOn
<1> QED
  BY <1>1, <1>4, <1>8, <1>10, <1>11 DEF ReviewPut, OnlyReviews

LEMMA CountLateTakes ==
  ASSUME NEW s, NEW L, NEW N, Good(s, L, N), NEW c, NEW p \in DOMAIN s.products, Room(s, L, p),
         NEW t, t = CountLate(s, c, p), NEW k, k = CountedTwice(s, c, p)
  PROVE  Takes(s, t, c, L, N, k) /\ SamePlaces(s, t) /\ k \in Nat
<1>0. s \in Store /\ DOMAIN s.feed = 1..Len(s.feed) /\ Len(s.feed) \in Nat
  BY StoreFields DEF Good, Well
<1>1. CASE Late(s, c) = {}
  <2>1. t = s /\ k = 0
    BY <1>1 DEF CountLate, CountedTwice
  <2>2. Takes(s, s, c, L, N, 0)
    BY TakesNothing
  <2> QED
    BY <2>1, <2>2 DEF SamePlaces
<1>2. CASE Late(s, c) # {}
  <2>1. PICK e : e = Max(Late(s, c))
    OBVIOUS
  <2>2. Late(s, c) \in SUBSET (1..Len(s.feed))
    BY <1>0 DEF Late, RowsOf
  <2>3. e \in DOMAIN s.feed
    BY <1>0, <1>2, <2>1, <2>2, MaxOfSet
  <2>4. t = CountRow(s, p, e) /\ k = Extra(s, p, e)
    BY <1>2, <2>1 DEF CountLate, CountedTwice, Extra
  <2>5. k \in Nat
    BY <2>4 DEF Extra
  <2> QED
    BY <1>0, <2>3, <2>4, <2>5, CountRowTakes, CountRowPlaces
<1> QED
  BY <1>1, <1>2

LEMMA TransferRoom ==
  ASSUME NEW s, NEW L, NEW N, Good(s, L, N), NEW o \in DOMAIN s.products,
         NEW t \in DOMAIN s.products, o # t, Room(s, L, t), NEW u, u = Transfer(s, o, t)
  PROVE  Room(u, L, t)
<1>1. s \in Store
  BY DEF Good, Well
<1>2. Transferred(s, u, o, t)
  BY <1>1, TransferIs
<1>3. SamePeople(s, u, o)
  BY TransferSound
<1>4. u.products[o].qty = 0
  <2>1. PICK y \in Product : y = s.products[o]
    BY <1>1, StoreFields
  <2>2. u.products[o] = Emptied(y)
    BY <1>2, <2>1 DEF Transferred
  <2> QED
    BY <2>2, EmptiedIs
<1>5. CASE t \in L
  BY <1>5 DEF Room
<1>6. CASE ~s.products[t].gone /\ t \notin L
  <2>1. /\ u.products[t].provisional = s.products[t].provisional
        /\ u.products[t].primary = s.products[t].primary
        /\ u.products[t].gone = s.products[t].gone
    BY <1>3 DEF SamePeople
  <2>2. ASSUME NEW q \in DOMAIN u.products \ {t}, Floating(u, L, q),
               u.products[q].primary = u.products[t].primary, u.products[t].provisional
        PROVE  u.products[q].qty = 0
    <3>1. CASE q = o
      BY <1>4, <3>1
    <3>2. CASE q # o
      BY <1>2, <1>6, <2>1, <2>2, <3>2 DEF Transferred, Room, Floating
    <3> QED
      BY <3>1, <3>2
  <2> QED
    BY <1>6, <2>1, <2>2 DEF Room
<1> QED
  BY <1>5, <1>6 DEF Room

\* The store after no answer.
Failed(s, c) ==
  LET own == First(Carriers(s, c))
      p == Keep(own, Len(s.products) + 1)
      u == IF own = None THEN Mint(s, Placeholder(c)) ELSE s
      counted == Quiet(CountLate(u, c, p), c)
  IN [store |-> [counted EXCEPT
                   !.reviews[c].provisional = Keep(@, p),
                   !.reviews[c].name = IF @ = "empty" THEN "guess" ELSE @],
      twice |-> CountedTwice(u, c, p)]

LEMMA CarriersIn ==
  ASSUME NEW s, NEW c
  PROVE  Carriers(s, c) \in SUBSET DOMAIN s.products /\ Carriers(s, c) \subseteq Counted(s)
BY DEF Carriers, Counted, Live

\* The placeholder of c, or one made for it.
LEMMA OwnTakes ==
  ASSUME NEW s, NEW L, NEW N, Good(s, L, N), NEW c \in Codes,
         NEW own, own = First(Carriers(s, c)), NEW p, p = Keep(own, Len(s.products) + 1),
         NEW u, u = IF own = None THEN Mint(s, Placeholder(c)) ELSE s
  PROVE  /\ Takes(s, u, c, L, N, 0) /\ p \in DOMAIN u.products /\ Room(u, L, p)
         /\ u.reviews = s.reviews /\ u.aliases = s.aliases /\ u.feed = s.feed
         /\ (own # None => p = own /\ u = s)
<1>0. s \in Store
  BY DEF Good, Well
<1>1. CASE own = None
  <2>1. Carriers(s, c) = {}
    BY <1>0, <1>1, FirstOf, CarriersIn
  <2>2. p = Len(s.products) + 1 /\ u = Mint(s, Placeholder(c))
    BY <1>1 DEF Keep
  <2>3. Takes(s, u, c, L, N, 0) /\ Gains(s, u, Placeholder(c), p) /\ Room(u, L, p)
    BY <2>1, <2>2, FreshTakes
  <2> QED
    BY <1>1, <2>3 DEF Gains
<1>2. CASE own # None
  <2>1. own \in Carriers(s, c)
    BY <1>0, <1>2, FirstOf, CarriersIn
  <2>2. p = own /\ u = s
    BY <1>2 DEF Keep
  <2>3. p \in DOMAIN s.products /\ Room(s, L, p)
    BY <2>1, <2>2, CarriersIn, RoomOn
  <2> QED
    BY <2>2, <2>3, TakesNothing
<1> QED
  BY <1>1, <1>2

LEMMA FailedTakes ==
  ASSUME NEW s, NEW L, NEW N, Good(s, L, N), NEW c \in Codes, NEW r, r = Failed(s, c),
         NEW k, k = r.twice
  PROVE  /\ Takes(s, r.store, c, L, N, k) /\ k \in Nat
         /\ r.store.reviews[c].status = s.reviews[c].status
         /\ r.store.aliases = s.aliases
<1>1. PICK own : own = First(Carriers(s, c))
  OBVIOUS
<1>2. PICK p : p = Keep(own, Len(s.products) + 1)
  OBVIOUS
<1>3. PICK u : u = IF own = None THEN Mint(s, Placeholder(c)) ELSE s
  OBVIOUS
<1>4. PICK v : v = CountLate(u, c, p)
  OBVIOUS
<1>5. PICK w : w = Quiet(v, c)
  OBVIOUS
<1>6. /\ Takes(s, u, c, L, N, 0) /\ p \in DOMAIN u.products /\ Room(u, L, p)
      /\ u.reviews = s.reviews /\ u.aliases = s.aliases
  BY <1>1, <1>2, <1>3, OwnTakes
<1>7. Good(u, L, N)
  BY <1>6 DEF Takes
<1>8. PICK j : j = CountedTwice(u, c, p)
  OBVIOUS
<1>9. Takes(u, v, c, L, N, j) /\ SamePlaces(u, v) /\ j \in Nat
  BY <1>4, <1>6, <1>7, <1>8, CountLateTakes
<1>10. Good(v, L, N)
  BY <1>9 DEF Takes
<1>11. /\ Takes(v, w, c, L, N, 0) /\ w.products = v.products /\ w.reviews = v.reviews
       /\ w.aliases = v.aliases
  BY <1>5, <1>10, QuietTakes
<1>12. Good(w, L, N) /\ p \in DOMAIN w.products /\ w.reviews = s.reviews /\ w.aliases = s.aliases
  BY <1>6, <1>9, <1>11 DEF Takes, SamePlaces
<1>13. /\ w.reviews[c] \in Review /\ w.reviews[c].provisional \in {None} \cup DOMAIN w.products
       /\ w \in Store /\ w.reviews \in [Codes -> Review]
  BY <1>12, ReviewIs
<1>14. PICK y \in Review : y = w.reviews[c]
  BY <1>13
<1>15. PICK i : i = Keep(y.provisional, p)
  OBVIOUS
<1>16. PICK n : n = IF y.name = "empty" THEN "guess" ELSE y.name
  OBVIOUS
<1>17. PICK x : x = [y EXCEPT !.provisional = i, !.name = n]
  OBVIOUS
<1>18. i \in {None} \cup DOMAIN w.products /\ i \in {None} \cup Nat
  BY <1>12, <1>13, <1>14, <1>15, StoreFields DEF Keep
<1>19. x \in Review /\ x.provisional = i /\ x.status = y.status
  BY <1>16, <1>17, <1>18 DEF Review
<1>20. PICK t : t = Rewrite(w, c, x)
  OBVIOUS
<1>21. r = [store |-> [w EXCEPT !.reviews[c].provisional = Keep(@, p),
                                !.reviews[c].name = IF @ = "empty" THEN "guess" ELSE @],
            twice |-> j]
  BY <1>1, <1>2, <1>3, <1>4, <1>5, <1>8, Zenon DEF Failed
<1>22. t = [w EXCEPT !.reviews[c].provisional = Keep(@, p),
                     !.reviews[c].name = IF @ = "empty" THEN "guess" ELSE @]
  BY <1>13, <1>14, <1>15, <1>16, <1>17, <1>20 DEF Rewrite, Store
<1>23. r.store = t /\ k = j
  BY <1>21, <1>22
<1>24. Takes(w, t, c, L, N, 0) /\ ReviewPut(w, t, c, x)
  BY <1>12, <1>18, <1>19, <1>20, ReviewTakes
<1>25. Takes(u, w, c, L, N, j + 0)
  BY <1>7, <1>9, <1>11, TakesThen
<1>26. Takes(s, w, c, L, N, j)
  BY <1>6, <1>9, <1>25, TakesThen
<1>27. Takes(s, t, c, L, N, j + 0)
  BY <1>9, <1>24, <1>26, TakesThen
<1>28. t.reviews[c].status = s.reviews[c].status /\ t.aliases = s.aliases
  BY <1>12, <1>14, <1>19, <1>24 DEF ReviewPut, OnlyReviews
<1> QED
  BY <1>9, <1>23, <1>27, <1>28

\* Where an answer short of verified puts the code.
LEMMA PlacedTakes ==
  ASSUME NEW s, NEW L, NEW N, Good(s, L, N), NEW c \in Codes, NEW a \in Answers(c),
         NEW r, r = Placed(s, c, a),
         r.on \in Carriers(s, c) /\ s.products[r.on].verified => r.on \in N
  PROVE  /\ Takes(s, r.store, c, L, N, 0) /\ r.store.reviews = s.reviews
         /\ r.on \in DOMAIN r.store.products /\ Room(r.store, L, r.on)
<1> DEFINE own == First(Carriers(s, c))
           twins == {p \in Live(s) \ {own} : /\ ~s.products[p].provisional
                                            /\ s.products[p].codes \cap a.codes # {}}
           twin == IF a.name = "empty" THEN None ELSE First(twins)
           learnt == LearnAll(s, {c}, twin)
           named == IF a.name = "empty" THEN "floor" ELSE a.name
           held == [Placeholder(c) EXCEPT !.name = named, !.codes = @ \cup a.codes]
           h == Len(s.products) + 1
           merged == IF own = None THEN learnt ELSE Transfer(learnt, own, twin)
           told == IF a.name = "empty" THEN s
                   ELSE [s EXCEPT !.products[own].name = named, !.products[own].codes = @ \cup a.codes]
<1>1. r = IF twin \in Counted(s) THEN [store |-> merged, on |-> twin]
          ELSE IF own = None THEN [store |-> Mint(s, held), on |-> h]
          ELSE [store |-> told, on |-> own]
  BY Zenon DEF Placed
<1>2. s \in Store
  BY DEF Good, Well
<1>3. own \in {None} \cup Carriers(s, c) /\ (own = None => Carriers(s, c) = {})
  BY <1>2, CarriersIn, FirstOf
<1>4. /\ a.name \in {"empty", "guess", "backed"} /\ a.codes \in SUBSET Codes
  BY AnswerIs
<1>5. named \in Names
  BY <1>4 DEF Names
<1>6. twin # None => twin \in Live(s) /\ twin # own
  <2>1. twins \in SUBSET DOMAIN s.products /\ \A x \in twins : x \in Live(s) /\ x # own
    BY DEF Live
  <2> HIDE DEF twins
  <2> QED
    BY <1>2, <2>1, FirstOf
<1> HIDE DEF own, twin, named
<1>7. CASE twin \in Counted(s)
  <2>1. twin \in DOMAIN s.products /\ Room(s, L, twin) /\ twin # None /\ twin # own
    <3>1. twin \in DOMAIN s.products
      BY <1>7 DEF Counted, Live
    <3>2. twin # None
      BY <1>2, <3>1, StoreFields, CatalogueAssumption
    <3> QED
      BY <1>6, <1>7, <3>1, <3>2, RoomOn
  <2>2. r.store = merged /\ r.on = twin
    BY <1>1, <1>7
  <2>3. PICK C : C = {c}
    OBVIOUS
  <2>4. PICK u : u = LearnAll(s, C, twin)
    OBVIOUS
  <2>5. C \in SUBSET Codes
    BY <2>3
  <2>6. Takes(s, u, c, L, N, 0) /\ OnlyAliases(s, u)
    BY <2>1, <2>4, <2>5, LearnAllTakes
  <2>7. /\ Good(u, L, N) /\ u.products = s.products /\ u.reviews = s.reviews
        /\ Room(u, L, twin)
    BY <2>1, <2>6 DEF Takes, OnlyAliases, Room, Floating
  <2>8. merged = IF own = None THEN u ELSE Transfer(u, own, twin)
    BY <2>3, <2>4
  <2> HIDE DEF merged
  <2>9. CASE own = None
    <3>1. r.store = u
      BY <2>2, <2>8, <2>9
    <3> QED
      BY <2>1, <2>2, <2>6, <2>7, <3>1
  <2>10. CASE own # None
    <3>1. own \in DOMAIN u.products /\ twin \in DOMAIN u.products
      BY <1>3, <2>1, <2>7, <2>10, CarriersIn
    <3>2. PICK t : t = Transfer(u, own, twin)
      OBVIOUS
    <3>3. Takes(u, t, c, L, N, 0)
      BY <2>1, <2>7, <3>1, <3>2, TransferTakes
    <3>4. Room(t, L, twin)
      BY <2>1, <2>7, <3>1, <3>2, TransferRoom
    <3>5. t.reviews = u.reviews /\ SamePeople(u, t, own)
      BY <2>1, <2>7, <3>1, <3>2, TransferSound
    <3>6. Takes(s, t, c, L, N, 0)
      BY <2>6, <3>3, TakesOn
    <3>7. r.store = t
      BY <2>2, <2>8, <2>10, <3>2
    <3> QED
      BY <2>2, <2>7, <3>1, <3>4, <3>5, <3>6, <3>7 DEF SamePeople
  <2> QED
    BY <2>9, <2>10
<1>8. CASE twin \notin Counted(s) /\ own = None
  <2>1. PICK x : x = held
    OBVIOUS
  <2>2. /\ x \in Product /\ x.qty = 0 /\ x.events = {} /\ x.primary = c /\ x.primary \in x.codes
        /\ ~x.verified /\ ~x.gone
    <3>1. PICK y \in Product : y = Placeholder(c)
      BY PlaceholderIs
    <3>2. /\ y.qty = 0 /\ y.events = {} /\ y.primary = c /\ y.codes = {c}
          /\ y.verified = FALSE /\ y.gone = FALSE
      BY <3>1, PlaceholderIs
    <3>3. x = [y EXCEPT !.name = named, !.codes = y.codes \cup a.codes]
      BY <2>1, <3>1 DEF Product
    <3>4. y.codes \cup a.codes \in SUBSET Codes
      BY <1>4, <3>2
    <3>5. /\ x \in Product /\ x.qty = y.qty /\ x.events = y.events /\ x.primary = y.primary
          /\ x.verified = y.verified /\ x.gone = y.gone /\ x.codes = y.codes \cup a.codes
      BY <1>5, <3>3, <3>4 DEF Product
    <3> QED
      BY <3>2, <3>5
  <2>3. PICK t : t = Mint(s, x)
    OBVIOUS
  <2> HIDE DEF held
  <2>4. r.store = t /\ r.on = h
    BY <1>1, <1>8, <2>1, <2>3
  <2>5. Takes(s, t, c, L, N, 0)
    BY <2>2, <2>3, MintTakes
  <2>6. Gains(s, t, x, h) /\ Room(t, L, h)
    BY <1>3, <1>8, <2>2, <2>3, MintSound
  <2> QED
    BY <2>4, <2>5, <2>6 DEF Gains
<1>9. CASE twin \notin Counted(s) /\ own # None
  <2>1. own \in DOMAIN s.products /\ Room(s, L, own) /\ own \in Carriers(s, c)
    BY <1>3, <1>9, CarriersIn, RoomOn
  <2>2. r.store = told /\ r.on = own
    BY <1>1, <1>9
  <2>3. CASE a.name = "empty"
    BY <2>1, <2>2, <2>3, TakesNothing
  <2>4. CASE a.name # "empty"
    <3>1. PICK y \in Product : y = s.products[own]
      BY <1>2, <2>1, StoreFields
    <3>2. PICK C : C = a.codes
      OBVIOUS
    <3>3. PICK x : x = [y EXCEPT !.name = named, !.codes = y.codes \cup C]
      OBVIOUS
    <3>4. y.codes \cup C \in SUBSET Codes
      BY <1>4, <3>2 DEF Product
    <3>5. /\ x \in Product /\ x.qty = y.qty /\ x.events = y.events /\ x.primary = y.primary
          /\ x.verified = y.verified /\ x.gone = y.gone /\ x.codes = y.codes \cup C
          /\ x.provisional = y.provisional /\ x.name = named
      BY <1>5, <3>3, <3>4 DEF Product
    <3>6. PICK t : t = told
      OBVIOUS
    <3>7. t = [s EXCEPT !.products[own].name = named, !.products[own].codes = @ \cup C]
      BY <2>4, <3>2, <3>6
    <3>8. t = [s EXCEPT !.products = [s.products EXCEPT ![own] = x]]
      BY <1>2, <2>1, <3>1, <3>3, <3>7 DEF Store
    <3>9. ProductPut(s, t, own, x)
      BY <1>2, <2>1, <3>5, <3>8, OneProduct
    <3>10. y.verified => ~y.provisional /\ own \in N
      BY <2>1, <2>2, <3>1 DEF Good, Coded
    <3>11. y.codes \subseteq x.codes
      BY <3>5
    <3>12. /\ x.provisional => y.provisional \/ own \in L
           /\ x.verified => ~x.provisional
           /\ x.verified => x.name \in {"human", "backed"} \/ own \in N
      BY <3>5, <3>10
    <3>13. Takes(s, t, c, L, N, 0)
      BY <2>1, <3>1, <3>5, <3>9, <3>11, <3>12, PersonTakes
    <3>14. Room(t, L, own)
      <4>1. \A q \in DOMAIN s.products :
              /\ t.products[q].qty = s.products[q].qty /\ t.products[q].gone = s.products[q].gone
              /\ t.products[q].primary = s.products[q].primary
              /\ t.products[q].provisional = s.products[q].provisional
        BY <3>1, <3>5, <3>9 DEF ProductPut
      <4> QED
        BY <2>1, <3>9, <4>1 DEF Room, Floating, ProductPut, OnlyProducts
    <3> HIDE DEF told
    <3> QED
      BY <2>1, <2>2, <3>6, <3>9, <3>13, <3>14 DEF ProductPut, OnlyProducts
  <2> QED
    BY <2>3, <2>4
<1> QED
  BY <1>7, <1>8, <1>9

\* The store after an answer short of verified.
Suggested(s, c, a) ==
  LET placed == Placed(Written(s, c, a), c, a)
      u == CountLate(placed.store, c, placed.on)
      own == First({p \in Live(u) : u.products[p].provisional /\ u.products[p].primary = c})
      kept == [u.reviews[c] EXCEPT !.provisional = Keep(@, own)]
  IN [u EXCEPT !.reviews[c] = Disposed(kept, a.then)]

\* A decided review stays decided, but for an answer that closes it itself.
Stands(s, t, c) ==
  s.reviews[c].status \in {"resolved", "ignored"} =>
    t.reviews[c].status = s.reviews[c].status \/ t.reviews[c].by = "auto"

LEMMA DisposedIs ==
  ASSUME NEW y \in Review, NEW then, NEW x, x = Disposed(y, then)
  PROVE  /\ x \in Review /\ x.provisional = y.provisional
         /\ y.status \in {"resolved", "ignored"} => x.status = y.status \/ x.by = "auto"
<1>1. CASE then = "close"
  <2>1. x = [y EXCEPT !.status = "resolved", !.by = "auto"]
    BY <1>1 DEF Disposed
  <2> QED
    BY <2>1 DEF Review
<1>2. CASE then = "park"
  <2>1. PICK u, o : /\ u = IF y.status = "open" THEN "suggested" ELSE y.status
                    /\ o = IF y.offered = "no" THEN "pending" ELSE y.offered
    OBVIOUS
  <2>2. x = [y EXCEPT !.status = u, !.offered = o]
    BY <1>2, <2>1 DEF Disposed, Review
  <2> QED
    BY <2>1, <2>2 DEF Review
<1>3. CASE then \notin {"close", "park"}
  BY <1>3 DEF Disposed
<1> QED
  BY <1>1, <1>2, <1>3

LEMMA SuggestedTakes ==
  ASSUME NEW s, NEW L, NEW N, Good(s, L, N), NEW c \in Codes, NEW a \in Answers(c),
         NEW r, r = Placed(Written(s, c, a), c, a),
         r.on \in Carriers(s, c) /\ s.products[r.on].verified => r.on \in N,
         NEW t, t = Suggested(s, c, a), NEW k, k = CountedTwice(r.store, c, r.on)
  PROVE  Takes(s, t, c, L, N, k) /\ k \in Nat /\ Stands(s, t, c)
<1>1. PICK w : w = Written(s, c, a)
  OBVIOUS
<1>2. /\ Takes(s, w, c, L, N, 0) /\ w.products = s.products /\ w.aliases = s.aliases
      /\ w.reviews[c].status = s.reviews[c].status /\ w.reviews[c].by = s.reviews[c].by
  BY <1>1, WrittenTakes
<1>3. Good(w, L, N) /\ r = Placed(w, c, a)
      /\ (r.on \in Carriers(w, c) /\ w.products[r.on].verified => r.on \in N)
  BY <1>1, <1>2 DEF Takes, Carriers, Counted, Live
<1>4. /\ Takes(w, r.store, c, L, N, 0) /\ r.store.reviews = w.reviews
      /\ r.on \in DOMAIN r.store.products /\ Room(r.store, L, r.on)
  BY <1>3, PlacedTakes
<1>5. PICK v, p : v = r.store /\ p = r.on
  OBVIOUS
<1>6. Good(v, L, N) /\ p \in DOMAIN v.products /\ Room(v, L, p) /\ k = CountedTwice(v, c, p)
  BY <1>4, <1>5 DEF Takes
<1>7. PICK u : u = CountLate(v, c, p)
  OBVIOUS
<1>8. Takes(v, u, c, L, N, k) /\ SamePlaces(v, u) /\ k \in Nat
  BY <1>6, <1>7, CountLateTakes
<1>9. Good(u, L, N)
  BY <1>8 DEF Takes
<1>10. /\ u.reviews[c] \in Review /\ u.reviews[c].provisional \in {None} \cup DOMAIN u.products
       /\ u \in Store /\ u.reviews \in [Codes -> Review]
  BY <1>9, ReviewIs
<1>11. PICK own : own = First({q \in Live(u) : u.products[q].provisional
                                              /\ u.products[q].primary = c})
  OBVIOUS
<1>12. own \in {None} \cup DOMAIN u.products /\ \A q \in DOMAIN u.products : q \in Nat
  BY <1>10, <1>11, FirstOf, StoreFields DEF Live
<1>13. PICK y \in Review : y = u.reviews[c]
  BY <1>10
<1>14. PICK i : i = Keep(y.provisional, own)
  OBVIOUS
<1>15. i \in {None} \cup DOMAIN u.products /\ i \in Nat \cup {None}
  BY <1>10, <1>12, <1>13, <1>14 DEF Keep
<1>16. PICK z : z = [y EXCEPT !.provisional = i]
  OBVIOUS
<1>17. z \in Review /\ z.provisional = i /\ z.status = y.status
  BY <1>15, <1>16 DEF Review
<1>18. z = [u.reviews[c] EXCEPT !.provisional = Keep(@, own)]
  BY <1>13, <1>14, <1>16 DEF Review
<1>19. PICK x : x = Disposed(z, a.then)
  OBVIOUS
<1>20. t = [u EXCEPT !.reviews[c] = x]
  <2>1. t = LET own2 == First({q \in Live(u) : u.products[q].provisional
                                              /\ u.products[q].primary = c})
                kept == [u.reviews[c] EXCEPT !.provisional = Keep(@, own2)]
            IN [u EXCEPT !.reviews[c] = Disposed(kept, a.then)]
    BY <1>5, <1>7, Zenon DEF Suggested
  <2> QED
    BY <1>11, <1>18, <1>19, <2>1, Zenon
<1>21. t = Rewrite(u, c, x)
  BY <1>10, <1>20 DEF Rewrite, Store
<1>22. /\ x \in Review /\ x.provisional = z.provisional
       /\ z.status \in {"resolved", "ignored"} => x.status = z.status \/ x.by = "auto"
  BY <1>17, <1>19, DisposedIs
<1>23. x.provisional \in {None} \cup DOMAIN u.products
  BY <1>15, <1>17, <1>22
<1>24. Takes(u, t, c, L, N, 0) /\ ReviewPut(u, t, c, x)
  BY <1>9, <1>21, <1>22, <1>23, ReviewTakes
<1>25. Takes(v, t, c, L, N, k + 0)
  BY <1>6, <1>8, <1>24, TakesThen
<1>26. Takes(w, t, c, L, N, k)
  BY <1>3, <1>4, <1>5, <1>8, <1>25, TakesOn
<1>27. Takes(s, t, c, L, N, k)
  BY <1>2, <1>8, <1>26, TakesOn
<1>28. Stands(s, t, c)
  BY <1>2, <1>4, <1>5, <1>8, <1>13, <1>17, <1>22, <1>24 DEF Stands, SamePlaces, ReviewPut
<1> QED
  BY <1>8, <1>27, <1>28

\* A verified answer that is heeded.
Heeded(s, c, a, alike) == CreateNew(s, c, [name |-> a.name, codes |-> a.codes], FALSE, alike, {})

LEMMA VerifiedBrings ==
  ASSUME NEW s, NEW N, Good(s, Named(s), N), NEW c \in Codes, NEW a \in Answers(c),
         a.name = "backed", NEW alike \in BOOLEAN, NEW u, u = Written(s, c, a),
         NEW r, r = Heeded(u, c, a, alike)
  PROVE  /\ Brings(s, u, c, N, 0) /\ Brings(s, r.store, c, N, 0) /\ r \in Results
         /\ u.reviews[c].status = s.reviews[c].status
<1>1. /\ Takes(s, u, c, Named(s), N, 0) /\ u.aliases = s.aliases
      /\ u.reviews[c].status = s.reviews[c].status
  BY WrittenTakes
<1>2. {} \subseteq Named(u) /\ Named(s) \cup {} = Named(s)
  OBVIOUS
<1>3. Brings(s, u, c, N, 0)
  BY <1>1, <1>2, TakenBrings
<1>4. Good(u, Named(u), N)
  BY <1>3 DEF Brings
<1>5. PICK named : named = [name |-> a.name, codes |-> a.codes]
  OBVIOUS
<1>6. named \in Identities
  BY <1>5, AnswerIs DEF Identities
<1>7. PICK no \in BOOLEAN : no = FALSE
  OBVIOUS
<1>8. PICK C : C = {}
  OBVIOUS
<1>9. r = CreateNew(u, c, named, no, alike, C)
  BY <1>5, <1>7, <1>8, Zenon DEF Heeded
<1>10. C \in SUBSET Codes /\ (no => named.name = "human")
  BY <1>7, <1>8
<1>11. Brings(u, r.store, c, N, 0) /\ r \in Results
  BY <1>4, <1>6, <1>9, <1>10, CreateNewBrings
<1>12. Brings(s, r.store, c, N, 0 + 0)
  BY <1>3, <1>11, BringsThen
<1>13. 0 + 0 = 0
  OBVIOUS
<1> QED
  BY <1>1, <1>3, <1>11, <1>12, <1>13, Zenon

-----------------------------------------------------------------------------
(* markWrong *)

\* The count row of a product is dropped.
Cleared(y) == [y EXCEPT !.verified = FALSE, !.qty = 0, !.events = {}]
LEMMA ClearedIs ==
  ASSUME NEW y \in Product
  PROVE  LET x == Cleared(y)
         IN /\ x \in Product /\ x.qty = 0 /\ x.events = {} /\ x.verified = FALSE
            /\ x.codes = y.codes /\ x.primary = y.primary /\ x.provisional = y.provisional
            /\ x.gone = y.gone /\ x.name = y.name
  BY DEF Cleared, Product

\* An alias to p of one of the codes is approved no more.
Doubted(a, p, C) == IF a.product = p /\ a.code \in C THEN [a EXCEPT !.approved = FALSE] ELSE a
LEMMA DoubtedIs ==
  ASSUME NEW a \in Alias, NEW p, NEW C
  PROVE  Doubted(a, p, C) \in Alias /\ Doubted(a, p, C).product = a.product
  BY DEF Doubted, Alias

\* What is withdrawn from p.
Withdraws(s, t, p) ==
  /\ t \in Store /\ t.reviews = s.reviews /\ Named(t) = Named(s)
  /\ DOMAIN t.products = DOMAIN s.products /\ DOMAIN t.feed = DOMAIN s.feed
  /\ t.products[p] = Cleared(s.products[p])
  /\ \A q \in DOMAIN s.products \ {p} : t.products[q] = s.products[q]
  /\ \A e \in DOMAIN s.feed :
       t.feed[e] = IF s.feed[e].product = p THEN Restated(s.feed[e], None, "needs_review") ELSE s.feed[e]

LEMMA WithdrawnIs ==
  ASSUME NEW s \in Store, NEW p \in DOMAIN s.products, NEW C, NEW t, t = Withdrawn(s, p, C)
  PROVE  Withdraws(s, t, p)
<1>0. /\ s.products \in Seq(Product) /\ s.feed \in Seq(FeedRow) /\ s.aliases \in SUBSET Alias
      /\ \A q \in DOMAIN s.products : s.products[q] \in Product /\ q \in Nat
      /\ \A e \in DOMAIN s.feed : s.feed[e] \in FeedRow
  BY StoreFields
<1>1. PICK A : A = {Doubted(a, p, C) : a \in s.aliases}
  OBVIOUS
<1>2. A \in SUBSET Alias
  BY <1>0, <1>1, DoubtedIs
<1>3. {a.product : a \in A} = {a.product : a \in s.aliases}
  <2>1. \A a \in s.aliases : Doubted(a, p, C).product = a.product
    BY <1>0, DoubtedIs
  <2> QED
    BY <1>1, <2>1
<1>4. PICK x : x = Cleared(s.products[p])
  OBVIOUS
<1>5. x \in Product
  BY <1>0, <1>4, ClearedIs
<1>6. PICK F : F = [e \in DOMAIN s.feed |->
        IF s.feed[e].product = p THEN Restated(s.feed[e], None, "needs_review") ELSE s.feed[e]]
  OBVIOUS
<1>7. F \in [DOMAIN s.feed -> FeedRow]
  <2>1. \A e \in DOMAIN s.feed : Restated(s.feed[e], None, "needs_review") \in FeedRow
    BY <1>0, RestatedIs
  <2> QED
    BY <1>0, <1>6, <2>1
<1>8. PICK u : u = [s EXCEPT !.aliases = A]
  OBVIOUS
<1>9. u \in Store /\ u.aliases = A /\ u.products = s.products /\ u.feed = s.feed /\ u.reviews = s.reviews
  BY <1>2, <1>8, NewAliases
<1>10. PICK v : v = [u EXCEPT !.products = [u.products EXCEPT ![p] = x]]
  OBVIOUS
<1>11. ProductPut(u, v, p, x)
  BY <1>5, <1>9, <1>10, OneProduct
<1>12. PICK P : P = [s.products EXCEPT ![p] = x]
  OBVIOUS
<1>13. P = [s.products EXCEPT ![p].verified = FALSE, ![p].qty = 0, ![p].events = {}]
  <2>1. s.products \in [DOMAIN s.products -> Product]
    BY <1>0, SeqFacts
  <2> QED
    BY <1>4, <1>12, <2>1 DEF Cleared
<1>14. t = [s EXCEPT !.aliases = A, !.products = P, !.feed = F]
  BY <1>1, <1>6, <1>13 DEF Withdrawn, Doubted, Restated, Store
<1>15. t = [v EXCEPT !.feed = F]
  <2>1. v = [u EXCEPT !.products = P]
    BY <1>9, <1>10, <1>12
  <2> QED
    BY <1>8, <1>14, <2>1 DEF Store
<1>16. v \in Store /\ v.feed = s.feed /\ v.aliases = A /\ v.reviews = s.reviews
       /\ DOMAIN v.products = DOMAIN s.products
       /\ v.products[p] = x /\ \A q \in DOMAIN s.products \ {p} : v.products[q] = s.products[q]
  BY <1>9, <1>11 DEF ProductPut, OnlyProducts
<1>17. OnlyFeed(v, t) /\ t.feed = F
  BY <1>7, <1>15, <1>16, FeedMapped
<1>18. Named(t) = Named(s)
  BY <1>3, <1>16, <1>17 DEF OnlyFeed, Named
<1> QED
  BY <1>4, <1>6, <1>16, <1>17, <1>18 DEF OnlyFeed, Withdraws

\* The rows of a product.
On(s, p) == {e \in DOMAIN s.feed : s.feed[e].product = p}

\* The units of p leave the books and its rows are open.
LEMMA WithdrawnSound ==
  ASSUME NEW s, NEW L, NEW N, Good(s, L, N), NEW p \in DOMAIN s.products, NEW t, Withdraws(s, t, p)
  PROVE  /\ Good(t, L, N) /\ Units(t) = Units(s) - s.products[p].qty
         /\ OpenRows(t) = OpenRows(s) \cup On(s, p)
<1>0. /\ s \in Store /\ s.products \in Seq(Product) /\ t \in Store /\ t.products \in Seq(Product)
      /\ \A q \in DOMAIN s.products : s.products[q] \in Product /\ q \in Nat
      /\ \A e \in DOMAIN s.feed : s.feed[e] \in FeedRow
  BY StoreFields DEF Good, Well, Withdraws
<1>1. PICK y : y = s.products[p]
  OBVIOUS
<1>2. PICK x : x = t.products[p]
  OBVIOUS
<1>3. /\ y \in Product /\ y.qty \in Nat
      /\ x.qty = 0 /\ x.events = {} /\ x.verified = FALSE
      /\ x.codes = y.codes /\ x.primary = y.primary /\ x.provisional = y.provisional
      /\ x.gone = y.gone /\ x.name = y.name
  <2>1. y \in Product /\ x = Cleared(y)
    BY <1>0, <1>1, <1>2 DEF Withdraws
  <2> QED
    BY <2>1, ClearedIs DEF Product
<1>4. /\ \A q \in DOMAIN s.products \ {p} : t.products[q] = s.products[q]
      /\ DOMAIN t.products = DOMAIN s.products /\ DOMAIN t.feed = DOMAIN s.feed
      /\ Named(t) = Named(s) /\ t.reviews = s.reviews
  BY DEF Withdraws
<1>5. /\ \A e \in On(s, p) : t.feed[e].product = None /\ t.feed[e].status = "needs_review"
      /\ \A e \in DOMAIN s.feed \ On(s, p) : t.feed[e] = s.feed[e]
      /\ On(s, p) \subseteq DOMAIN s.feed
  <2>1. \A e \in DOMAIN s.feed : /\ Restated(s.feed[e], None, "needs_review").product = None
                                /\ Restated(s.feed[e], None, "needs_review").status = "needs_review"
    <3> TAKE e \in DOMAIN s.feed
    <3>1. PICK z \in FeedRow : z = s.feed[e]
      BY <1>0
    <3>2. PICK r : r = Restated(z, None, "needs_review")
      OBVIOUS
    <3>3. r.product = None /\ r.status = "needs_review"
      <4>1. None \in Nat \cup {None}
        OBVIOUS
      <4> QED
        BY <3>2, <4>1, RestatedIs
    <3> QED
      BY <3>1, <3>2, <3>3
  <2>2. \A e \in DOMAIN s.feed :
       t.feed[e] = IF s.feed[e].product = p THEN Restated(s.feed[e], None, "needs_review") ELSE s.feed[e]
    BY DEF Withdraws
  <2> QED
    BY <2>1, <2>2 DEF On
<1>6. Well(t)
  <2>1. \A a \in t.aliases : a.product \in DOMAIN s.products
    <3>1. \A a \in t.aliases : a.product \in Named(s)
      BY <1>4 DEF Named
    <3> QED
      BY <3>1 DEF Named, Good, Well, Refs
  <2> QED
    BY <1>0, <1>4, <1>5, <2>1 DEF Good, Well, Refs
<1>7. Booked(t)
  <2>1. Cardinality(x.events) <= x.qty /\ x.events \subseteq DOMAIN t.feed
    BY <1>3, FS_EmptySet
  <2> QED
    BY <1>2, <1>4, <2>1 DEF Good, Booked
<1>8. OnBooks(t)
  <2> SUFFICES ASSUME NEW e \in DOMAIN s.feed, t.feed[e].status = "known"
               PROVE  t.feed[e].product # None
                      /\ e \in t.products[t.feed[e].product].events
    BY <1>4 DEF OnBooks
  <2>1. e \notin On(s, p)
    BY <1>5
  <2>2. t.feed[e] = s.feed[e] /\ s.feed[e].product # p
    BY <1>5, <2>1 DEF On
  <2>3. /\ s.feed[e].product # None /\ e \in s.products[s.feed[e].product].events
        /\ s.feed[e].product \in DOMAIN s.products
    BY <2>2 DEF Good, OnBooks, Well, Refs
  <2> QED
    BY <1>4, <2>2, <2>3
<1>9. \A q \in DOMAIN s.products :
        /\ t.products[q].codes = s.products[q].codes
        /\ t.products[q].primary = s.products[q].primary
        /\ t.products[q].provisional = s.products[q].provisional
        /\ t.products[q].gone = s.products[q].gone
        /\ t.products[q].name = s.products[q].name
        /\ t.products[q].verified => s.products[q].verified
        /\ t.products[q].qty > 0 => s.products[q].qty > 0
        /\ s.products[q].qty = 0 => t.products[q].qty = 0
  BY <1>1, <1>2, <1>3, <1>4
<1>10. Coded(t, L)
  BY <1>4, <1>9 DEF Good, Coded
<1>11. Apart(t, L)
  BY <1>4, <1>9 DEF Good, Apart, Floating
<1>12. Identity(t, N)
  BY <1>4, <1>9 DEF Good, Identity
<1>13. Units(t) = Units(s) - s.products[p].qty
  <2>1. \A q \in DOMAIN s.products \ {p} : t.products[q].qty = s.products[q].qty
    BY <1>4
  <2>2. Cardinality(CellsOf(t.products)) =
          Cardinality(CellsOf(s.products)) - s.products[p].qty + t.products[p].qty
    BY <1>0, <1>4, <2>1, CellsShift
  <2>3. Cardinality(CellsOf(s.products)) \in Nat
    BY <1>0, CellsFinite
  <2>4. PICK u, v : u = Cardinality(CellsOf(t.products)) /\ v = Cardinality(CellsOf(s.products))
    OBVIOUS
  <2>5. u = v - y.qty + 0 /\ v \in Nat
    BY <1>1, <1>2, <1>3, <2>2, <2>3, <2>4
  <2>6. u = v - y.qty
    BY <1>3, <2>5
  <2> QED
    BY <1>1, <2>4, <2>6, UnitsAre
<1>14. OpenRows(t) = OpenRows(s) \cup On(s, p)
  BY <1>4, <1>5 DEF OpenRows
<1> QED
  BY <1>6, <1>7, <1>8, <1>10, <1>11, <1>12, <1>13, <1>14 DEF Good

\* Counting the rows E on p, in the model's words.
LEMMA CountRowsIs ==
  ASSUME NEW s \in Store, NEW p \in DOMAIN s.products, NEW E \in SUBSET DOMAIN s.feed,
         NEW t, t = CountRows(s, p, E), NEW n, n = Cardinality(E \ s.products[p].events)
  PROVE  Counts(s, t, p, E, n) /\ n \in Nat /\ Covers(s, p, E, n)
<1>0. /\ s.feed \in Seq(FeedRow) /\ s.products \in Seq(Product)
      /\ \A q \in DOMAIN s.products : s.products[q] \in Product /\ q \in Nat
      /\ \A f \in DOMAIN s.feed : s.feed[f] \in FeedRow /\ f \in Nat
      /\ s.feed \in [DOMAIN s.feed -> FeedRow] /\ s.products \in [DOMAIN s.products -> Product]
  BY StoreFields, SeqFacts
<1>1. n \in Nat
  BY RowsFinite
<1>2. PICK F : F = [e \in DOMAIN s.feed |->
                     IF e \in E THEN Restated(s.feed[e], p, "known") ELSE s.feed[e]]
  OBVIOUS
<1>3. \A e \in DOMAIN s.feed :
         /\ Restated(s.feed[e], p, "known") \in FeedRow
         /\ Restated(s.feed[e], p, "known").product = p
         /\ Restated(s.feed[e], p, "known").status = "known"
  <2> TAKE e \in DOMAIN s.feed
  <2>1. PICK z \in FeedRow : z = s.feed[e]
    BY <1>0
  <2>2. PICK r : r = Restated(z, p, "known")
    OBVIOUS
  <2>3. r \in FeedRow /\ r.product = p /\ r.status = "known"
    <3>1. p \in Nat \cup {None}
      BY <1>0
    <3> QED
      BY <2>2, <3>1, RestatedIs
  <2> QED
    BY <2>1, <2>2, <2>3
<1>4. F \in [DOMAIN s.feed -> FeedRow]
  BY <1>0, <1>2, <1>3
<1>5. PICK v : v = [s EXCEPT !.feed = F]
  OBVIOUS
<1>6. OnlyFeed(s, v) /\ v.feed = F
  BY <1>4, <1>5, FeedMapped
<1>7. PICK x : x = Recounted(s.products[p], s.products[p].qty + n, s.products[p].events \cup E)
  OBVIOUS
<1>8. x \in Product
  <2>1. PICK y \in Product : y = s.products[p]
    BY <1>0
  <2>2. y.qty + n \in Nat /\ y.events \cup E \in SUBSET Nat
    BY <1>0, <1>1 DEF Product
  <2> QED
    BY <1>7, <2>1, <2>2, RecountedIs
<1>9. PICK P : P = [s.products EXCEPT ![p] = x]
  OBVIOUS
<1>10. P = [s.products EXCEPT ![p].qty = @ + n, ![p].events = @ \cup E]
  BY <1>0, <1>7, <1>9 DEF Recounted
<1>11. t = [s EXCEPT !.feed = F, !.products = P]
  BY <1>2, <1>10 DEF CountRows, Restated, Store
<1>12. t = [v EXCEPT !.products = [v.products EXCEPT ![p] = x]]
  BY <1>5, <1>9, <1>11 DEF Store
<1>13. v \in Store /\ v.products = s.products /\ v.aliases = s.aliases /\ v.reviews = s.reviews
      /\ DOMAIN F = DOMAIN s.feed /\ Len(F) = Len(s.feed) /\ v.feed = F
  BY <1>6 DEF OnlyFeed
<1>14. ProductPut(v, t, p, x)
  BY <1>8, <1>12, <1>13, OneProduct
<1>15. \A e \in E : F[e].product = p /\ F[e].status = "known"
  BY <1>2, <1>3
<1>16. \A e \in DOMAIN s.feed \ E : F[e] = s.feed[e]
  BY <1>2
<1>17. Counts(s, t, p, E, n)
  BY <1>7, <1>13, <1>14, <1>15, <1>16 DEF Counts, OnlyProducts, ProductPut
<1> QED
  BY <1>1, <1>17 DEF Covers

\* Only the count of p changes, and it grows.
Grows(s, t, p) ==
  /\ DOMAIN t.products = DOMAIN s.products
  /\ \A q \in DOMAIN s.products :
       /\ t.products[q].primary = s.products[q].primary
       /\ t.products[q].provisional = s.products[q].provisional
       /\ t.products[q].gone = s.products[q].gone
  /\ \A q \in DOMAIN s.products \ {p} : t.products[q].qty = s.products[q].qty
  /\ s.products[p].qty > 0 => t.products[p].qty > 0

LEMMA CountsGrow ==
  ASSUME NEW s \in Store, NEW p \in DOMAIN s.products, NEW E \in SUBSET DOMAIN s.feed,
         NEW n \in Nat, NEW t, Counts(s, t, p, E, n)
  PROVE  Grows(s, t, p)
<1>1. PICK y \in Product : y = s.products[p]
  BY StoreFields
<1>2. PICK x : x = t.products[p]
  OBVIOUS
<1>3. E \in SUBSET Nat /\ y.events \in SUBSET Nat /\ y.qty \in Nat
  BY StoreFields DEF Product
<1>4. x = Recounted(y, y.qty + n, y.events \cup E)
  BY <1>1, <1>2 DEF Counts
<1>5. y.qty + n \in Nat /\ y.events \cup E \in SUBSET Nat
  BY <1>3
<1>6. x.qty = y.qty + n /\ x.primary = y.primary /\ x.provisional = y.provisional /\ x.gone = y.gone
  BY <1>4, <1>5, RecountedIs
<1>7. y.qty > 0 => x.qty > 0
  BY <1>3, <1>6
<1>8. DOMAIN t.products = DOMAIN s.products
      /\ \A q \in DOMAIN s.products \ {p} : t.products[q] = s.products[q]
  BY DEF Counts
<1> QED
  BY <1>1, <1>2, <1>6, <1>7, <1>8 DEF Grows

LEMMA LateGrows ==
  ASSUME NEW s \in Store, NEW c, NEW p \in DOMAIN s.products, NEW t, t = CountLate(s, c, p)
  PROVE  Grows(s, t, p)
<1>0. DOMAIN s.feed = 1..Len(s.feed) /\ Len(s.feed) \in Nat
  BY StoreFields
<1>1. CASE Late(s, c) = {}
  <2>1. t = s
    BY <1>1 DEF CountLate
  <2> QED
    BY <2>1 DEF Grows
<1>2. CASE Late(s, c) # {}
  <2>1. PICK e : e = Max(Late(s, c))
    OBVIOUS
  <2>2. Late(s, c) \in SUBSET (1..Len(s.feed))
    BY <1>0 DEF Late, RowsOf
  <2>3. e \in DOMAIN s.feed
    BY <1>0, <1>2, <2>1, <2>2, MaxOfSet
  <2>4. t = CountRow(s, p, e)
    BY <1>2, <2>1 DEF CountLate
  <2>5. PICK n \in Nat : n = IF e \in s.products[p].events THEN 0 ELSE 1
    OBVIOUS
  <2>6. Counts(s, t, p, {e}, n)
    BY <2>3, <2>4, <2>5, CountRowIs
  <2> QED
    BY <2>3, <2>6, CountsGrow
<1> QED
  BY <1>1, <1>2

\* The rows E, which are open, are counted on p: as many units as rows or fewer.
LEMMA CountRowsSound ==
  ASSUME NEW s, NEW L, NEW N, Good(s, L, N), NEW p \in DOMAIN s.products, Room(s, L, p),
         NEW E \in SUBSET OpenRows(s), NEW t, t = CountRows(s, p, E)
  PROVE  Good(t, L, N) /\ Weight(t) <= Weight(s) /\ SamePlaces(s, t) /\ Grows(s, t, p)
<1>0. s \in Store /\ E \in SUBSET DOMAIN s.feed
  BY DEF Good, Well, OpenRows
<1>1. PICK n : n = Cardinality(E \ s.products[p].events)
  OBVIOUS
<1>2. Counts(s, t, p, E, n) /\ n \in Nat /\ Covers(s, p, E, n)
  BY <1>0, <1>1, CountRowsIs
<1>3. Good(t, L, N) /\ Units(t) = Units(s) + n /\ OpenRows(t) = OpenRows(s) \ E
  BY <1>0, <1>2, CountSound
<1>4. SamePlaces(s, t)
  BY <1>2 DEF Counts, SamePlaces
<1>5. Grows(s, t, p)
  BY <1>0, <1>2, CountsGrow
<1>6. Weight(t) <= Weight(s)
  <2>1. /\ IsFiniteSet(OpenRows(s)) /\ IsFiniteSet(E) /\ Cardinality(E) \in Nat
        /\ Units(s) \in Nat /\ Cardinality(OpenRows(s)) \in Nat
    BY <1>0, RowsFinite
  <2>2. n <= Cardinality(E)
    BY <1>1, <2>1, FS_Subset
  <2>3. Cardinality(OpenRows(s) \ E) = Cardinality(OpenRows(s)) - Cardinality(OpenRows(s) \cap E)
    BY <2>1, FS_Difference
  <2>4. OpenRows(s) \cap E = E
    OBVIOUS
  <2>5. PICK a, b, w, v : /\ a = Cardinality(OpenRows(s)) /\ b = Cardinality(E)
                         /\ w = Cardinality(OpenRows(t)) /\ v = Units(s)
    OBVIOUS
  <2>6. /\ a \in Nat /\ b \in Nat /\ v \in Nat /\ n <= b /\ w = a - b
        /\ Units(t) = v + n
    BY <1>3, <2>1, <2>2, <2>3, <2>4, <2>5
  <2>7. (v + n) + (a - b) <= v + a
    BY <1>2, <2>6
  <2> QED
    BY <2>5, <2>6, <2>7 DEF Weight
<1> QED
  BY <1>3, <1>4, <1>5, <1>6

\* A placeholder of h[1] that its reopened rows have gone to.
Heir(s, L, h) ==
  /\ h[2] \in DOMAIN s.products /\ Room(s, L, h[2])
  /\ s.products[h[2]].qty > 0 \/ s.products[h[2]].primary = h[1]

\* What p counts leaves room on other products.
LEMMA HeirStays ==
  ASSUME NEW s, NEW L, NEW p \in DOMAIN s.products, NEW t, Grows(s, t, p), NEW h, Heir(s, L, h),
         \/ h[2] = p \/ s.products[p].qty > 0 \/ h[2] \in L
         \/ s.products[h[2]].primary # s.products[p].primary
  PROVE  Heir(t, L, h)
<1>1. PICK k \in DOMAIN s.products : k = h[2]
  BY DEF Heir
<1>2. /\ DOMAIN t.products = DOMAIN s.products
      /\ \A q \in DOMAIN s.products :
           /\ t.products[q].primary = s.products[q].primary
           /\ t.products[q].provisional = s.products[q].provisional
           /\ t.products[q].gone = s.products[q].gone
      /\ \A q \in DOMAIN s.products \ {p} : t.products[q].qty = s.products[q].qty
      /\ s.products[p].qty > 0 => t.products[p].qty > 0
  BY DEF Grows
<1>3. t.products[k].qty > 0 \/ t.products[k].primary = h[1]
  BY <1>1, <1>2 DEF Heir
<1>4. Room(s, L, k)
  BY <1>1 DEF Heir
<1>5. CASE k \in L
  BY <1>1, <1>2, <1>3, <1>5 DEF Heir, Room
<1>6. CASE k \notin L
  <2>1. ~t.products[k].gone
    BY <1>2, <1>4, <1>6 DEF Room
  <2>2. ASSUME t.products[k].provisional, NEW q \in DOMAIN s.products \ {k},
               Floating(t, L, q), t.products[q].primary = t.products[k].primary
        PROVE  t.products[q].qty = 0
    <3>1. /\ s.products[k].provisional /\ Floating(s, L, q)
          /\ s.products[q].primary = s.products[k].primary
      BY <1>2, <2>2 DEF Floating
    <3>2. s.products[q].qty = 0
      BY <1>4, <1>6, <3>1 DEF Room
    <3>3. q # p
      BY <1>1, <1>6, <3>1, <3>2
    <3> QED
      BY <1>2, <3>2, <3>3
  <2>3. Room(t, L, k)
    BY <1>2, <2>1, <2>2 DEF Room
  <2> QED
    BY <1>1, <1>2, <1>3, <2>3 DEF Heir
<1> QED
  BY <1>5, <1>6

LEMMA HeirMinted ==
  ASSUME NEW s, NEW L, NEW t, NEW x, x.qty = 0, NEW p, Gains(s, t, x, p), NEW h, Heir(s, L, h)
  PROVE  Heir(t, L, h)
<1>1. PICK k \in DOMAIN s.products : k = h[2]
  BY DEF Heir
<1>2. /\ DOMAIN t.products = DOMAIN s.products \cup {p} /\ t.products[p] = x
      /\ \A q \in DOMAIN s.products : t.products[q] = s.products[q]
  BY DEF Gains
<1>3. Room(s, L, k) /\ (s.products[k].qty > 0 \/ s.products[k].primary = h[1])
  BY <1>1 DEF Heir
<1>4. t.products[p].qty = 0
  BY <1>2
<1>5. Room(t, L, k)
  BY <1>2, <1>3, <1>4 DEF Room, Floating
<1> QED
  BY <1>1, <1>2, <1>3, <1>5 DEF Heir

\* What the search for a placeholder of d comes to: one that is counted, or one
\* made for it.
Clear(s, L, p, h) ==
  \/ h[2] = p \/ s.products[p].qty > 0 \/ h[2] \in L
  \/ s.products[h[2]].primary # s.products[p].primary

LEMMA HeirFound ==
  ASSUME NEW s, NEW L, NEW N, Good(s, L, N), NEW d \in Codes, NEW p, p = First(Carriers(s, d)),
         p # None
  PROVE  /\ p \in DOMAIN s.products /\ Heir(s, L, <<d, p>>)
         /\ \A h : Clear(s, L, p, h)
<1>1. s \in Store /\ Carriers(s, d) \in SUBSET DOMAIN s.products /\ Carriers(s, d) \subseteq Counted(s)
  BY CarriersIn DEF Good, Well
<1>2. p \in Carriers(s, d)
  BY <1>1, FirstOf
<1>3. Room(s, L, p)
  BY <1>1, <1>2, RoomOn
<1>4. s.products[p].qty > 0
  BY <1>2 DEF Carriers, Counted
<1> QED
  BY <1>1, <1>2, <1>3, <1>4 DEF Heir, Clear

LEMMA HeirMade ==
  ASSUME NEW s, NEW L, NEW N, Good(s, L, N), NEW d \in Codes, First(Carriers(s, d)) = None,
         NEW p, p = Len(s.products) + 1, NEW u, u = Mint(s, Placeholder(d)),
         NEW t, t = CountLate(u, d, p), NEW k, k = CountedTwice(u, d, p)
  PROVE  /\ Good(t, L, N) /\ k \in Nat /\ Weight(t) <= Weight(s) + k
         /\ DOMAIN s.products \subseteq DOMAIN t.products /\ DOMAIN t.feed = DOMAIN s.feed
         /\ t.reviews = s.reviews /\ t.aliases = s.aliases
         /\ p \in DOMAIN t.products /\ Heir(t, L, <<d, p>>)
         /\ \A h : Heir(s, L, h) /\ h[1] # d => Heir(t, L, h) /\ Clear(t, L, p, h)
<1>0. s \in Store /\ Carriers(s, d) \in SUBSET DOMAIN s.products
  BY CarriersIn DEF Good, Well
<1>1. Carriers(s, d) = {}
  BY <1>0, FirstOf
<1>2. PICK x : x = Placeholder(d)
  OBVIOUS
<1>3. x.qty = 0 /\ x.primary = d
  BY <1>2, PlaceholderIs
<1>4. Takes(s, u, d, L, N, 0) /\ Gains(s, u, x, p) /\ Room(u, L, p)
  BY <1>1, <1>2, FreshTakes
<1>5. Good(u, L, N)
  BY <1>4 DEF Takes
<1>6. /\ DOMAIN u.products = DOMAIN s.products \cup {p} /\ u.products[p] = x
      /\ \A q \in DOMAIN s.products : u.products[q] = s.products[q]
      /\ p \notin DOMAIN s.products
      /\ u.feed = s.feed /\ u.aliases = s.aliases /\ u.reviews = s.reviews
  BY <1>4 DEF Gains
<1>7. Takes(u, t, d, L, N, k) /\ SamePlaces(u, t) /\ k \in Nat
  BY <1>4, <1>5, <1>6, CountLateTakes
<1>8. Takes(s, t, d, L, N, k)
  BY <1>4, <1>7, TakesOn
<1>9. Grows(u, t, p)
  BY <1>5, <1>6, LateGrows DEF Good, Well
<1>10. ASSUME NEW h, Heir(s, L, h), h[1] # d
       PROVE  Heir(u, L, h) /\ (h[2] \in L \/ u.products[h[2]].primary # u.products[p].primary)
  <2>1. Heir(u, L, h)
    BY <1>3, <1>4, <1>10, HeirMinted
  <2>2. PICK q \in DOMAIN s.products : q = h[2]
    BY <1>10 DEF Heir
  <2>3. /\ Room(s, L, q) /\ (s.products[q].qty > 0 \/ s.products[q].primary = h[1])
        /\ u.products[q] = s.products[q]
    BY <1>6, <1>10, <2>2 DEF Heir
  <2>4. CASE q \notin L /\ s.products[q].primary = d
    <3>1. ~s.products[q].gone /\ s.products[q].qty > 0
      BY <1>10, <2>3, <2>4, <2>2 DEF Room, Heir
    <3>2. d \in s.products[q].codes
      BY <2>4 DEF Good, Coded
    <3>3. q \in Carriers(s, d)
      BY <3>1, <3>2 DEF Carriers, Counted, Live
    <3> QED
      BY <1>1, <3>3
  <2>5. CASE ~(q \notin L /\ s.products[q].primary = d)
    BY <1>3, <1>6, <2>1, <2>2, <2>3, <2>5
  <2> QED
    BY <2>4, <2>5
<1>11. ASSUME NEW h, Heir(s, L, h), h[1] # d
       PROVE  Heir(t, L, h) /\ Clear(t, L, p, h)
  <2>1. Heir(u, L, h) /\ (h[2] \in L \/ u.products[h[2]].primary # u.products[p].primary)
    BY <1>10, <1>11
  <2>2. p \in DOMAIN u.products
    BY <1>6
  <2>3. Heir(t, L, h)
    BY <1>9, <2>1, <2>2, HeirStays
  <2>4. h[2] \in DOMAIN u.products
    BY <2>1 DEF Heir
  <2> QED
    BY <1>9, <2>1, <2>2, <2>3, <2>4 DEF Clear, Grows
<1>12. Heir(t, L, <<d, p>>)
  <2>1. Heir(u, L, <<d, p>>)
    BY <1>3, <1>4, <1>6 DEF Heir
  <2> QED
    BY <1>6, <1>9, <2>1, HeirStays
<1>13. /\ DOMAIN t.products = DOMAIN u.products /\ DOMAIN t.feed = DOMAIN u.feed
       /\ t.reviews = u.reviews /\ t.aliases = u.aliases
  BY <1>7 DEF SamePlaces
<1>14. /\ DOMAIN s.products \subseteq DOMAIN t.products /\ DOMAIN t.feed = DOMAIN s.feed
       /\ t.reviews = s.reviews /\ t.aliases = s.aliases /\ p \in DOMAIN t.products
  BY <1>6, <1>13
<1>15. Good(t, L, N) /\ Weight(t) <= Weight(s) + k
  BY <1>8 DEF Takes
<1> QED
  BY <1>7, <1>11, <1>12, <1>14, <1>15

\* Some of the codes T have been rehomed, from the store z on.
Accounts == [store : Store, heirs : SUBSET (Codes \X Nat), twice : Nat]
Homing(T, z, L, N, r) ==
  /\ r \in Accounts /\ Good(r.store, L, N) /\ Weight(r.store) <= Weight(z) + r.twice
  /\ DOMAIN z.products \subseteq DOMAIN r.store.products
  /\ DOMAIN r.store.feed = DOMAIN z.feed
  /\ r.store.reviews = z.reviews /\ r.store.aliases = z.aliases
  /\ \A h \in r.heirs : h[1] \in T /\ Heir(r.store, L, h)

\* The rows of d that were reopened.
Pending(s, d) ==
  {e \in RowsOf(s, d) : s.feed[e].product = None /\ s.feed[e].status = "needs_review"}
\* The store with a placeholder for d.
Homed(s, d) ==
  IF First(Carriers(s, d)) = None
  THEN CountLate(Mint(s, Placeholder(d)), d, Len(s.products) + 1) ELSE s
HomedTwice(s, d) ==
  IF First(Carriers(s, d)) = None
  THEN CountedTwice(Mint(s, Placeholder(d)), d, Len(s.products) + 1) ELSE 0

LEMMA HomedIs ==
  ASSUME NEW s, NEW L, NEW N, Good(s, L, N), NEW d \in Codes,
         NEW p, p = Keep(First(Carriers(s, d)), Len(s.products) + 1),
         NEW t, t = Homed(s, d), NEW k, k = HomedTwice(s, d)
  PROVE  /\ Good(t, L, N) /\ k \in Nat /\ Weight(t) <= Weight(s) + k
         /\ DOMAIN s.products \subseteq DOMAIN t.products /\ DOMAIN t.feed = DOMAIN s.feed
         /\ t.reviews = s.reviews /\ t.aliases = s.aliases
         /\ p \in DOMAIN t.products /\ Heir(t, L, <<d, p>>)
         /\ \A h : Heir(s, L, h) /\ h[1] # d => Heir(t, L, h) /\ Clear(t, L, p, h)
<1>1. PICK q : q = First(Carriers(s, d))
  OBVIOUS
<1>2. CASE q = None
  <2>1. p = Len(s.products) + 1 /\ First(Carriers(s, d)) = None
    BY <1>1, <1>2 DEF Keep
  <2>2. t = CountLate(Mint(s, Placeholder(d)), d, p) /\ k = CountedTwice(Mint(s, Placeholder(d)), d, p)
    BY <2>1 DEF Homed, HomedTwice
  <2> QED
    BY <2>1, <2>2, HeirMade
<1>3. CASE q # None
  <2>1. p = First(Carriers(s, d)) /\ p # None /\ t = s /\ k = 0
    BY <1>1, <1>3 DEF Keep, Homed, HomedTwice
  <2>2. p \in DOMAIN s.products /\ Heir(s, L, <<d, p>>) /\ \A h : Clear(s, L, p, h)
    BY <2>1, HeirFound
  <2>3. Weight(s) \in Nat
    BY WeightType
  <2>4. Weight(s) <= Weight(s) + 0
    BY <2>3
  <2> QED
    BY <2>1, <2>2, <2>4
<1> QED
  BY <1>2, <1>3

Housed(r, p, d, u, h, k) ==
  IF h # p /\ u.products[h].provisional
  THEN [store |-> CountRows(u, h, Pending(u, d)), heirs |-> r.heirs \cup {<<d, h>>},
        twice |-> r.twice + k]
  ELSE [r EXCEPT !.store = u, !.twice = @ + k]

LEMMA RehomedIs ==
  ASSUME NEW r, NEW p, NEW d, NEW s, s = r.store, NEW u, u = Homed(s, d),
         NEW h, h = Keep(First(Carriers(s, d)), Len(s.products) + 1), NEW k, k = HomedTwice(s, d)
  PROVE  Rehomed(r, p, d) = Housed(r, p, d, u, h, k)
<1> DEFINE there == First(Carriers(s, d))
           heir == Keep(there, Len(s.products) + 1)
           minted == Mint(s, Placeholder(d))
           made == IF there = None THEN CountLate(minted, d, heir) ELSE s
           pending == {e \in RowsOf(made, d) : made.feed[e].product = None
                                              /\ made.feed[e].status = "needs_review"}
           twice == IF there = None THEN CountedTwice(minted, d, heir) ELSE 0
<1>1. Rehomed(r, p, d) =
        IF heir # p /\ made.products[heir].provisional
        THEN [store |-> CountRows(made, heir, pending), heirs |-> r.heirs \cup {<<d, heir>>},
              twice |-> r.twice + twice]
        ELSE [r EXCEPT !.store = made, !.twice = @ + twice]
  BY Zenon DEF Rehomed
<1>2. there = None => heir = Len(s.products) + 1
  BY Zenon DEF Keep
<1>3. made = u /\ twice = k /\ heir = h
  <2>1. CASE there = None
    BY <1>2, <2>1, Zenon DEF Homed, HomedTwice
  <2>2. CASE there # None
    BY <2>2, Zenon DEF Homed, HomedTwice
  <2> QED
    BY <2>1, <2>2
<1>4. pending = Pending(u, d)
  BY <1>3, Zenon DEF Pending
<1> HIDE DEF there, heir, minted, made, pending, twice
<1> QED
  BY <1>1, <1>3, <1>4, Zenon DEF Housed

LEMMA PendingOpen ==
  ASSUME NEW s, NEW d
  PROVE  Pending(s, d) \in SUBSET OpenRows(s)
  BY DEF Pending, RowsOf, OpenRows

\* One more code.
LEMMA HomingStep ==
  ASSUME NEW T, NEW z, NEW L, NEW N, Good(z, L, N), NEW r, Homing(T, z, L, N, r), NEW p,
         NEW d \in Codes, d \notin T, NEW q, q = Rehomed(r, p, d)
  PROVE  Homing(T \cup {d}, z, L, N, q)
<1>1. PICK s : s = r.store
  OBVIOUS
<1>2. PICK u : u = Homed(s, d)
  OBVIOUS
<1>3. PICK k : k = HomedTwice(s, d)
  OBVIOUS
<1>4. PICK h : h = Keep(First(Carriers(s, d)), Len(s.products) + 1)
  OBVIOUS
<1>5. /\ r \in Accounts /\ Good(s, L, N) /\ Weight(s) <= Weight(z) + r.twice
      /\ DOMAIN z.products \subseteq DOMAIN s.products /\ DOMAIN s.feed = DOMAIN z.feed
      /\ s.reviews = z.reviews /\ s.aliases = z.aliases
      /\ \A x \in r.heirs : x[1] \in T /\ Heir(s, L, x)
  BY <1>1 DEF Homing
<1>6. r.heirs \in SUBSET (Codes \X Nat) /\ r.twice \in Nat
  BY <1>5 DEF Accounts
<1>7. /\ Good(u, L, N) /\ k \in Nat /\ Weight(u) <= Weight(s) + k
      /\ DOMAIN s.products \subseteq DOMAIN u.products /\ DOMAIN u.feed = DOMAIN s.feed
      /\ u.reviews = s.reviews /\ u.aliases = s.aliases
      /\ h \in DOMAIN u.products /\ Heir(u, L, <<d, h>>)
      /\ \A x : Heir(s, L, x) /\ x[1] # d => Heir(u, L, x) /\ Clear(u, L, h, x)
  BY <1>2, <1>3, <1>4, <1>5, HomedIs
<1>8. Weight(z) \in Nat /\ Weight(s) \in Nat /\ Weight(u) \in Nat
  BY <1>5, <1>7, WeightType
<1>9. Weight(u) <= Weight(z) + (r.twice + k)
  <2>1. PICK a, b, v, w : a = Weight(z) /\ b = Weight(s) /\ v = Weight(u) /\ w = r.twice
    OBVIOUS
  <2>2. /\ a \in Nat /\ b \in Nat /\ v \in Nat /\ w \in Nat /\ b <= a + w /\ v <= b + k
    BY <1>5, <1>6, <1>7, <1>8, <2>1
  <2>3. v <= a + (w + k)
    BY <1>7, <2>2
  <2> QED
    BY <2>1, <2>3
<1>10. \A x \in r.heirs : x[1] \in T \cup {d} /\ Heir(u, L, x) /\ Clear(u, L, h, x)
  BY <1>5, <1>7
<1>11. q = Housed(r, p, d, u, h, k)
  BY <1>1, <1>2, <1>3, <1>4, RehomedIs
<1>12. u \in Store
  BY <1>7 DEF Good, Well
<1>13. CASE h # p /\ u.products[h].provisional
  <2>1. PICK t : t = CountRows(u, h, Pending(u, d))
    OBVIOUS
  <2>2. q = [store |-> t, heirs |-> r.heirs \cup {<<d, h>>}, twice |-> r.twice + k]
    BY <1>11, <1>13, <2>1, Zenon DEF Housed
  <2>3. Room(u, L, h)
    BY <1>7 DEF Heir
  <2>4. Pending(u, d) \in SUBSET OpenRows(u)
    BY PendingOpen
  <2>5. Good(t, L, N) /\ Weight(t) <= Weight(u) /\ SamePlaces(u, t) /\ Grows(u, t, h)
    BY <1>7, <2>1, <2>3, <2>4, CountRowsSound
  <2>6. \A x : Heir(u, L, x) /\ Clear(u, L, h, x) => Heir(t, L, x)
    BY <1>7, <2>5, HeirStays DEF Clear
  <2>7. Clear(u, L, h, <<d, h>>)
    BY DEF Clear
  <2>8. \A x \in r.heirs \cup {<<d, h>>} : x[1] \in T \cup {d} /\ Heir(t, L, x)
    BY <1>7, <1>10, <2>6, <2>7
  <2>9. Weight(t) <= Weight(z) + (r.twice + k)
    <3>1. Weight(t) \in Nat
      BY <2>5, WeightType
    <3> QED
      BY <1>6, <1>7, <1>8, <1>9, <2>5, <3>1
  <2>10. q \in Accounts
    <3>1. t \in Store
      BY <2>5 DEF Good, Well
    <3>2. h \in Nat
      BY <1>7, <1>12, StoreFields
    <3>3. r.heirs \cup {<<d, h>>} \in SUBSET (Codes \X Nat)
      BY <1>6, <3>2
    <3>4. r.twice + k \in Nat
      BY <1>6, <1>7
    <3> QED
      BY <2>2, <3>1, <3>3, <3>4 DEF Accounts
  <2>11. /\ DOMAIN z.products \subseteq DOMAIN t.products /\ DOMAIN t.feed = DOMAIN z.feed
         /\ t.reviews = z.reviews /\ t.aliases = z.aliases
    BY <1>5, <1>7, <2>5 DEF SamePlaces
  <2>12. q.store = t /\ q.heirs = r.heirs \cup {<<d, h>>} /\ q.twice = r.twice + k
    BY <2>2
  <2> QED
    BY <2>5, <2>8, <2>9, <2>10, <2>11, <2>12 DEF Homing
<1>14. CASE ~(h # p /\ u.products[h].provisional)
  <2>1. q = [r EXCEPT !.store = u, !.twice = @ + k]
    BY <1>11, <1>14, Zenon DEF Housed
  <2>2. r.twice + k \in Nat
    BY <1>6, <1>7
  <2>3. q \in Accounts /\ q.store = u /\ q.heirs = r.heirs /\ q.twice = r.twice + k
    BY <1>5, <1>12, <2>1, <2>2 DEF Accounts
  <2>4. /\ DOMAIN z.products \subseteq DOMAIN u.products /\ DOMAIN u.feed = DOMAIN z.feed
        /\ u.reviews = z.reviews /\ u.aliases = z.aliases
    BY <1>5, <1>7
  <2> QED
    BY <1>7, <1>9, <1>10, <2>3, <2>4 DEF Homing
<1> QED
  BY <1>13, <1>14

\* The fold of markWrong, as a function of the codes rehomed so far.
Folding(F, D, p, start) ==
  F = [T \in D |-> IF T = {} THEN start
                   ELSE LET x == CHOOSE y \in T : TRUE IN Rehomed(F[T \ {x}], p, x)]
\* The subsets of S no larger than U.
Smaller(S, U) == {T \in SUBSET S : Cardinality(T) <= Cardinality(U)}

LEMMA SmallestSet ==
  ASSUME NEW S, IsFiniteSet(S), NEW B \in SUBSET SUBSET S, B # {}
  PROVE  \E T \in B : \A U \in B : U \subseteq T => U = T
<1> DEFINE R == StrictSubsetOrdering(S)
<1>1. IsWellFoundedOn(R, SUBSET S)
  BY FS_StrictSubsetOrderingWellFounded, FS_FiniteSubsetsOfFinite
<1>2. PICK T \in B : \A U \in B : ~(<<U, T>> \in R)
  <2> HIDE DEF R
  <2> QED
    BY <1>1, WFMin
<1>3. ASSUME NEW U \in B, U \subseteq T, U # T PROVE FALSE
  <2>1. <<U, T>> \in R
    BY <1>3 DEF StrictSubsetOrdering
  <2> QED
    BY <1>2, <2>1
<1> QED
  BY <1>3

LEMMA FoldExists ==
  ASSUME NEW S, IsFiniteSet(S), NEW p, NEW start
  PROVE  \E F : Folding(F, SUBSET S, p, start)
<1>0. \A T \in SUBSET S : IsFiniteSet(T) /\ Cardinality(T) \in Nat /\ (Cardinality(T) = 0 <=> T = {})
  BY FS_Subset, FS_CardinalityType, FS_EmptySet
<1> DEFINE B == {U \in SUBSET S : ~\E F : Folding(F, Smaller(S, U), p, start)}
<1>1. SUFFICES ASSUME B # {} PROVE FALSE
  <2>1. \E F : Folding(F, Smaller(S, S), p, start)
    BY <1>1
  <2>2. Smaller(S, S) = SUBSET S
    BY FS_Subset DEF Smaller
  <2> QED
    BY <2>1, <2>2
<1>2. PICK U \in B : \A V \in B : V \subseteq U => V = U
  <2>1. B \in SUBSET SUBSET S
    OBVIOUS
  <2> HIDE DEF B
  <2> QED
    BY <1>1, <2>1, SmallestSet
<1>3. CASE U = {}
  <2>1. Smaller(S, U) = {{}}
    BY <1>0, <1>3 DEF Smaller
  <2>2. PICK F : F = [T \in {{}} |-> start]
    OBVIOUS
  <2>3. F = [T \in {{}} |-> IF T = {} THEN start
                            ELSE LET x == CHOOSE y \in T : TRUE IN Rehomed(F[T \ {x}], p, x)]
    BY <2>2
  <2>4. Folding(F, Smaller(S, U), p, start)
    BY <2>1, <2>3 DEF Folding
  <2> QED
    BY <2>4
<1>4. CASE U # {}
  <2>1. PICK e \in U : TRUE
    BY <1>4
  <2>2. PICK V : V = U \ {e}
    OBVIOUS
  <2>3. V \in SUBSET S /\ V \subseteq U /\ V # U
    BY <2>1, <2>2
  <2>4. PICK G : Folding(G, Smaller(S, V), p, start)
    BY <1>2, <2>3
  <2>5. Cardinality(V) = Cardinality(U) - 1
    BY <1>0, <2>1, <2>2, FS_RemoveElement
  <2>6. PICK F : F = [T \in Smaller(S, U) |->
                       IF T = {} THEN start
                       ELSE LET x == CHOOSE y \in T : TRUE IN Rehomed(G[T \ {x}], p, x)]
    OBVIOUS
  <2>7. Smaller(S, V) \subseteq Smaller(S, U)
    <3>1. Cardinality(V) <= Cardinality(U)
      BY <1>0, <2>3, <2>5
    <3>2. ASSUME NEW T \in SUBSET S, Cardinality(T) <= Cardinality(V)
          PROVE  Cardinality(T) <= Cardinality(U)
      BY <1>0, <2>3, <3>1, <3>2
    <3> QED
      BY <3>2 DEF Smaller
  <2>8. \A T \in Smaller(S, V) : F[T] = G[T]
    BY <2>4, <2>6, <2>7 DEF Folding
  <2>9. ASSUME NEW T \in Smaller(S, U), T # {}
        PROVE  F[T] = LET x == CHOOSE y \in T : TRUE IN Rehomed(F[T \ {x}], p, x)
    <3>1. PICK x : x = CHOOSE y \in T : TRUE
      OBVIOUS
    <3>2. x \in T /\ T \in SUBSET S
      BY <2>9, <3>1 DEF Smaller
    <3>3. Cardinality(T \ {x}) = Cardinality(T) - 1
      BY <1>0, <3>2, FS_RemoveElement
    <3>4. T \ {x} \in Smaller(S, V)
      <4>1. Cardinality(T) <= Cardinality(U)
        BY DEF Smaller
      <4>2. Cardinality(T \ {x}) <= Cardinality(V)
        BY <1>0, <2>3, <2>5, <3>2, <3>3, <4>1
      <4> QED
        BY <3>2, <4>2 DEF Smaller
    <3>5. F[T] = Rehomed(G[T \ {x}], p, x)
      BY <2>6, <2>9, <3>1
    <3> QED
      BY <2>8, <3>1, <3>4, <3>5
  <2>10. Folding(F, Smaller(S, U), p, start)
    <3>1. \A T \in Smaller(S, U) :
            F[T] = IF T = {} THEN start
                   ELSE LET x == CHOOSE y \in T : TRUE IN Rehomed(F[T \ {x}], p, x)
      BY <2>6, <2>9
    <3>2. F = [T \in Smaller(S, U) |-> F[T]]
      BY <2>6
    <3> QED
      BY <3>1, <3>2 DEF Folding
  <2> QED
    BY <2>10
<1> QED
  BY <1>3, <1>4

LEMMA MovedIs ==
  ASSUME NEW S, IsFiniteSet(S), NEW p, NEW start
  PROVE  \E F : Folding(F, SUBSET S, p, start) /\ AllRehomed(start, p, S) = F[S]
<1> DEFINE Body(F) == [T \in SUBSET S |->
                         IF T = {} THEN start
                         ELSE LET x == CHOOSE x \in T : TRUE IN Rehomed(F[T \ {x}], p, x)]
           P(F) == F = Body(F)
           g[T \in SUBSET S] ==
             IF T = {} THEN start
             ELSE LET x == CHOOSE x \in T : TRUE IN Rehomed(g[T \ {x}], p, x)
<1>1. AllRehomed(start, p, S) = g[S]
  BY DEF AllRehomed, FoldSet, MapThenFoldSet
<1>2. PICK h : P(h)
  <2>1. PICK h : Folding(h, SUBSET S, p, start)
    BY FoldExists
  <2>2. P(h)
    BY <2>1, Zenon DEF Folding
  <2> QED
    BY <2>2
<1>3. g = CHOOSE F : P(F)
  OBVIOUS
<1> HIDE DEF g, P
<1>4. P(CHOOSE F : P(F))
  BY <1>2
<1>5. g = Body(g)
  BY <1>3, <1>4 DEF P
<1>6. Folding(g, SUBSET S, p, start)
  BY <1>5 DEF Folding
<1> QED
  BY <1>1, <1>6

LEMMA HomingAll ==
  ASSUME NEW z, NEW L, NEW N, Good(z, L, N), NEW S \in SUBSET Codes, IsFiniteSet(S), NEW p,
         NEW start, Homing({}, z, L, N, start), NEW r, r = AllRehomed(start, p, S)
  PROVE  Homing(S, z, L, N, r)
<1>1. PICK F : Folding(F, SUBSET S, p, start) /\ r = F[S]
  BY MovedIs
<1>2. \A T \in SUBSET S :
        F[T] = IF T = {} THEN start
               ELSE LET x == CHOOSE y \in T : TRUE IN Rehomed(F[T \ {x}], p, x)
  BY <1>1 DEF Folding
<1> DEFINE B == {T \in SUBSET S : ~Homing(T, z, L, N, F[T])}
<1>3. SUFFICES ASSUME B # {} PROVE FALSE
  BY <1>1
<1>4. PICK T \in B : \A U \in B : U \subseteq T => U = T
  <2>1. B \in SUBSET SUBSET S
    OBVIOUS
  <2> HIDE DEF B
  <2> QED
    BY <1>3, <2>1, SmallestSet
<1>5. T # {}
  BY <1>2
<1>6. PICK x : x = CHOOSE y \in T : TRUE
  OBVIOUS
<1>7. x \in T /\ T \in SUBSET S /\ x \in Codes
  BY <1>5, <1>6
<1>8. PICK U : U = T \ {x}
  OBVIOUS
<1>9. Homing(U, z, L, N, F[U])
  BY <1>4, <1>7, <1>8
<1>10. F[T] = Rehomed(F[U], p, x)
  BY <1>2, <1>5, <1>6, <1>7, <1>8
<1>11. PICK q : q = Rehomed(F[U], p, x)
  OBVIOUS
<1>12. Homing(U \cup {x}, z, L, N, q)
  BY <1>7, <1>8, <1>9, <1>11, HomingStep
<1>13. U \cup {x} = T
  BY <1>7, <1>8
<1> QED
  BY <1>10, <1>11, <1>12, <1>13

\* A row that has joined is counted on p for n units.
LEMMA RowStands ==
  ASSUME NEW s, NEW L, NEW N, NEW v, Good(s, L, N), Good(v, L, N), NEW k, NEW c, RowJoins(s, v, k, c),
         NEW p \in DOMAIN s.products, Room(s, L, p), NEW E \in SUBSET DOMAIN v.feed,
         OpenRows(v) \ E = OpenRows(s), NEW n \in Nat,
         NEW t, Counts(v, t, p, E, n), Covers(v, p, E, n)
  PROVE  Good(t, L, N) /\ Weight(t) <= Weight(s) + n
<1>0. s \in Store
  BY DEF Good, Well
<1>1. /\ v.products = s.products /\ Units(v) = Units(s) /\ OpenRows(v) = OpenRows(s) \cup {k}
      /\ DOMAIN v.feed = DOMAIN s.feed \cup {k} /\ k \notin OpenRows(s)
  BY DEF RowJoins
<1>2. Room(v, L, p)
  BY <1>1 DEF Room, Floating
<1>5. p \in DOMAIN v.products
  BY <1>1
<1>6. Good(t, L, N) /\ Units(t) = Units(v) + n /\ OpenRows(t) = OpenRows(v) \ E
  <2>1. PICK m : m = n
    OBVIOUS
  <2>2. m \in Nat /\ Counts(v, t, p, E, m) /\ Covers(v, p, E, m)
    BY <2>1
  <2>3. p \in DOMAIN v.products /\ E \in SUBSET DOMAIN v.feed /\ Good(v, L, N) /\ Room(v, L, p)
    BY <1>2, <1>5
  <2>4. Good(t, L, N) /\ Units(t) = Units(v) + m /\ OpenRows(t) = OpenRows(v) \ E
    BY <2>2, <2>3, CountSound
  <2> QED
    BY <2>1, <2>4
<1>7. OpenRows(t) = OpenRows(s)
  BY <1>1, <1>6
<1>8. Units(s) \in Nat /\ Cardinality(OpenRows(s)) \in Nat
  BY <1>0, RowsFinite
<1>9. PICK i, j : i = Units(s) /\ j = Cardinality(OpenRows(s))
  OBVIOUS
<1>10. Units(t) = i + n /\ Cardinality(OpenRows(t)) = j /\ i \in Nat /\ j \in Nat
  BY <1>1, <1>6, <1>7, <1>8, <1>9
<1>11. (i + n) + j <= (i + j) + n
  BY <1>10
<1> QED
  BY <1>6, <1>9, <1>10, <1>11 DEF Weight

\* A row that stands for n units of p.
Standing(s, p, n) ==
  [s EXCEPT !.products[p].qty = @ + n, !.products[p].events = @ \cup {Len(s.feed)}]

KnownRow(s, c, p) == NewRow(s, c, p, "known", FALSE)

LEMMA StandingSound ==
  ASSUME NEW s, NEW L, NEW N, Good(s, L, N), NEW c \in Codes, NEW p \in DOMAIN s.products,
         Room(s, L, p), NEW n \in Nat, n > 0,
         NEW t, t = Standing(KnownRow(s, c, p), p, n)
  PROVE  Good(t, L, N) /\ Weight(t) <= Weight(s) + n
         /\ DOMAIN t.products = DOMAIN s.products /\ t.reviews = s.reviews /\ t.aliases = s.aliases
<1>0. /\ s \in Store /\ s.feed \in Seq(FeedRow) /\ Len(s.feed) \in Nat /\ p \in Nat
      /\ s.products[p] \in Product
  BY StoreFields DEF Good, Well
<1>1. PICK b : b = FALSE
  OBVIOUS
<1>2. b \in BOOLEAN
  BY <1>1, Zenon
<1>3. PICK k : k = Len(s.feed) + 1
  OBVIOUS
<1>4. PICK v : v = NewRow(s, c, None, "needs_review", b)
  OBVIOUS
<1>5. Good(v, L, N) /\ RowJoins(s, v, k, c)
      /\ v.feed = Append(s.feed, [code |-> c, product |-> None, status |-> "needs_review",
                                  decoding |-> b])
  BY <1>2, <1>3, <1>4, NewRowSound
<1>6. PICK x : x = [code |-> c, product |-> None, status |-> "needs_review", decoding |-> b]
  OBVIOUS
<1>7. PICK y : y = [code |-> c, product |-> p, status |-> "known", decoding |-> b]
  OBVIOUS
<1>8. x \in FeedRow /\ y \in FeedRow /\ y.product = p /\ y.status = "known"
  BY <1>0, <1>2, <1>6, <1>7 DEF FeedRow
<1>9. PICK G : G = Append(s.feed, y)
  OBVIOUS
<1>10. /\ G \in Seq(FeedRow) /\ Len(G) = k /\ DOMAIN G = DOMAIN s.feed \cup {k}
       /\ k \notin DOMAIN s.feed /\ G[k] = y /\ \A e \in DOMAIN s.feed : G[e] = s.feed[e]
  BY <1>0, <1>3, <1>8, <1>9, SeqGrown
<1>11. /\ DOMAIN v.feed = DOMAIN s.feed \cup {k} /\ Len(v.feed) = k
       /\ \A e \in DOMAIN s.feed : v.feed[e] = s.feed[e]
  BY <1>0, <1>3, <1>5, <1>6, <1>8, SeqGrown
<1>12. PICK u : u = KnownRow(s, c, p)
  OBVIOUS
<1>13. u = [s EXCEPT !.feed = G]
  BY <1>1, <1>7, <1>9, <1>12 DEF KnownRow, NewRow, Store
<1>14. /\ u \in Store /\ u.feed = G /\ u.products = s.products /\ u.aliases = s.aliases
       /\ u.reviews = s.reviews
  BY <1>0, <1>10, <1>13, NewFeed
<1>15. PICK z \in Product : z = s.products[p]
  BY <1>0
<1>16. PICK w : w = Recounted(z, z.qty + n, z.events \cup {k})
  OBVIOUS
<1>17. w \in Product
  <2>1. z.qty + n \in Nat /\ z.events \cup {k} \in SUBSET Nat
    BY <1>0, <1>3 DEF Product
  <2> QED
    BY <1>16, <2>1, RecountedIs
<1>18. t = [u EXCEPT !.products = [u.products EXCEPT ![p] = w]]
  <2>1. t = Standing(u, p, n) /\ Len(u.feed) = k /\ z = u.products[p]
    BY <1>10, <1>12, <1>14, <1>15
  <2> QED
    <3>1. t = Grown(u, p, n, {k})
      BY <2>1, Zenon DEF Standing, Grown
    <3>2. p \in DOMAIN u.products
      BY <1>14
    <3>3. w = Recounted(u.products[p], u.products[p].qty + n, u.products[p].events \cup {k})
      BY <1>16, <2>1, Zenon
    <3> QED
      <4>1. u \in Store /\ u.products \in [DOMAIN u.products -> Product]
        BY <1>14, StoreFields, SeqFacts
      <4> QED
        BY <3>1, <3>2, <3>3, <4>1 DEF Grown, Recounted, Store, Product
<1>19. ProductPut(u, t, p, w)
  BY <1>14, <1>17, <1>18, OneProduct
<1>20. /\ t \in Store /\ DOMAIN t.products = DOMAIN s.products /\ Len(t.products) = Len(s.products)
       /\ t.aliases = s.aliases /\ t.feed = G /\ t.reviews = s.reviews /\ t.products[p] = w
       /\ \A q \in DOMAIN s.products \ {p} : t.products[q] = s.products[q]
  BY <1>14, <1>19 DEF ProductPut, OnlyProducts
<1>21. v.products = s.products /\ v.aliases = s.aliases /\ v.reviews = s.reviews
       /\ Units(v) = Units(s) /\ OpenRows(v) = OpenRows(s) \cup {k}
  BY <1>5 DEF RowJoins
<1>22. /\ t.products[p] = Recounted(v.products[p], v.products[p].qty + n, v.products[p].events \cup {k})
       /\ \A q \in DOMAIN v.products \ {p} : t.products[q] = v.products[q]
       /\ \A e \in DOMAIN v.feed \ {k} : t.feed[e] = v.feed[e]
       /\ t.feed[k].product = p /\ t.feed[k].status = "known"
       /\ DOMAIN t.products = DOMAIN v.products /\ DOMAIN t.feed = DOMAIN v.feed
       /\ Len(t.products) = Len(v.products) /\ Len(t.feed) = Len(v.feed)
       /\ t.aliases = v.aliases /\ t.reviews = v.reviews
  BY <1>8, <1>10, <1>11, <1>15, <1>16, <1>20, <1>21
<1>23. Counts(v, t, p, {k}, n)
  BY <1>20, <1>22 DEF Counts
<1>24. PICK E : E = {k}
  OBVIOUS
<1>25. Covers(v, p, E, n)
  <2>1. IsFiniteSet({k}) /\ Cardinality({k}) = 1
    BY FS_Singleton
  <2>2. PICK D : D = E \ v.products[p].events
    OBVIOUS
  <2>3. D \subseteq {k}
    BY <1>24, <2>2
  <2>4. Cardinality(D) <= 1 /\ Cardinality(D) \in Nat
    BY <2>1, <2>3, FS_Subset, FS_CardinalityType
  <2> QED
    BY <2>2, <2>4 DEF Covers
<1>26. Good(v, L, N) /\ RowJoins(s, v, k, c)
  BY <1>5
<1>27. Counts(v, t, p, E, n) /\ E \in SUBSET DOMAIN v.feed
  BY <1>11, <1>23, <1>24
<1>28. OpenRows(v) \ E = OpenRows(s)
  BY <1>5, <1>21, <1>24 DEF RowJoins
<1>29. Good(t, L, N) /\ Weight(t) <= Weight(s) + n
  BY <1>25, <1>26, <1>27, <1>28, RowStands
<1> QED
  BY <1>20, <1>29

\* The units no row accounts for: t is the store r with a row for those of the n
\* that the rows K leave.
Accounted(r, t, L, N, n, K) ==
  /\ Good(t, L, N) /\ DOMAIN r.store.products \subseteq DOMAIN t.products
  /\ t.reviews = r.store.reviews /\ t.aliases = r.store.aliases
  /\ r.heirs = {} => Weight(t) <= Weight(r.store)
  /\ Cardinality(K) <= n => Weight(t) <= Weight(r.store) + (n - Cardinality(K))

LEMMA ResidueSound ==
  ASSUME NEW r \in Accounts, NEW L, NEW N, Good(r.store, L, N),
         \A h \in r.heirs : Heir(r.store, L, h),
         NEW units \in Nat, NEW E, NEW K, K = Kept(r, E), Cardinality(K) \in Nat,
         NEW t, t = Residue(r, units, E)
  PROVE  Accounted(r, t, L, N, units, K)
<1>1. PICK n : n = units - Cardinality(K)
  OBVIOUS
<1>2. Weight(r.store) \in Nat
  BY WeightType
<1>3. n \in Int /\ (n <= 0 <=> Cardinality(K) >= units)
  BY <1>1
<1>4. CASE n <= 0 \/ r.heirs = {}
  <2>1. t = r.store
    BY <1>1, <1>4 DEF Residue
  <2>2. PICK i, j : i = Cardinality(K) /\ j = Weight(r.store)
    OBVIOUS
  <2>3. i <= units => j <= j + (units - i)
    BY <1>2, <2>2
  <2> QED
    BY <1>2, <2>1, <2>2, <2>3 DEF Accounted
<1>5. CASE ~(n <= 0 \/ r.heirs = {})
  <2>1. PICK h : h = CHOOSE x \in r.heirs : TRUE
    OBVIOUS
  <2>2. h \in r.heirs
    BY <1>5, <2>1
  <2>3. h[1] \in Codes /\ h[2] \in DOMAIN r.store.products /\ Room(r.store, L, h[2])
    BY <2>2 DEF Accounts, Heir
  <2>4. PICK c \in Codes : c = h[1]
    BY <2>3
  <2>5. PICK p \in DOMAIN r.store.products : p = h[2]
    BY <2>3
  <2>6. PICK s : s = r.store
    OBVIOUS
  <2>7. t = Standing(KnownRow(s, c, p), p, n)
    BY <1>1, <1>5, <2>1, <2>4, <2>5, <2>6, Zenon DEF Residue, Standing, KnownRow
  <2>8. n \in Nat /\ n > 0
    BY <1>3, <1>5
  <2>9. Good(t, L, N) /\ Weight(t) <= Weight(s) + n
         /\ DOMAIN t.products = DOMAIN s.products /\ t.reviews = s.reviews /\ t.aliases = s.aliases
    BY <2>3, <2>5, <2>6, <2>7, <2>8, StandingSound
  <2> QED
    BY <1>1, <1>3, <1>5, <2>6, <2>9 DEF Accounted
<1> QED
  BY <1>4, <1>5

\* The parts of markWrong.
CodesAt(s, E) == {s.feed[e].code : e \in E}
Homes(s, p) ==
  IF On(s, p) # {} THEN CodesAt(s, On(s, p)) ELSE CodesAt(s, s.products[p].events)
Rehoming(s, p) ==
  AllRehomed([store |-> Withdrawn(s, p, CodesAt(s, On(s, p) \cup s.products[p].events)),
              heirs |-> {}, twice |-> 0], p, Homes(s, p))
Doubled(s, p) ==
  IF Rehoming(s, p).heirs = {} THEN On(s, p) \ s.products[p].events
  ELSE On(s, p) \ Kept(Rehoming(s, p), s.products[p].events)
Unmade(s, p) == Residue(Rehoming(s, p), s.products[p].qty, s.products[p].events)

LEMMA CodesFinite ==
  ASSUME NEW s \in Store, NEW E \in SUBSET DOMAIN s.feed
  PROVE  IsFiniteSet(CodesAt(s, E)) /\ CodesAt(s, E) \in SUBSET Codes
<1>0. IsFiniteSet(E) /\ \A e \in DOMAIN s.feed : s.feed[e] \in FeedRow
  BY RowsFinite, StoreFields
<1>1. PICK f : f = [e \in E |-> s.feed[e].code]
  OBVIOUS
<1>2. f \in Surjection(E, CodesAt(s, E))
  BY <1>1 DEF Surjection, CodesAt
<1>3. IsFiniteSet(CodesAt(s, E))
  BY <1>0, <1>2, FS_Surjection
<1>4. \A e \in E : s.feed[e].code \in Codes
  BY <1>0 DEF FeedRow
<1> QED
  BY <1>3, <1>4 DEF CodesAt

\* What there is of M is outside X or in it.
LEMMA PartsOf ==
  ASSUME NEW M, IsFiniteSet(M), NEW X, IsFiniteSet(X)
  PROVE  Cardinality(M) <= Cardinality(M \ X) + Cardinality(X)
<1>1. Cardinality(M \ X) = Cardinality(M) - Cardinality(M \cap X)
  BY FS_Difference
<1>2. M \cap X \subseteq X /\ M \cap X \subseteq M
  OBVIOUS
<1>3. Cardinality(M \cap X) <= Cardinality(X) /\ Cardinality(M \cap X) \in Nat
      /\ Cardinality(M) \in Nat /\ Cardinality(X) \in Nat
  BY <1>2, FS_Subset, FS_CardinalityType
<1>4. PICK a, b, c, d : /\ a = Cardinality(M) /\ b = Cardinality(M \cap X)
                       /\ c = Cardinality(X) /\ d = Cardinality(M \ X)
  OBVIOUS
<1> QED
  BY <1>1, <1>3, <1>4

LEMMA JoinedIs ==
  ASSUME NEW M, IsFiniteSet(M), NEW X, IsFiniteSet(X)
  PROVE  Cardinality(M \cup X) <= Cardinality(M) + Cardinality(X)
<1>1. Cardinality(M \cup X) = Cardinality(M) + Cardinality(X) - Cardinality(M \cap X)
  BY FS_Union
<1>2. Cardinality(M \cap X) \in Nat /\ Cardinality(M) \in Nat /\ Cardinality(X) \in Nat
  BY FS_Intersection, FS_CardinalityType
<1>3. PICK a, b, c, d : /\ a = Cardinality(M) /\ b = Cardinality(M \cap X)
                       /\ c = Cardinality(X) /\ d = Cardinality(M \cup X)
  OBVIOUS
<1> QED
  BY <1>1, <1>2, <1>3

\* The units of p go to placeholders, once, but for the rows that are doubled.
LEMMA RehomingIs ==
  ASSUME NEW s, NEW N, Good(s, Named(s), N), NEW p \in DOMAIN s.products, NEW r, r = Rehoming(s, p)
  PROVE  /\ r \in Accounts /\ Good(r.store, Named(s), N)
         /\ \A h \in r.heirs : Heir(r.store, Named(s), h)
         /\ Named(r.store) = Named(s) /\ r.store.reviews = s.reviews
         /\ DOMAIN s.products \subseteq DOMAIN r.store.products
         /\ Weight(r.store) <= Weight(s) - s.products[p].qty + Cardinality(On(s, p)) + r.twice
<1>0. s \in Store /\ s.products[p] \in Product /\ s.products[p].qty \in Nat
  BY StoreFields DEF Good, Well, Product
<1>1. PICK C : C = CodesAt(s, On(s, p) \cup s.products[p].events)
  OBVIOUS
<1>2. PICK u : u = Withdrawn(s, p, C)
  OBVIOUS
<1>3. Withdraws(s, u, p)
  BY <1>0, <1>2, WithdrawnIs
<1>4. PICK L : L = Named(s)
  OBVIOUS
<1>5. Good(u, L, N) /\ Units(u) = Units(s) - s.products[p].qty /\ OpenRows(u) = OpenRows(s) \cup On(s, p)
  BY <1>3, <1>4, WithdrawnSound
<1>6. Named(u) = L /\ u.reviews = s.reviews /\ DOMAIN u.products = DOMAIN s.products
  BY <1>3, <1>4 DEF Withdraws
<1>7. PICK start : start = [store |-> u, heirs |-> {}, twice |-> 0]
  OBVIOUS
<1>8. PICK S : S = Homes(s, p)
  OBVIOUS
<1>9. IsFiniteSet(S) /\ S \in SUBSET Codes
  <2>1. On(s, p) \in SUBSET DOMAIN s.feed /\ s.products[p].events \in SUBSET DOMAIN s.feed
    BY DEF On, Good, Booked
  <2> QED
    BY <1>0, <1>8, <2>1, CodesFinite DEF Homes
<1>10. r = AllRehomed(start, p, S)
  BY <1>1, <1>2, <1>7, <1>8, Zenon DEF Rehoming
<1>11. Homing({}, u, L, N, start)
  <2>1. u \in Store /\ Weight(u) \in Nat
    BY <1>5, WeightType DEF Good, Well
  <2>2. start \in Accounts /\ start.store = u /\ start.heirs = {} /\ start.twice = 0
    BY <1>7, <2>1 DEF Accounts
  <2>3. Weight(u) <= Weight(u) + 0
    BY <2>1
  <2> QED
    BY <1>5, <2>2, <2>3 DEF Homing
<1>12. Homing(S, u, L, N, r)
  BY <1>5, <1>9, <1>10, <1>11, HomingAll
<1>13. /\ r \in Accounts /\ Good(r.store, L, N) /\ Weight(r.store) <= Weight(u) + r.twice
       /\ DOMAIN u.products \subseteq DOMAIN r.store.products
       /\ r.store.reviews = u.reviews /\ r.store.aliases = u.aliases
       /\ \A h \in r.heirs : Heir(r.store, L, h)
  BY <1>12 DEF Homing
<1>14. Named(r.store) = L
  BY <1>6, <1>13 DEF Named
<1>15. Weight(r.store) <= Weight(s) - s.products[p].qty + Cardinality(On(s, p)) + r.twice
  <2>1. /\ IsFiniteSet(OpenRows(s)) /\ IsFiniteSet(On(s, p)) /\ Cardinality(OpenRows(s)) \in Nat
        /\ Cardinality(On(s, p)) \in Nat /\ Units(s) \in Nat
    <3>1. On(s, p) \in SUBSET DOMAIN s.feed
      BY DEF On
    <3> QED
      BY <1>0, <3>1, RowsFinite
  <2>2. Cardinality(OpenRows(u)) <= Cardinality(OpenRows(s)) + Cardinality(On(s, p))
    BY <1>5, <2>1, JoinedIs
  <2>3. u \in Store /\ Units(u) \in Nat /\ Cardinality(OpenRows(u)) \in Nat
    BY <1>5, RowsFinite DEF Good, Well
  <2>4. Weight(r.store) \in Nat /\ r.twice \in Nat
    BY <1>13, WeightType DEF Accounts
  <2>5. PICK a, b, c, d, e, f, g, h :
          /\ a = Units(s) /\ b = Cardinality(OpenRows(s)) /\ c = Cardinality(On(s, p))
          /\ d = Units(u) /\ e = Cardinality(OpenRows(u)) /\ f = Weight(r.store) /\ g = r.twice
          /\ h = s.products[p].qty
    OBVIOUS
  <2>6. /\ a \in Nat /\ b \in Nat /\ c \in Nat /\ d \in Nat /\ e \in Nat /\ f \in Nat /\ g \in Nat
        /\ h \in Nat /\ d = a - h /\ e <= b + c
    BY <1>0, <1>5, <2>1, <2>2, <2>3, <2>4, <2>5
  <2>7. f <= (d + e) + g
    BY <1>13, <2>5 DEF Weight
  <2>8. f <= (a + b) - h + c + g
    BY <2>6, <2>7
  <2> QED
    BY <2>5, <2>8 DEF Weight
<1> QED
  BY <1>4, <1>6, <1>13, <1>14, <1>15

\* markWrong brings no unit but those of the rows that are doubled.
LEMMA UnmadeBrings ==
  ASSUME NEW s, NEW N, Good(s, Named(s), N), NEW p \in DOMAIN s.products, NEW c \in Codes,
         NEW t, t = Reopened(Unmade(s, p), c),
         NEW k, k = Rehoming(s, p).twice + Cardinality(Doubled(s, p))
  PROVE  Brings(s, t, c, N, k) /\ k \in Nat
<1>1. PICK r : r = Rehoming(s, p)
  OBVIOUS
<1>2. PICK L : L = Named(s)
  OBVIOUS
<1>3. PICK E : E = s.products[p].events
  OBVIOUS
<1>4. PICK n : n = s.products[p].qty
  OBVIOUS
<1>5. /\ s \in Store /\ n \in Nat /\ E \in SUBSET DOMAIN s.feed /\ Cardinality(E) <= n
      /\ On(s, p) \in SUBSET DOMAIN s.feed
  <2>1. s \in Store /\ s.products[p] \in Product
    BY StoreFields DEF Good, Well
  <2> QED
    BY <1>3, <1>4, <2>1 DEF Good, Booked, On, Product
<1>6. /\ r \in Accounts /\ Good(r.store, L, N) /\ \A h \in r.heirs : Heir(r.store, L, h)
      /\ Named(r.store) = L /\ r.store.reviews = s.reviews
      /\ DOMAIN s.products \subseteq DOMAIN r.store.products
      /\ Weight(r.store) <= Weight(s) - n + Cardinality(On(s, p)) + r.twice
  BY <1>1, <1>2, <1>4, RehomingIs
<1>7. PICK K : K = Kept(r, E)
  OBVIOUS
<1>8. K \subseteq E
  BY <1>7 DEF Kept
<1>9. /\ IsFiniteSet(E) /\ Cardinality(E) \in Nat /\ IsFiniteSet(K) /\ Cardinality(K) \in Nat
      /\ IsFiniteSet(On(s, p)) /\ Cardinality(On(s, p)) \in Nat
  <2>1. K \in SUBSET DOMAIN s.feed
    BY <1>5, <1>8
  <2> QED
    BY <1>5, <2>1, RowsFinite
<1>10. Cardinality(K) <= n
  <2>1. Cardinality(K) <= Cardinality(E)
    BY <1>8, <1>9, FS_Subset
  <2> QED
    BY <1>5, <1>9, <2>1
<1>11. PICK v : v = Unmade(s, p)
  OBVIOUS
<1>12. v = Residue(r, n, E)
  BY <1>1, <1>3, <1>4, <1>11 DEF Unmade
<1>13. /\ Good(v, L, N) /\ DOMAIN r.store.products \subseteq DOMAIN v.products
       /\ v.reviews = r.store.reviews /\ v.aliases = r.store.aliases
       /\ r.heirs = {} => Weight(v) <= Weight(r.store)
       /\ Cardinality(K) <= n => Weight(v) <= Weight(r.store) + (n - Cardinality(K))
  <2>1. Accounted(r, v, L, N, n, K)
    BY <1>5, <1>6, <1>7, <1>9, <1>12, ResidueSound
  <2> QED
    BY <2>1 DEF Accounted
<1>14. PICK D : D = Doubled(s, p)
  OBVIOUS
<1>15. D = IF r.heirs = {} THEN On(s, p) \ E ELSE On(s, p) \ K
  BY <1>1, <1>3, <1>7, <1>14 DEF Doubled
<1>16. D \in SUBSET DOMAIN s.feed /\ Cardinality(D) \in Nat
  <2>1. D \in SUBSET DOMAIN s.feed
    BY <1>5, <1>15
  <2> QED
    BY <1>5, <2>1, RowsFinite
<1>17. /\ Cardinality(On(s, p)) <= Cardinality(On(s, p) \ E) + Cardinality(E)
       /\ Cardinality(On(s, p)) <= Cardinality(On(s, p) \ K) + Cardinality(K)
  BY <1>9, PartsOf
<1>18. r.twice \in Nat /\ k = r.twice + Cardinality(D)
  BY <1>1, <1>6, <1>14 DEF Accounts
<1>19. Weight(v) <= Weight(s) + k
  <2>1. Weight(s) \in Nat /\ Weight(v) \in Nat /\ Weight(r.store) \in Nat
    BY <1>6, <1>13, WeightType
  <2>2. PICK a, b, d, e, f, g, h, i :
          /\ a = Weight(s) /\ b = Weight(v) /\ d = Weight(r.store) /\ e = r.twice
          /\ f = Cardinality(D) /\ g = Cardinality(On(s, p)) /\ h = Cardinality(E)
          /\ i = Cardinality(K)
    OBVIOUS
  <2>3. /\ a \in Nat /\ b \in Nat /\ d \in Nat /\ e \in Nat /\ f \in Nat /\ g \in Nat /\ h \in Nat
        /\ i \in Nat /\ n \in Nat /\ h <= n /\ i <= n
    BY <1>5, <1>9, <1>10, <1>16, <1>18, <2>1, <2>2
  <2>4. d <= a - n + g + e /\ k = e + f
    BY <1>6, <1>18, <2>2
  <2>5. CASE r.heirs = {}
    <3>1. b <= d /\ g <= f + h
      BY <1>13, <1>15, <1>17, <2>2, <2>5
    <3>2. b <= a + (e + f)
      BY <2>3, <2>4, <3>1
    <3> QED
      BY <2>2, <2>4, <3>2
  <2>6. CASE r.heirs # {}
    <3>1. b <= d + (n - i) /\ g <= f + i
      BY <1>10, <1>13, <1>15, <1>17, <2>2, <2>6
    <3>2. b <= a + (e + f)
      BY <2>3, <2>4, <3>1
    <3> QED
      BY <2>2, <2>4, <3>2
  <2> QED
    BY <2>5, <2>6
<1>20. k \in Nat
  BY <1>16, <1>18
<1>21. Named(v) = L
  BY <1>6, <1>13 DEF Named
<1>22. Brings(s, v, c, N, k)
  <2>1. /\ DOMAIN s.products \subseteq DOMAIN v.products /\ Named(s) \subseteq Named(v)
        /\ v.reviews = s.reviews
    BY <1>2, <1>6, <1>13, <1>21
  <2>2. Moves(s, v, c)
    BY <2>1 DEF Moves
  <2> QED
    BY <1>13, <1>19, <1>21, <2>2 DEF Brings
<1>23. Good(v, Named(v), N)
  BY <1>13, <1>21
<1>24. Brings(v, t, c, N, 0)
  BY <1>11, <1>23, ReopenedBrings
<1>25. Brings(s, t, c, N, k + 0)
  BY <1>20, <1>22, <1>24, BringsThen
<1> QED
  BY <1>20, <1>25

-----------------------------------------------------------------------------
(* The inductive invariant *)

\* A sound store, and no more units on the books or to come than were scanned.
IInv ==
  /\ Good(store, Named(store), renamed)
  /\ renamed \subseteq DOMAIN store.products
  /\ decode \in [Codes -> {"idle", "queued", "asked"}]
  /\ scans \in 0..MaxScans /\ acts \in 0..MaxActs /\ again \in Nat /\ applied \in Nat
  /\ Weight(store) <= scans + applied + again

\* The store to begin with.
Known(C) ==
  [codes |-> C, primary |-> CHOOSE c \in C : TRUE, provisional |-> FALSE, verified |-> TRUE,
   gone |-> FALSE, name |-> "human", qty |-> 0, events |-> {}]

LEMMA KnownIs ==
  ASSUME NEW C \in (SUBSET Codes) \ {{}}
  PROVE  LET x == Known(C)
         IN /\ x \in Product /\ x.primary \in x.codes /\ ~x.provisional /\ ~x.gone /\ x.qty = 0
            /\ x.events = {} /\ x.name = "human"
<1>1. PICK d : d = CHOOSE c \in C : TRUE
  OBVIOUS
<1>2. d \in C /\ d \in Codes
  BY <1>1
<1>3. PICK f : f = FALSE
  OBVIOUS
<1>4. PICK g : g = TRUE
  OBVIOUS
<1>5. f \in BOOLEAN /\ g \in BOOLEAN
  BY <1>3, <1>4, Zenon
<1>6. PICK x : x = [codes |-> C, primary |-> d, provisional |-> f, verified |-> g, gone |-> f,
                    name |-> "human", qty |-> 0, events |-> {}]
  OBVIOUS
<1>7. x \in Product
  BY <1>2, <1>5, <1>6 DEF Product, Names
<1>8. /\ x.primary = d /\ x.codes = C /\ x.qty = 0 /\ x.events = {} /\ x.name = "human"
      /\ x.provisional = f /\ x.gone = f
  BY <1>6
<1>9. x = Known(C)
  BY <1>1, <1>3, <1>4, <1>6, Zenon DEF Known
<1>10. ~f
  BY <1>3
<1>11. ~x.provisional /\ ~x.gone
  BY <1>8, <1>10, Zenon
<1> QED
  BY <1>2, <1>7, <1>8, <1>9, <1>11

LEMMA InitHolds ==
  ASSUME Init
  PROVE  IInv
<1>1. PICK P : P = [p \in DOMAIN Catalogue |-> Known(Catalogue[p])]
  OBVIOUS
<1>2. /\ Len(Catalogue) \in Nat /\ DOMAIN Catalogue = 1..Len(Catalogue)
      /\ \A p \in DOMAIN Catalogue : Catalogue[p] \in (SUBSET Codes) \ {{}}
  BY CatalogueAssumption, LenProperties, ElementOfSeq
<1>3. \A p \in DOMAIN Catalogue :
        LET x == P[p]
        IN /\ x \in Product /\ x.primary \in x.codes /\ ~x.provisional /\ ~x.gone /\ x.qty = 0
           /\ x.events = {} /\ x.name = "human"
  BY <1>1, <1>2, KnownIs
<1>4. P \in Seq(Product) /\ DOMAIN P = DOMAIN Catalogue
  <2>1. P \in [1..Len(Catalogue) -> Product] /\ DOMAIN P = DOMAIN Catalogue
    BY <1>1, <1>2, <1>3
  <2> QED
    BY <1>2, <2>1, SeqDef
<1>5. PICK q : q = <<>>
  OBVIOUS
<1>6. q \in Seq(FeedRow) /\ DOMAIN q = {}
  BY <1>5, EmptySeq
<1>7. PICK R : R = [c \in Codes |-> NoReview]
  OBVIOUS
<1>8. R \in [Codes -> Review] /\ \A c \in Codes : R[c].provisional = None
  BY <1>7 DEF NoReview, Review
<1>9. store = [products |-> P, aliases |-> {}, feed |-> q, reviews |-> R]
  BY <1>1, <1>5, <1>7, Zenon DEF Init, Known
<1>10. store \in Store /\ store.products = P /\ store.aliases = {} /\ store.feed = q /\ store.reviews = R
  BY <1>4, <1>6, <1>8, <1>9 DEF Store
<1> DEFINE s == store
<1> HIDE DEF s
<1>11. /\ s \in Store /\ s.products = P /\ s.aliases = {} /\ DOMAIN s.feed = {} /\ s.reviews = R
  BY <1>6, <1>10 DEF s
<1>12. Well(s)
  BY <1>8, <1>11 DEF Well, Refs
<1>13. Booked(s)
  <2>1. Cardinality({}) = 0
    BY FS_EmptySet
  <2>2. ASSUME NEW p \in DOMAIN s.products
        PROVE  /\ s.products[p].events \subseteq DOMAIN s.feed
               /\ Cardinality(s.products[p].events) <= s.products[p].qty
    <3>1. s.products[p].events = {} /\ s.products[p].qty = 0
      BY <1>3, <1>4, <1>11
    <3> QED
      BY <2>1, <3>1
  <2> QED
    BY <2>2 DEF Booked
<1>14. OnBooks(s)
  BY <1>11 DEF OnBooks
<1>15. Coded(s, {})
  BY <1>3, <1>4, <1>11 DEF Coded
<1>16. Apart(s, {})
  BY <1>3, <1>4, <1>11 DEF Apart, Floating
<1>17. Identity(s, {})
  BY <1>3, <1>4, <1>11 DEF Identity
<1>18. Named(s) = {}
  BY <1>11 DEF Named
<1>19. CellsOf(P) = {}
  <2> SUFFICES ASSUME NEW y \in CellsOf(P) PROVE FALSE
    OBVIOUS
  <2>1. PICK p \in DOMAIN P : \E i \in 1..P[p].qty : y = <<p, i>>
    BY CellsAre
  <2>2. PICK i \in 1..P[p].qty : y = <<p, i>>
    BY <2>1
  <2>3. P[p].qty = 0
    BY <1>3, <1>4
  <2> QED
    BY <2>2, <2>3
<1>20. Units(s) = 0
  BY <1>11, <1>19, UnitsAre, FS_EmptySet
<1>21. OpenRows(s) = {} /\ Cardinality({}) = 0
  BY <1>11, FS_EmptySet DEF OpenRows
<1>22. Weight(s) = 0
  BY <1>20, <1>21 DEF Weight
<1>23. Good(s, Named(s), {})
  BY <1>12, <1>13, <1>14, <1>15, <1>16, <1>17, <1>18 DEF Good
<1>24. decode = [c \in Codes |-> "idle"] /\ scans = 0 /\ acts = 0 /\ again = 0 /\ applied = 0 /\ renamed = {}
  BY DEF Init
<1> QED
  BY <1>22, <1>23, <1>24, BoundsAssumption DEF IInv, s

Decodes == [Codes -> {"idle", "queued", "asked"}]

\* A step that brings k units and accounts for them.
LEMMA StepKeeps ==
  ASSUME IInv, NEW c, NEW k, k \in Nat, Brings(store, store', c, renamed', k),
         decode' \in Decodes, scans' \in 0..MaxScans, acts' \in 0..MaxActs, again' \in Nat,
         applied' \in Nat, renamed' \subseteq DOMAIN store'.products,
         scans + applied + again + k <= scans' + applied' + again'
  PROVE  IInv'
<1>1. Good(store', Named(store'), renamed') /\ Weight(store') <= Weight(store) + k
  BY DEF Brings
<1>2. Weight(store) \in Nat /\ Weight(store') \in Nat
  BY <1>1, WeightType DEF IInv
<1>3. /\ scans \in Nat /\ applied \in Nat /\ again \in Nat /\ scans' \in Nat
      /\ Weight(store) <= scans + applied + again
  BY BoundsAssumption DEF IInv
<1>4. Weight(store') <= scans' + applied' + again'
  <2>1. PICK w, v, a, b, d, x, y, z, n :
          /\ w = Weight(store) /\ v = Weight(store') /\ a = scans /\ b = applied /\ d = again
          /\ x = scans' /\ y = applied' /\ z = again' /\ n = k
    OBVIOUS
  <2>2. /\ w \in Nat /\ v \in Nat /\ a \in Nat /\ b \in Nat /\ d \in Nat /\ x \in Nat /\ y \in Nat
        /\ z \in Nat /\ n \in Nat
    BY <1>2, <1>3, <2>1
  <2>3. v <= w + n /\ w <= a + b + d /\ a + b + d + n <= x + y + z
    BY <1>1, <1>3, <2>1
  <2>4. v <= x + y + z
    BY <2>2, <2>3
  <2> QED
    BY <2>1, <2>4
<1> QED
  BY <1>1, <1>4 DEF IInv, Decodes

\* What is known of the counters before a step.
LEMMA Before ==
  ASSUME IInv
  PROVE  /\ Good(store, Named(store), renamed) /\ store \in Store
         /\ decode \in Decodes /\ scans \in 0..MaxScans /\ acts \in 0..MaxActs
         /\ scans \in Nat /\ acts \in Nat /\ again \in Nat /\ applied \in Nat
         /\ renamed \subseteq DOMAIN store.products
  BY BoundsAssumption DEF IInv, Good, Well, Decodes

\* A step that leaves renamed and scans alone.
LEMMA QuietStep ==
  ASSUME IInv, NEW c, NEW k, k \in Nat, Brings(store, store', c, renamed, k), renamed' = renamed,
         scans' = scans, decode' \in Decodes, acts' \in 0..MaxActs, again' \in Nat, applied' \in Nat,
         applied + again + k <= applied' + again'
  PROVE  IInv'
<1>1. DOMAIN store.products \subseteq DOMAIN store'.products
  BY DEF Brings, Moves
<1>2. renamed' \subseteq DOMAIN store'.products
  BY <1>1, Before
<1>3. scans' \in 0..MaxScans /\ scans \in Nat /\ again \in Nat /\ applied \in Nat
  BY Before
<1>4. scans + applied + again + k <= scans' + applied' + again'
  <2>1. PICK a, b, d, x, y, z, n :
          /\ a = scans /\ b = applied /\ d = again
          /\ x = scans' /\ y = applied' /\ z = again' /\ n = k
    OBVIOUS
  <2>2. /\ a \in Nat /\ b \in Nat /\ d \in Nat /\ y \in Nat
        /\ z \in Nat /\ n \in Nat /\ x = a
    BY <1>3, <2>1
  <2>3. b + d + n <= y + z
    BY <2>1
  <2>4. a + b + d + n <= x + y + z
    BY <2>2, <2>3
  <2> QED
    BY <2>1, <2>4
<1> QED
  BY <1>2, <1>3, <1>4, StepKeeps

LEMMA TakesBring ==
  ASSUME NEW s, NEW t, NEW c, NEW N, NEW k, Takes(s, t, c, Named(s), N, k)
  PROVE  Brings(s, t, c, N, k)
<1>1. Good(t, Named(t), N)
  BY GoodWiden DEF Takes, Moves
<1> QED
  BY <1>1 DEF Takes, Brings

LEMMA AskedIs ==
  ASSUME NEW s, NEW c \in Codes, NEW ask, NEW at \in Decodes
  PROVE  Asked(s, c, ask, at) \in Decodes
  BY DEF Asked, Decodes

\* A decision is concluded, with a scan for the person or without.
LEMMA ConcludeBrings ==
  ASSUME IInv, NEW r \in Results, NEW c \in Codes, NEW apply, Brings(store, r.store, c, renamed, 0),
         Conclude(r, c, apply)
  PROVE  /\ decode' \in Decodes /\ applied' \in Nat
         /\ \E k \in Nat : applied + k <= applied' /\ Brings(store, store', c, renamed, k)
<1>0. Good(store, Named(store), renamed) /\ decode \in Decodes /\ applied \in Nat
  BY Before
<1>1. CASE r.rescan /\ apply
  <2>1. PICK ask \in BOOLEAN : store' = ScanOf(r.store, c, ask) /\ decode' = Asked(r.store, c, ask, decode)
    BY <1>1 DEF Conclude
  <2>2. applied' = applied + 1
    BY <1>1 DEF Conclude
  <2>3. PICK s : s = r.store
    OBVIOUS
  <2>4. Good(s, Named(s), renamed)
    BY <2>3 DEF Brings
  <2>5. PICK L : L = Named(s)
    OBVIOUS
  <2>6. Takes(s, store', c, L, renamed, 1)
    BY <2>1, <2>3, <2>4, <2>5, ScanTakes
  <2>7. Brings(s, store', c, renamed, 1)
    BY <2>5, <2>6, TakesBring
  <2>8. Brings(store, s, c, renamed, 0)
    BY <2>3
  <2>9. Brings(store, store', c, renamed, 0 + 1)
    BY <1>0, <2>7, <2>8, BringsThen
  <2>10. Brings(store, store', c, renamed, 1)
    BY <2>9
  <2>11. decode' \in Decodes
    BY <1>0, <2>1, AskedIs
  <2>12. applied' \in Nat /\ applied + 1 <= applied' /\ 1 \in Nat
    BY <1>0, <2>2
  <2> QED
    BY <2>10, <2>11, <2>12
<1>2. CASE ~(r.rescan /\ apply)
  <2>1. store' = r.store /\ decode' = decode /\ applied' = applied
    BY <1>2 DEF Conclude
  <2>2. Brings(store, store', c, renamed, 0) /\ applied + 0 <= applied' /\ 0 \in Nat
    BY <1>0, <2>1
  <2> QED
    BY <1>0, <2>1, <2>2
<1> QED
  BY <1>1, <1>2

\* No decided review is reopened or parked: DecidedStands, of one step.
Steady ==
  \A d \in Codes :
    store.reviews[d].status \in {"resolved", "ignored"} =>
      store'.reviews[d].status = store.reviews[d].status \/ store'.reviews[d].by = "auto"

LEMMA SteadyBut ==
  ASSUME NEW c \in Codes, Moves(store, store', c), Stands(store, store', c)
  PROVE  Steady
  BY DEF Steady, Moves, Stands

LEMMA DecodeSet ==
  ASSUME NEW at \in Decodes, NEW c \in Codes, NEW v \in {"idle", "queued", "asked"}
  PROVE  [at EXCEPT ![c] = v] \in Decodes
  BY DEF Decodes

LEMMA ActIs ==
  ASSUME IInv, Act
  PROVE  acts' \in 0..MaxActs /\ acts' # acts /\ scans' = scans /\ renamed' = renamed
<1>1. acts \in 0..MaxActs /\ acts \in Nat /\ MaxActs \in Nat
  BY Before, BoundsAssumption
<1>2. acts < MaxActs /\ acts' = acts + 1 /\ scans' = scans /\ renamed' = renamed
  BY DEF Act
<1> QED
  BY <1>1, <1>2

LEMMA StartKeeps ==
  ASSUME IInv, NEW c \in Codes, Start(c)
  PROVE  IInv' /\ Steady
<1>1. Good(store, Named(store), renamed) /\ decode \in Decodes /\ acts \in 0..MaxActs
      /\ again \in Nat /\ applied \in Nat
  BY Before
<1>2. /\ store' = store /\ scans' = scans /\ acts' = acts /\ again' = again /\ applied' = applied
      /\ renamed' = renamed
      /\ decode' = [decode EXCEPT ![c] = IF store.reviews[c].status = "open" THEN "asked" ELSE "idle"]
  BY DEF Start
<1>3. Brings(store, store', c, renamed, 0)
  BY <1>1, <1>2, BringsNothing
<1>4. decode' \in Decodes
  <2>1. PICK v \in {"idle", "queued", "asked"} :
          v = IF store.reviews[c].status = "open" THEN "asked" ELSE "idle"
    OBVIOUS
  <2> QED
    BY <1>1, <1>2, <2>1, DecodeSet
<1>5. 0 \in Nat /\ applied + again + 0 <= applied' + again'
  BY <1>1, <1>2
<1>6. IInv'
  BY <1>1, <1>2, <1>3, <1>4, <1>5, QuietStep
<1> QED
  BY <1>2, <1>6 DEF Steady

LEMMA FailKeeps ==
  ASSUME IInv, NEW c \in Codes, Fail(c)
  PROVE  IInv' /\ Steady
<1>1. Good(store, Named(store), renamed) /\ decode \in Decodes /\ acts \in 0..MaxActs
      /\ again \in Nat /\ applied \in Nat
  BY Before
<1>2. PICK r : r = Failed(store, c)
  OBVIOUS
<1>3. PICK k : k = r.twice
  OBVIOUS
<1>4. store' = r.store /\ again' = again + k
  <2> DEFINE own == First(Carriers(store, c))
             p == Keep(own, Len(store.products) + 1)
             u == IF own = None THEN Mint(store, Placeholder(c)) ELSE store
             counted == Quiet(CountLate(u, c, p), c)
             x == [counted EXCEPT
                     !.reviews[c].provisional = Keep(@, p),
                     !.reviews[c].name = IF @ = "empty" THEN "guess" ELSE @]
             y == CountedTwice(u, c, p)
  <2>1. Failed(store, c) = [store |-> x, twice |-> y]
    BY Zenon DEF Failed
  <2>2. store' = x /\ again' = again + y
    BY Zenon DEF Fail
  <2> HIDE DEF x, y
  <2>3. r.store = x /\ r.twice = y
    BY <1>2, <2>1
  <2> QED
    BY <1>3, <2>2, <2>3
<1>5. decode' = [decode EXCEPT ![c] = "idle"] /\ scans' = scans /\ acts' = acts
      /\ applied' = applied /\ renamed' = renamed
  BY DEF Fail, Answered
<1>6. PICK L : L = Named(store)
  OBVIOUS
<1>7. /\ Takes(store, r.store, c, L, renamed, k) /\ k \in Nat
      /\ r.store.reviews[c].status = store.reviews[c].status
  BY <1>1, <1>2, <1>3, <1>6, FailedTakes
<1>8. Brings(store, store', c, renamed, k)
  BY <1>4, <1>6, <1>7, TakesBring
<1>9. decode' \in Decodes
  BY <1>1, <1>5, DecodeSet
<1>10. applied + again + k <= applied' + again' /\ again' \in Nat
  BY <1>1, <1>4, <1>5, <1>7
<1>11. IInv'
  BY <1>1, <1>5, <1>7, <1>8, <1>9, <1>10, QuietStep
<1>12. Steady
  <2>1. Stands(store, store', c)
    BY <1>4, <1>7 DEF Stands
  <2> QED
    BY <1>8, <2>1, SteadyBut DEF Brings
<1> QED
  BY <1>11, <1>12

LEMMA SuggestKeeps ==
  ASSUME IInv, NEW c \in Codes, NEW a \in Answers(c), Suggest(c, a)
  PROVE  IInv' /\ Steady
<1>1. /\ Good(store, Named(store), renamed) /\ decode \in Decodes /\ acts \in 0..MaxActs
      /\ scans \in 0..MaxScans /\ scans \in Nat /\ again \in Nat /\ applied \in Nat
      /\ store \in Store /\ renamed \subseteq DOMAIN store.products
  BY Before
<1>2. PICK r : r = Placed(Written(store, c, a), c, a)
  OBVIOUS
<1>3. PICK k : k = CountedTwice(r.store, c, r.on)
  OBVIOUS
<1>4. store' = Suggested(store, c, a) /\ again' = again + k
  BY <1>2, <1>3, Zenon DEF Suggest, Suggested
<1>5. decode' = [decode EXCEPT ![c] = "idle"] /\ scans' = scans /\ acts' = acts
      /\ applied' = applied
  BY DEF Suggest, Answered
<1>6. renamed' = IF r.on \in Carriers(store, c) /\ store.products[r.on].verified
                 THEN renamed \cup {r.on} ELSE renamed
  BY <1>2, Zenon DEF Suggest
<1>7. /\ renamed \subseteq renamed' /\ renamed' \subseteq DOMAIN store.products
      /\ r.on \in Carriers(store, c) /\ store.products[r.on].verified => r.on \in renamed'
  BY <1>1, <1>6, CarriersIn
<1>8. PICK N : N = renamed'
  OBVIOUS
<1>9. PICK L : L = Named(store)
  OBVIOUS
<1>10. PICK s : s = store
  OBVIOUS
<1>11. PICK t : t = store'
  OBVIOUS
<1>12. Good(s, L, N)
  BY <1>1, <1>7, <1>8, <1>9, <1>10, GoodWiden
<1>13. Takes(s, t, c, L, N, k) /\ k \in Nat /\ Stands(s, t, c)
  <2>1. r.on \in Carriers(s, c) /\ s.products[r.on].verified => r.on \in N
    BY <1>7, <1>8, <1>10
  <2>2. t = Suggested(s, c, a) /\ r = Placed(Written(s, c, a), c, a)
    BY <1>2, <1>4, <1>10, <1>11
  <2> QED
    BY <1>3, <1>12, <2>1, <2>2, SuggestedTakes
<1>14. Brings(s, t, c, N, k)
  BY <1>9, <1>10, <1>13, TakesBring
<1>15. Brings(store, store', c, renamed', k)
  BY <1>8, <1>10, <1>11, <1>14
<1>16. DOMAIN store.products \subseteq DOMAIN store'.products
  BY <1>15 DEF Brings, Moves
<1>17. renamed' \subseteq DOMAIN store'.products /\ decode' \in Decodes
  BY <1>1, <1>5, <1>7, <1>16, DecodeSet
<1>18. again' \in Nat /\ scans + applied + again + k <= scans' + applied' + again'
  BY <1>1, <1>4, <1>5, <1>13
<1>19. IInv'
  BY <1>1, <1>5, <1>13, <1>15, <1>17, <1>18, StepKeeps
<1>20. Steady
  BY <1>10, <1>11, <1>13, <1>15, SteadyBut DEF Brings
<1> QED
  BY <1>19, <1>20

\* A scan made for the person.
LEMMA ScanThen ==
  ASSUME NEW s, NEW u, NEW N, Good(s, Named(s), N), NEW c \in Codes, Brings(s, u, c, N, 0),
         NEW ask \in BOOLEAN, NEW t, t = ScanOf(u, c, ask)
  PROVE  Brings(s, t, c, N, 1)
<1>1. PICK L : L = Named(u)
  OBVIOUS
<1>2. Good(u, L, N) /\ Named(u) \subseteq L
  BY <1>1 DEF Brings
<1>3. Takes(u, t, c, L, N, 1)
  BY <1>2, ScanTakes
<1>4. Brings(u, t, c, N, 1)
  BY <1>1, <1>3, TakesBring
<1>5. Brings(s, t, c, N, 0 + 1)
  BY <1>4, BringsThen
<1> QED
  BY <1>5

LEMMA VerifyKeeps ==
  ASSUME IInv, NEW c \in Codes, NEW a \in Answers(c), a.name = "backed", NEW alike \in BOOLEAN,
         Verify(c, a, alike)
  PROVE  IInv' /\ Steady
<1>1. /\ Good(store, Named(store), renamed) /\ decode \in Decodes /\ acts \in 0..MaxActs
      /\ again \in Nat /\ applied \in Nat
  BY Before
<1>2. PICK u : u = Written(store, c, a)
  OBVIOUS
<1>3. PICK r : r = Heeded(u, c, a, alike)
  OBVIOUS
<1>4. PICK over : over = [decode EXCEPT ![c] = "idle"]
  OBVIOUS
<1>5. /\ IF u.reviews[c].status \in Awaiting /\ r.rescan
         THEN /\ applied' = applied + 1
              /\ \E ask \in BOOLEAN : /\ store' = ScanOf(r.store, c, ask)
                                     /\ decode' = Asked(r.store, c, ask, over)
         ELSE /\ store' = IF u.reviews[c].status \in Awaiting THEN r.store ELSE u
              /\ decode' = over /\ UNCHANGED applied
      /\ UNCHANGED <<scans, acts, again, renamed>>
  BY <1>2, <1>3, <1>4, Zenon DEF Verify, Heeded
<1>6. over \in Decodes
  BY <1>1, <1>4, DecodeSet
<1>7. /\ Brings(store, u, c, renamed, 0) /\ Brings(store, r.store, c, renamed, 0) /\ r \in Results
      /\ u.reviews[c].status = store.reviews[c].status
  BY <1>1, <1>2, <1>3, VerifiedBrings
<1>8. scans' = scans /\ acts' = acts /\ again' = again /\ renamed' = renamed
  BY <1>5
<1>9. CASE u.reviews[c].status \in Awaiting /\ r.rescan
  <2>1. applied' = applied + 1
    BY <1>5, <1>9
  <2>2. PICK ask \in BOOLEAN : store' = ScanOf(r.store, c, ask) /\ decode' = Asked(r.store, c, ask, over)
    BY <1>5, <1>9
  <2>3. decode' \in Decodes
    BY <1>6, <2>2, AskedIs
  <2>4. Brings(store, store', c, renamed, 1)
    BY <1>1, <1>7, <2>2, ScanThen
  <2>5. 1 \in Nat /\ applied' \in Nat /\ applied + again + 1 <= applied' + again' /\ again' \in Nat
    BY <1>1, <1>8, <2>1
  <2>6. IInv'
    BY <1>1, <1>8, <2>3, <2>4, <2>5, QuietStep
  <2>7. Stands(store, store', c)
    BY <1>7, <1>9 DEF Stands, Awaiting
  <2>8. Steady
    BY <2>4, <2>7, SteadyBut DEF Brings
  <2> QED
    BY <2>6, <2>8
<1>10. CASE ~(u.reviews[c].status \in Awaiting /\ r.rescan)
  <2>1. /\ store' = IF u.reviews[c].status \in Awaiting THEN r.store ELSE u
        /\ decode' = over /\ applied' = applied
    BY <1>5, <1>10
  <2>2. Brings(store, store', c, renamed, 0)
    BY <1>7, <2>1
  <2>3. 0 \in Nat /\ applied' \in Nat /\ applied + again + 0 <= applied' + again' /\ again' \in Nat
    BY <1>1, <1>8, <2>1
  <2>4. decode' \in Decodes
    BY <1>6, <2>1
  <2>5. IInv'
    BY <1>1, <1>8, <2>2, <2>3, <2>4, QuietStep
  <2>6. Stands(store, store', c)
    BY <1>7, <2>1 DEF Stands, Awaiting
  <2>7. Steady
    BY <2>2, <2>6, SteadyBut DEF Brings
  <2> QED
    BY <2>5, <2>7
<1> QED
  BY <1>9, <1>10

LEMMA ScanKeeps ==
  ASSUME IInv, NEW c \in Codes, NEW ask \in BOOLEAN, Scan(c, ask)
  PROVE  IInv' /\ scans' # scans
<1>1. /\ Good(store, Named(store), renamed) /\ decode \in Decodes /\ acts \in 0..MaxActs
      /\ again \in Nat /\ applied \in Nat /\ scans \in Nat /\ renamed \subseteq DOMAIN store.products
  BY Before
<1>2. /\ scans < MaxScans /\ scans' = scans + 1 /\ acts' = acts /\ again' = again
      /\ applied' = applied /\ renamed' = renamed
      /\ store' = ScanOf(store, c, ask) /\ decode' = Asked(store, c, ask, decode)
  BY DEF Scan
<1>3. Brings(store, store, c, renamed, 0)
  BY <1>1, BringsNothing
<1>4. Brings(store, store', c, renamed, 1)
  BY <1>1, <1>2, <1>3, ScanThen
<1>5. Brings(store, store', c, renamed', 1)
  BY <1>2, <1>4
<1>6. scans' \in 0..MaxScans /\ scans' # scans /\ 1 \in Nat
      /\ scans + applied + again + 1 <= scans' + applied' + again'
  <2>1. MaxScans \in Nat
    BY BoundsAssumption
  <2> QED
    BY <1>1, <1>2, <2>1
<1>7. DOMAIN store.products \subseteq DOMAIN store'.products
  BY <1>5 DEF Brings, Moves
<1>8. renamed' \subseteq DOMAIN store'.products /\ decode' \in Decodes
  BY <1>1, <1>2, <1>7, AskedIs
<1>9. IInv'
  BY <1>1, <1>2, <1>5, <1>6, <1>8, StepKeeps
<1> QED
  BY <1>6, <1>9

\* What a person does: a change of the store that brings no unit.
LEMMA PersonKeeps ==
  ASSUME IInv, Act, NEW c, Brings(store, store', c, renamed, 0), decode' = decode,
         again' = again, applied' = applied
  PROVE  IInv'
<1>1. /\ acts' \in 0..MaxActs /\ scans' = scans /\ renamed' = renamed
  BY ActIs
<1>2. decode' \in Decodes /\ again' \in Nat /\ applied' \in Nat /\ 0 \in Nat
      /\ applied + again + 0 <= applied' + again'
  BY Before
<1> QED
  BY <1>1, <1>2, QuietStep

\* A decision a person takes.
LEMMA DecisionKeeps ==
  ASSUME IInv, Act, NEW c \in Codes, NEW r \in Results, Brings(store, r.store, c, renamed, 0),
         NEW apply, Conclude(r, c, apply), again' = again
  PROVE  IInv'
<1>1. acts' \in 0..MaxActs /\ scans' = scans /\ renamed' = renamed
  BY ActIs
<1>2. again \in Nat /\ applied \in Nat
  BY Before
<1>3. decode' \in Decodes /\ applied' \in Nat
  BY ConcludeBrings
<1>4. PICK k \in Nat : applied + k <= applied' /\ Brings(store, store', c, renamed, k)
  BY ConcludeBrings
<1>5. PICK n : n = k
  OBVIOUS
<1>6. n \in Nat /\ Brings(store, store', c, renamed, n)
  BY <1>4, <1>5
<1>7. applied + again + n <= applied' + again' /\ again' \in Nat
  <2>1. PICK a, b, x : a = applied /\ b = again /\ x = applied'
    OBVIOUS
  <2>2. a \in Nat /\ b \in Nat /\ x \in Nat /\ a + n <= x /\ again' = b
    BY <1>2, <1>3, <1>4, <1>5, <2>1
  <2>3. a + b + n <= x + b
    BY <1>6, <2>2
  <2> QED
    BY <1>2, <2>1, <2>2, <2>3
<1> QED
  BY <1>1, <1>3, <1>6, <1>7, QuietStep

LEMMA IgnoreKeeps ==
  ASSUME IInv, NEW c \in Codes, Ignore(c)
  PROVE  IInv' /\ acts' # acts
<1>0. Good(store, Named(store), renamed)
  BY Before
<1>1. /\ store.reviews[c] \in Review
      /\ store.reviews[c].provisional \in {None} \cup DOMAIN store.products
      /\ store \in Store /\ store.reviews \in [Codes -> Review]
  BY <1>0, ReviewIs
<1>2. PICK y \in Review : y = store.reviews[c]
  BY <1>1
<1>3. PICK x : x = [y EXCEPT !.status = "ignored", !.by = "human"]
  OBVIOUS
<1>4. x \in Review /\ x.provisional = y.provisional
  BY <1>3 DEF Review
<1>5. store' = Rewrite(store, c, x)
  BY <1>1, <1>2, <1>3 DEF Ignore, Rewrite, Store
<1>6. Brings(store, store', c, renamed, 0)
  BY <1>0, <1>1, <1>2, <1>4, <1>5, ReviewBrings
<1>7. Act /\ decode' = decode /\ again' = again /\ applied' = applied
  BY DEF Ignore
<1> QED
  BY <1>6, <1>7, PersonKeeps, ActIs

LEMMA RetryKeeps ==
  ASSUME IInv, NEW c \in Codes, Retry(c)
  PROVE  IInv' /\ acts' # acts
<1>0. Good(store, Named(store), renamed) /\ decode \in Decodes /\ again \in Nat /\ applied \in Nat
  BY Before
<1>1. Act /\ store' = store /\ again' = again /\ applied' = applied
      /\ decode' = [decode EXCEPT ![c] = "queued"]
  BY DEF Retry
<1>2. decode' \in Decodes
  BY <1>0, <1>1, DecodeSet
<1>3. Brings(store, store', c, renamed, 0)
  BY <1>0, <1>1, BringsNothing
<1>4. acts' \in 0..MaxActs /\ scans' = scans /\ renamed' = renamed /\ acts' # acts
  BY <1>1, ActIs
<1>5. again' \in Nat /\ applied' \in Nat /\ 0 \in Nat /\ applied + again + 0 <= applied' + again'
  BY <1>0, <1>1
<1> QED
  BY <1>2, <1>3, <1>4, <1>5, QuietStep

LEMMA LinkKeeps ==
  ASSUME IInv, NEW c \in Codes, NEW p \in DOMAIN store.products, NEW apply, Link(c, p, apply)
  PROVE  IInv' /\ acts' # acts
<1>0. Good(store, Named(store), renamed)
  BY Before
<1>1. PICK r : r = LinkTo(store, c, p)
  OBVIOUS
<1>2. Act /\ again' = again /\ Conclude(r, c, apply)
  BY <1>1, Zenon DEF Link
<1>3. Brings(store, r.store, c, renamed, 0) /\ r \in Results
  BY <1>0, <1>1, LinkBrings
<1> QED
  BY <1>2, <1>3, DecisionKeeps, ActIs

LEMMA AcceptKeeps ==
  ASSUME IInv, NEW c \in Codes, NEW alike \in BOOLEAN, Accept(c, alike)
  PROVE  IInv' /\ acts' # acts
<1>0. Good(store, Named(store), renamed) /\ store.reviews[c] \in Review
  BY Before, ReviewIs
<1>1. PICK y \in Review : y = store.reviews[c]
  BY <1>0
<1>2. PICK named : named = [name |-> y.name, codes |-> y.codes]
  OBVIOUS
<1>3. y.name \in {"guess", "backed"} /\ Act /\ again' = again
  BY <1>1 DEF Accept
<1>4. named \in Identities /\ y.codes \in SUBSET Codes
  BY <1>2, <1>3 DEF Review, Identities
<1>5. PICK no \in BOOLEAN : no = FALSE
  OBVIOUS
<1>6. PICK r : r = CreateNew(store, c, named, no, alike, y.codes)
  OBVIOUS
<1>7. Brings(store, r.store, c, renamed, 0) /\ r \in Results
  BY <1>0, <1>4, <1>5, <1>6, CreateNewBrings
<1>8. PICK u : u = Tagged(r, c)
  OBVIOUS
<1>9. PICK v : v = Untagged(u, c)
  OBVIOUS
<1>10. PICK b : b = TRUE
  OBVIOUS
<1>11. Conclude(v, c, b)
  BY <1>1, <1>2, <1>5, <1>6, <1>8, <1>9, <1>10, Zenon DEF Accept
<1>12. PICK s : s = r.store
  OBVIOUS
<1>13. Good(s, Named(s), renamed)
  BY <1>7, <1>12 DEF Brings
<1>14. Brings(s, u.store, c, renamed, 0) /\ u \in Results
  BY <1>7, <1>8, <1>12, <1>13, TaggedBrings
<1>15. PICK t : t = u.store
  OBVIOUS
<1>16. Good(t, Named(t), renamed)
  BY <1>14, <1>15 DEF Brings
<1>17. Brings(t, v.store, c, renamed, 0) /\ v \in Results
  BY <1>9, <1>14, <1>15, <1>16, UntaggedBrings
<1>18. Brings(store, t, c, renamed, 0 + 0)
  BY <1>0, <1>7, <1>12, <1>14, <1>15, BringsThen
<1>19. 0 + 0 = 0
  OBVIOUS
<1>20. Brings(store, t, c, renamed, 0)
  BY <1>18, <1>19, Zenon
<1>21. Brings(store, v.store, c, renamed, 0 + 0)
  BY <1>0, <1>17, <1>20, BringsThen
<1>22. Brings(store, v.store, c, renamed, 0)
  BY <1>19, <1>21, Zenon
<1> QED
  BY <1>3, <1>11, <1>17, <1>22, DecisionKeeps, ActIs

LEMMA TypeKeeps ==
  ASSUME IInv, NEW c \in Codes, NEW e \in RowsOf(store, c), NEW C \in SUBSET (Codes \ {c}),
         NEW alike \in BOOLEAN, Type(c, e, C, alike)
  PROVE  IInv' /\ acts' # acts
<1>0. Good(store, Named(store), renamed)
  BY Before
<1>1. PICK named : named = [name |-> "human", codes |-> C]
  OBVIOUS
<1>2. named \in Identities
  BY <1>1 DEF Identities
<1>3. PICK yes \in BOOLEAN : yes = TRUE
  OBVIOUS
<1>4. PICK D : D = {}
  OBVIOUS
<1>5. PICK s : s = ToName(store, c, e)
  OBVIOUS
<1>6. PICK r : r = CreateNew(s, c, named, yes, alike, D)
  OBVIOUS
<1>7. PICK u : u = Tagged(r, c)
  OBVIOUS
<1>8. Conclude(u, c, yes) /\ Act /\ again' = again
  BY <1>1, <1>3, <1>4, <1>5, <1>6, <1>7, Zenon DEF Type
<1>9. e \in DOMAIN store.feed
  BY DEF RowsOf
<1>10. Brings(store, s, c, renamed, 0)
  BY <1>0, <1>5, <1>9, ToNameBrings
<1>11. Good(s, Named(s), renamed)
  BY <1>10 DEF Brings
<1>12. D \in SUBSET Codes /\ (yes => named.name = "human")
  BY <1>1, <1>4
<1>13. Brings(s, r.store, c, renamed, 0) /\ r \in Results
  BY <1>2, <1>6, <1>11, <1>12, CreateNewBrings
<1>14. PICK t : t = r.store
  OBVIOUS
<1>15. Good(t, Named(t), renamed)
  BY <1>13, <1>14 DEF Brings
<1>16. Brings(t, u.store, c, renamed, 0) /\ u \in Results
  BY <1>7, <1>13, <1>14, <1>15, TaggedBrings
<1>17. Brings(store, t, c, renamed, 0 + 0)
  BY <1>0, <1>10, <1>13, <1>14, BringsThen
<1>18. 0 + 0 = 0
  OBVIOUS
<1>19. Brings(store, t, c, renamed, 0)
  BY <1>17, <1>18, Zenon
<1>20. Brings(store, u.store, c, renamed, 0 + 0)
  BY <1>0, <1>16, <1>19, BringsThen
<1>21. Brings(store, u.store, c, renamed, 0)
  BY <1>18, <1>20, Zenon
<1> QED
  BY <1>8, <1>16, <1>21, DecisionKeeps, ActIs

\* The placeholder gets its name back.
Refused(s, p) ==
  IF p # None /\ s.products[p].provisional /\ ~s.products[p].verified
  THEN [s EXCEPT !.products[p].name = "floor"] ELSE s

LEMMA RefusedBrings ==
  ASSUME NEW s, NEW N, Good(s, Named(s), N), NEW c \in Codes, NEW p \in {None} \cup DOMAIN s.products,
         NEW t, t = Refused(s, p)
  PROVE  Brings(s, t, c, N, 0)
<1>1. CASE t = s
  BY <1>1, BringsNothing
<1>2. CASE t # s
  <2>1. /\ p # None /\ ~s.products[p].verified /\ t = [s EXCEPT !.products[p].name = "floor"]
    BY <1>2 DEF Refused
  <2>2. p \in DOMAIN s.products
    BY <2>1
  <2>3. s \in Store /\ s.products[p] \in Product
    BY <2>2, StoreFields DEF Good, Well
  <2>4. PICK y \in Product : y = s.products[p]
    BY <2>3
  <2>5. PICK x : x = [y EXCEPT !.name = "floor"]
    OBVIOUS
  <2>6. /\ x \in Product /\ x.qty = y.qty /\ x.events = y.events /\ x.primary = y.primary
        /\ x.gone = y.gone /\ x.codes = y.codes /\ x.provisional = y.provisional
        /\ x.verified = y.verified
    BY <2>5 DEF Product, Names
  <2>7. t = [s EXCEPT !.products = [s.products EXCEPT ![p] = x]]
    BY <2>1, <2>3, <2>4, <2>5 DEF Store
  <2>8. ProductPut(s, t, p, x)
    BY <2>2, <2>3, <2>6, <2>7, OneProduct
  <2>9. PICK L : L = Named(s)
    OBVIOUS
  <2>10. x.provisional => y.provisional \/ p \in L
    BY <2>6
  <2>11. ~x.verified
    BY <2>1, <2>4, <2>6
  <2>12. y.codes \subseteq x.codes
    BY <2>6
  <2>13. Good(s, L, N)
    BY <2>9
  <2>14. Takes(s, t, c, L, N, 0)
    BY <2>2, <2>4, <2>6, <2>8, <2>10, <2>11, <2>12, <2>13, PersonTakes
  <2> QED
    BY <2>9, <2>14, TakesBring
<1> QED
  BY <1>1, <1>2

LEMMA DeclineKeeps ==
  ASSUME IInv, NEW c \in Codes, NEW e \in RowsOf(store, c), Decline(c, e)
  PROVE  IInv' /\ acts' # acts
<1>0. Good(store, Named(store), renamed) /\ e \in DOMAIN store.feed
  BY Before DEF RowsOf
<1>1. PICK p : p = Keep(store.feed[e].product, store.reviews[c].provisional)
  OBVIOUS
<1>2. p \in {None} \cup DOMAIN store.products
  BY <1>0, <1>1 DEF Keep, Good, Well, Refs
<1>3. PICK u : u = Refused(store, p)
  OBVIOUS
<1>4. Brings(store, u, c, renamed, 0)
  BY <1>0, <1>2, <1>3, RefusedBrings
<1>5. Good(u, Named(u), renamed)
  BY <1>4 DEF Brings
<1>6. /\ u.reviews[c] \in Review /\ u.reviews[c].provisional \in {None} \cup DOMAIN u.products
      /\ u \in Store /\ u.reviews \in [Codes -> Review]
  BY <1>5, ReviewIs
<1>7. PICK y \in Review : y = u.reviews[c]
  BY <1>6
<1>8. PICK x : x = [y EXCEPT !.offered = "settled"]
  OBVIOUS
<1>9. x \in Review /\ x.provisional = y.provisional
  BY <1>8 DEF Review
<1>10. PICK v : v = Rewrite(u, c, x)
  OBVIOUS
<1>11. Brings(u, v, c, renamed, 0)
  BY <1>5, <1>6, <1>7, <1>9, <1>10, ReviewBrings
<1>12. Good(v, Named(v), renamed)
  BY <1>11 DEF Brings
<1>13. store' = Reopened([u EXCEPT !.reviews[c].offered = "settled"], c)
  BY <1>1, <1>3, Zenon DEF Decline, Refused
<1>14. v = [u EXCEPT !.reviews[c].offered = "settled"]
  BY <1>6, <1>7, <1>8, <1>10 DEF Rewrite, Store
<1>15. store' = Reopened(v, c)
  BY <1>13, <1>14
<1>16. Brings(v, store', c, renamed, 0)
  BY <1>12, <1>15, ReopenedBrings
<1>17. Brings(store, v, c, renamed, 0 + 0)
  BY <1>0, <1>4, <1>11, BringsThen
<1>18. 0 + 0 = 0
  OBVIOUS
<1>19. Brings(store, v, c, renamed, 0)
  BY <1>17, <1>18, Zenon
<1>20. Brings(store, store', c, renamed, 0 + 0)
  BY <1>0, <1>16, <1>19, BringsThen
<1>21. Brings(store, store', c, renamed, 0)
  BY <1>18, <1>20, Zenon
<1>22. Act /\ decode' = decode /\ again' = again /\ applied' = applied
  BY DEF Decline
<1> QED
  BY <1>21, <1>22, PersonKeeps, ActIs

LEMMA MarkWrongKeeps ==
  ASSUME IInv, NEW p \in DOMAIN store.products, NEW c \in Codes, MarkWrong(p, c)
  PROVE  IInv' /\ acts' # acts
<1>0. Good(store, Named(store), renamed) /\ again \in Nat /\ applied \in Nat /\ decode \in Decodes
  BY Before
<1> DEFINE mine == {e \in DOMAIN store.feed : store.feed[e].product = p}
           product == store.products[p]
           on(E) == {store.feed[e].code : e \in E}
           seen == on(mine \cup product.events)
           homes == IF mine # {} THEN on(mine) ELSE on(product.events)
           start == [store |-> Withdrawn(store, p, seen), heirs |-> {}, twice |-> 0]
           moved == AllRehomed(start, p, homes)
           doubled == IF moved.heirs = {} THEN mine \ product.events
                      ELSE mine \ Kept(moved, product.events)
<1>1. /\ Act /\ store' = Reopened(Residue(moved, product.qty, product.events), c)
      /\ again' = again + moved.twice + Cardinality(doubled)
      /\ UNCHANGED <<decode, applied>>
  BY Zenon DEF MarkWrong
<1>2. mine = On(store, p)
  BY Zenon DEF On
<1>3. moved = Rehoming(store, p)
  BY <1>2, Zenon DEF Rehoming, Homes, CodesAt
<1>4. doubled = Doubled(store, p)
  BY <1>2, <1>3, Zenon DEF Doubled
<1>5. Residue(moved, product.qty, product.events) = Unmade(store, p)
  BY <1>3, Zenon DEF Unmade
<1> HIDE DEF moved, doubled, product
<1>6. store' = Reopened(Unmade(store, p), c)
  BY <1>1, <1>5
<1>7. again' = again + Rehoming(store, p).twice + Cardinality(Doubled(store, p))
  BY <1>1, <1>3, <1>4
<1>8. PICK i, j : i = Rehoming(store, p).twice /\ j = Cardinality(Doubled(store, p))
  OBVIOUS
<1>9. PICK k : k = Rehoming(store, p).twice + Cardinality(Doubled(store, p))
  OBVIOUS
<1>10. Brings(store, store', c, renamed, k) /\ k \in Nat
  BY <1>0, <1>6, <1>9, UnmadeBrings
<1>11. i \in Nat /\ j \in Nat
  <2>1. i \in Nat
    BY <1>0, <1>8, RehomingIs DEF Accounts
  <2>2. Doubled(store, p) \subseteq DOMAIN store.feed
    BY DEF Doubled, On
  <2>3. j \in Nat
    BY <1>0, <1>8, <2>2, RowsFinite DEF Good, Well
  <2> QED
    BY <2>1, <2>3
<1>12. again' \in Nat /\ applied' \in Nat /\ applied + again + k <= applied' + again'
  <2>1. PICK a, b, x : a = applied /\ b = again /\ x = again'
    OBVIOUS
  <2>2. a \in Nat /\ b \in Nat /\ x = b + i + j /\ k = i + j /\ applied' = a
    BY <1>0, <1>1, <1>7, <1>8, <1>9, <2>1
  <2>3. x \in Nat /\ a + b + k <= a + x
    BY <1>11, <2>2
  <2> QED
    BY <1>0, <2>1, <2>2, <2>3
<1>13. decode' \in Decodes
  BY <1>0, <1>1
<1>14. acts' \in 0..MaxActs /\ scans' = scans /\ renamed' = renamed /\ acts' # acts
  BY <1>1, ActIs
<1> QED
  BY <1>10, <1>12, <1>13, <1>14, QuietStep

-----------------------------------------------------------------------------
(* Every step *)

\* DecidedStands, of one step.
Decided == acts' = acts /\ scans' = scans => Steady

LEMMA NextKeeps ==
  ASSUME IInv, Next
  PROVE  IInv' /\ Decided
<1>1. CASE \E c \in Codes : Start(c) \/ Fail(c)
  <2>1. IInv' /\ Steady
    BY <1>1, StartKeeps, FailKeeps
  <2> QED
    BY <2>1 DEF Decided
<1>2. CASE \E c \in Codes : Ignore(c) \/ Retry(c)
  <2>1. IInv' /\ acts' # acts
    BY <1>2, IgnoreKeeps, RetryKeeps
  <2> QED
    BY <2>1 DEF Decided
<1>3. CASE \E c \in Codes, ask \in BOOLEAN : Scan(c, ask)
  <2>1. IInv' /\ scans' # scans
    BY <1>3, ScanKeeps
  <2> QED
    BY <2>1 DEF Decided
<1>4. CASE \E c \in Codes : \E a \in Answers(c) : Suggest(c, a)
  <2>1. IInv' /\ Steady
    BY <1>4, SuggestKeeps
  <2> QED
    BY <2>1 DEF Decided
<1>5. CASE \E c \in Codes, alike \in BOOLEAN : \E a \in Answers(c) :
             a.name = "backed" /\ a.then = "keep" /\ Verify(c, a, alike)
  <2>1. PICK c \in Codes, alike \in BOOLEAN : \E a \in Answers(c) :
               a.name = "backed" /\ a.then = "keep" /\ Verify(c, a, alike)
    BY <1>5, Zenon
  <2>2. PICK a \in Answers(c) : a.name = "backed" /\ Verify(c, a, alike)
    BY <2>1, Zenon
  <2>3. IInv' /\ Steady
    BY <2>2, VerifyKeeps, Zenon
  <2> QED
    BY <2>3 DEF Decided
<1>6. CASE \E c \in Codes, apply \in BOOLEAN, p \in DOMAIN store.products : Link(c, p, apply)
  <2>1. IInv' /\ acts' # acts
    BY <1>6, LinkKeeps
  <2> QED
    BY <2>1 DEF Decided
<1>7. CASE \E c \in Codes, alike \in BOOLEAN : Accept(c, alike)
  <2>1. IInv' /\ acts' # acts
    BY <1>7, AcceptKeeps
  <2> QED
    BY <2>1 DEF Decided
<1>8. CASE \E c \in Codes, alike \in BOOLEAN : \E e \in RowsOf(store, c), C \in SUBSET (Codes \ {c}) :
             Type(c, e, C, alike)
  <2>1. PICK c \in Codes, alike \in BOOLEAN : \E e \in RowsOf(store, c), C \in SUBSET (Codes \ {c}) :
               Type(c, e, C, alike)
    BY <1>8, Zenon
  <2>2. PICK e \in RowsOf(store, c), C \in SUBSET (Codes \ {c}) : Type(c, e, C, alike)
    BY <2>1, Zenon
  <2>3. IInv' /\ acts' # acts
    BY <2>2, TypeKeeps, Zenon
  <2> QED
    BY <2>3 DEF Decided
<1>9. CASE \E c \in Codes : \E e \in RowsOf(store, c) : Decline(c, e)
  <2>1. IInv' /\ acts' # acts
    BY <1>9, DeclineKeeps
  <2> QED
    BY <2>1 DEF Decided
<1>10. CASE \E p \in DOMAIN store.products, c \in Codes : MarkWrong(p, c)
  <2>1. IInv' /\ acts' # acts
    BY <1>10, MarkWrongKeeps
  <2> QED
    BY <2>1 DEF Decided
<1> QED
  BY <1>1, <1>2, <1>3, <1>4, <1>5, <1>6, <1>7, <1>8, <1>9, <1>10, Zenon DEF Next

LEMMA RestKeeps ==
  ASSUME IInv, UNCHANGED vars
  PROVE  IInv' /\ Decided
<1>1. /\ store' = store /\ decode' = decode /\ scans' = scans /\ acts' = acts /\ again' = again
      /\ applied' = applied /\ renamed' = renamed
  BY DEF vars
<1>2. IInv'
  BY <1>1, Zenon DEF IInv
<1>3. Steady
  BY <1>1 DEF Steady
<1> QED
  BY <1>2, <1>3 DEF Decided

LEMMA Invariant == Spec => []IInv
<1>1. Init => IInv
  BY InitHolds
<1>2. IInv /\ [Next]_vars => IInv'
  BY NextKeeps, RestKeeps
<1> QED
  BY <1>1, <1>2, PTL DEF Spec

-----------------------------------------------------------------------------
(* The theorems *)

\* Whatever is scanned, answered and decided, every product, row, alias and review
\* of the store keeps its shape, and nothing names a product that is not there.
THEOREM TypeCorrect == Spec => []TypeOK
<1>1. IInv => TypeOK
  <2> SUFFICES ASSUME IInv PROVE TypeOK
    OBVIOUS
  <2>1. Well(store)
    BY DEF IInv, Good
  <2> QED
    BY <2>1 DEF IInv, Well, Refs, TypeOK
<1> QED
  BY <1>1, Invariant, PTL

\* The top law from above: merges, late answers, decisions and markWrong put no unit
\* on the books that nobody scanned, but for those again keeps apart.
THEOREM NoUnitInvented == Spec => []NothingInvented
<1>1. IInv => NothingInvented
  <2> SUFFICES ASSUME IInv PROVE NothingInvented
    OBVIOUS
  <2>1. store \in Store /\ scans \in Nat /\ applied \in Nat /\ again \in Nat
    BY Before
  <2>2. Units(store) \in Nat /\ Cardinality(OpenRows(store)) \in Nat
    BY <2>1, RowsFinite
  <2>3. Units(store) + Cardinality(OpenRows(store)) <= scans + applied + again
    BY DEF IInv, Weight
  <2>4. PICK u, k, n : u = Units(store) /\ k = Cardinality(OpenRows(store)) /\ n = scans + applied + again
    OBVIOUS
  <2>5. u \in Nat /\ k \in Nat /\ n \in Nat /\ u + k <= n
    BY <2>1, <2>2, <2>3, <2>4
  <2>6. u <= n
    BY <2>5
  <2> QED
    BY <2>4, <2>6 DEF NothingInvented
<1> QED
  BY <1>1, Invariant, PTL

\* The top law from below: a row that says known is on the books of the product it
\* shows, wherever its count was carried.
THEOREM KnownStaysCounted == Spec => []KnownIsCounted
<1>1. IInv => KnownIsCounted
  BY DEF IInv, Good, OnBooks, KnownIsCounted
<1> QED
  BY <1>1, Invariant, PTL

\* The units scanned with a code lie on one placeholder of that code at most, unless
\* something was linked to a placeholder.
THEOREM PlaceholdersStayOne == Spec => []OnePlaceholder
<1>1. IInv => OnePlaceholder
  <2> SUFFICES ASSUME IInv, NEW c \in Codes
               PROVE  Cardinality({p \in DOMAIN store.products :
                        /\ store.products[p].provisional /\ store.products[p].primary = c
                        /\ \A a \in store.aliases : a.product # p
                        /\ store.products[p].events \cap RowsOf(store, c) # {}}) <= 1
    BY DEF OnePlaceholder
  <2>1. PICK P : P = {p \in DOMAIN store.products :
                        /\ store.products[p].provisional /\ store.products[p].primary = c
                        /\ \A a \in store.aliases : a.product # p
                        /\ store.products[p].events \cap RowsOf(store, c) # {}}
    OBVIOUS
  <2>2. store \in Store /\ Booked(store) /\ Apart(store, Named(store))
    BY DEF IInv, Good, Well
  <2>3. ASSUME NEW p \in P
        PROVE  /\ p \in DOMAIN store.products /\ Floating(store, Named(store), p)
               /\ store.products[p].primary = c /\ store.products[p].qty > 0
    <3>1. /\ p \in DOMAIN store.products /\ store.products[p].provisional
          /\ store.products[p].primary = c /\ store.products[p].events # {}
          /\ \A a \in store.aliases : a.product # p
      BY <2>1
    <3>2. PICK E : E = store.products[p].events
      OBVIOUS
    <3>3. E \subseteq DOMAIN store.feed /\ Cardinality(E) <= store.products[p].qty
      BY <2>2, <3>1, <3>2 DEF Booked
    <3>4. IsFiniteSet(E) /\ Cardinality(E) \in Nat
      BY <2>2, <3>3, RowsFinite
    <3>5. Cardinality(E) # 0
      BY <3>1, <3>2, <3>4, FS_EmptySet
    <3>6. store.products[p].qty \in Nat
      BY <2>2, <3>1, StoreFields DEF Product
    <3>7. store.products[p].qty > 0
      <4>1. PICK n, q : n = Cardinality(E) /\ q = store.products[p].qty
        OBVIOUS
      <4>2. n \in Nat /\ q \in Nat /\ n <= q /\ n # 0
        BY <3>3, <3>4, <3>5, <3>6, <4>1
      <4> QED
        BY <4>1, <4>2
    <3>8. p \notin Named(store)
      BY <3>1 DEF Named
    <3> QED
      BY <3>1, <3>7, <3>8 DEF Floating
  <2>4. \A p, q \in P : p = q
    BY <2>2, <2>3 DEF Apart
  <2>5. CASE P = {}
    <3>1. Cardinality(P) = 0
      BY <2>5, FS_EmptySet
    <3> QED
      BY <2>1, <3>1
  <2>6. CASE P # {}
    <3>1. PICK p \in P : P = {p}
      BY <2>4, <2>6
    <3>2. Cardinality(P) = 1
      BY <3>1, FS_Singleton
    <3> QED
      BY <2>1, <3>2
  <2> QED
    BY <2>5, <2>6
<1> QED
  BY <1>1, Invariant, PTL

\* A guess never becomes identity: what is verified was named by a person or with
\* evidence, or renamed by a later answer.
THEOREM GuessesStayGuesses == Spec => []GuessIsNotIdentity
<1>1. IInv => GuessIsNotIdentity
  BY DEF IInv, Good, Identity, GuessIsNotIdentity
<1> QED
  BY <1>1, Invariant, PTL

\* A decided review stands until a person or a scan reopens it: no answer does, in
\* whatever order it comes.
THEOREM DecisionsStand == Spec => DecidedStands
<1>1. IInv /\ [Next]_vars =>
        [\A c \in Codes :
           store.reviews[c].status \in {"resolved", "ignored"} /\ acts' = acts /\ scans' = scans
           => store'.reviews[c].status = store.reviews[c].status \/ store'.reviews[c].by = "auto"]_vars
  <2> SUFFICES ASSUME IInv, [Next]_vars, acts' = acts /\ scans' = scans, NEW c \in Codes,
                      store.reviews[c].status \in {"resolved", "ignored"}
               PROVE  store'.reviews[c].status = store.reviews[c].status \/ store'.reviews[c].by = "auto"
    OBVIOUS
  <2>1. Decided
    BY NextKeeps, RestKeeps
  <2> QED
    BY <2>1 DEF Decided, Steady
<1> QED
  BY <1>1, Invariant, PTL DEF Spec, DecidedStands
=============================================================================
