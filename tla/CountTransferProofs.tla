------------------------ MODULE CountTransferProofs ------------------------
(***************************************************************************)
(* Scan N is count N, and the cloud's rows end as those of the store, for  *)
(* any codes, any catalogue in which a code belongs to one product, and    *)
(* any number of scans, products, sessions and rows.                       *)
(***************************************************************************)
EXTENDS CountTransfer, TLAPS, WellFoundedInduction, SequenceTheorems, FiniteSetTheorems

\* A code belongs to one product of the catalogue.
DistinctCodes ==
  \A p, q \in DOMAIN Catalogue : p # q => Catalogue[p].codes \cap Catalogue[q].codes = {}

Backup == [of : Ids, product : Product, rows : SUBSET Rows, feed : SUBSET FeedRows,
           minted : Ids \cup {None}]

TypedShop == products \in Seq(Product) /\ Len(products) <= MaxProducts
TypedCounts ==
  /\ session \in 1..MaxSessions /\ scans \in 0..MaxScans /\ made \in 0..MaxRows
  /\ rows \subseteq Rows /\ feed \subseteq FeedRows
TypedBackup == backup = None \/ backup \in Backup
TypedQueue ==
  /\ queue \subseteq Increments /\ applied \subseteq Increments /\ refused \subseteq Increments
  /\ cloud \in [(1..MaxSessions) \X Ids -> Int]
Typed == TypedShop /\ TypedCounts /\ TypedBackup /\ TypedQueue

\* What a product is by its place: of the catalogue, or minted for a code.
Placed(p, q) ==
  /\ q.provisional = (p > Len(Catalogue))
  /\ q.trusted = (p <= Len(Catalogue) /\ q.status = "active")
  /\ p <= Len(Catalogue) => q.codes = Catalogue[p].codes

\* Only what is active is counted.
Shop ==
  /\ Len(Catalogue) <= Len(products)
  /\ \A p \in DOMAIN products : Placed(p, products[p])
  /\ \A r \in rows : r.product \in DOMAIN products /\ products[r.product].status = "active"

\* A row is as many units as scans, and no scan is in two rows.
CountsItsScans(r) ==
  /\ r.qty = Cardinality(r.events) /\ r.events # {} /\ r.events \subseteq 1..scans
  /\ r.id <= made /\ r.session <= session
Apart(r, s) == r = s \/ (r.id # s.id /\ r.events \cap s.events = {})
RowsCount == (\A r \in rows : CountsItsScans(r)) /\ \A r, s \in rows : Apart(r, s)

\* The feed shows each scan of the session once, under the product of its row.
FeedRead ==
  /\ \A f \in feed :
       /\ f.event <= scans /\ f.session = session /\ f.delta = 1
       /\ \E r \in rows : r.session = session /\ r.product = f.product /\ f.event \in r.events
  /\ \A f, g \in feed : f.event = g.event => f = g
  /\ \A r \in rows : r.session = session => \A e \in r.events : \E f \in feed : f.event = e

\* Until the undo a deleted row lives on under the minted product, and only grows.
LivesIn(b, x) ==
  IF x.id = b.id
  THEN x.session = b.session /\ x.product = backup.minted /\ b.events \subseteq x.events
  ELSE x.events \cap b.events = {}
KeptProduct ==
  /\ backup.of \in DOMAIN products /\ products[backup.of].status # "active"
  /\ Placed(backup.of, backup.product)
  /\ backup.minted # None => backup.minted \in DOMAIN products /\ backup.minted > Len(Catalogue)
  /\ backup.minted # backup.of
  /\ backup.rows # {} => backup.minted # None /\ backup.product.status = "active"
KeptRows ==
  /\ \A b \in backup.rows : CountsItsScans(b) /\ b.product = backup.of
  /\ \A b, c \in backup.rows : Apart(b, c)
  /\ \A b \in backup.rows, x \in rows : LivesIn(b, x)
  /\ \A b \in backup.rows : b.session = session =>
       /\ \E x \in rows : x.id = b.id
       /\ \A e \in b.events : \E f \in backup.feed : f.event = e
KeptFeed ==
  /\ \A f \in backup.feed :
       /\ f.product = backup.of /\ f.event <= scans /\ f.delta = 1
       /\ \E b \in backup.rows : f.event \in b.events
       /\ \A g \in feed : g.event = f.event => g.session = f.session
  /\ \A f, g \in backup.feed : f.event = g.event => f = g
BackupKept == backup # None => KeptProduct /\ KeptRows /\ KeptFeed

Local == Typed /\ Shop /\ RowsCount /\ FeedRead /\ BackupKept

-----------------------------------------------------------------------------
(* Sums over finite sets.  A sum is the value of any function that adds an *)
(* element at a time.                                                      *)

Adds(h, S, w) ==
  /\ h \in [SUBSET S -> Int] /\ h[{}] = 0
  /\ \A T \in SUBSET S : \A x \in T : h[T] = w[x] + h[T \ {x}]

\* The sum of w over S.
Sum(w, S) == (CHOOSE h : Adds(h, S, w))[S]
Weighs(w, S) == \A x \in S : w[x] \in Int

\* What MapThenSumSet computes: one element, chosen, at a time.
Folds(g, S, w) ==
  \A T \in SUBSET S :
    g[T] = IF T = {} THEN 0 ELSE w[CHOOSE x \in T : TRUE] + g[T \ {CHOOSE x \in T : TRUE}]

LEMMA SmallestSet ==
  ASSUME NEW S, IsFiniteSet(S), NEW B \in SUBSET SUBSET S, B # {}
  PROVE  \E T \in B : \A U \in B : U \subseteq T => U = T
<1> DEFINE R == StrictSubsetOrdering(S)
<1>1. IsWellFoundedOn(R, SUBSET S)
  BY FS_StrictSubsetOrderingWellFounded, FS_FiniteSubsetsOfFinite
<1>2. PICK T \in B : \A U \in B : ~(<<U, T>> \in R)
  <2> HIDE DEF R
  <2> QED
    BY <1>1, WFMin
<1>3. ASSUME NEW U \in B, U \subseteq T, U # T PROVE FALSE
  <2>1. <<U, T>> \in R
    BY <1>3 DEF StrictSubsetOrdering
  <2> QED
    BY <1>2, <2>1
<1> QED
  BY <1>3

LEMMA AddsExtend ==
  ASSUME NEW S, NEW w, Weighs(w, S), NEW x \in S, NEW g, Adds(g, S \ {x}, w)
  PROVE  \E h : Adds(h, S, w)
<1> DEFINE h == [U \in SUBSET S |-> IF x \in U THEN w[x] + g[U \ {x}] ELSE g[U]]
<1>1. \A U \in SUBSET S : U \ {x} \in SUBSET (S \ {x}) /\ (x \notin U => U \in SUBSET (S \ {x}))
  OBVIOUS
<1>2. h \in [SUBSET S -> Int]
  BY <1>1 DEF Adds, Weighs
<1>3. h[{}] = 0
  BY DEF Adds
<1>4. ASSUME NEW U \in SUBSET S, NEW y \in U PROVE h[U] = w[y] + h[U \ {y}]
  <2>1. U \ {y} \in SUBSET S /\ y \in S
    OBVIOUS
  <2>2. CASE y = x
    <3>1. x \notin U \ {y} /\ U \ {y} = U \ {x}
      BY <2>2
    <3>2. h[U] = w[x] + g[U \ {x}] /\ h[U \ {y}] = g[U \ {y}]
      BY <2>1, <2>2, <3>1
    <3> QED
      BY <2>2, <3>1, <3>2
  <2>3. CASE y # x /\ x \in U
    <3>1. h[U] = w[x] + g[U \ {x}] /\ h[U \ {y}] = w[x] + g[(U \ {y}) \ {x}]
      BY <2>1, <2>3
    <3>2. (U \ {y}) \ {x} = (U \ {x}) \ {y} /\ y \in U \ {x}
      BY <2>3
    <3>3. g[U \ {x}] = w[y] + g[(U \ {x}) \ {y}]
      BY <1>1, <3>2 DEF Adds
    <3>4. w[x] \in Int /\ w[y] \in Int /\ g[(U \ {x}) \ {y}] \in Int
      <4>1. (U \ {x}) \ {y} \in SUBSET (S \ {x})
        OBVIOUS
      <4> QED
        BY <2>1, <4>1 DEF Adds, Weighs
    <3>5. PICK a, b, c : a = w[x] /\ b = w[y] /\ c = g[(U \ {y}) \ {x}]
      OBVIOUS
    <3>6. h[U] = a + (b + c) /\ h[U \ {y}] = a + c
      BY <3>1, <3>2, <3>3, <3>5
    <3>7. a \in Int /\ b \in Int /\ c \in Int
      BY <3>2, <3>4, <3>5
    <3> HIDE DEF h
    <3> QED
      BY <3>5, <3>6, <3>7
  <2>4. CASE y # x /\ x \notin U
    <3>1. h[U] = g[U] /\ h[U \ {y}] = g[U \ {y}]
      BY <2>1, <2>4
    <3>2. g[U] = w[y] + g[U \ {y}]
      BY <1>1, <2>4 DEF Adds
    <3> QED
      BY <3>1, <3>2
  <2> QED
    BY <2>2, <2>3, <2>4
<1> HIDE DEF h
<1> QED
  BY <1>2, <1>3, <1>4 DEF Adds

LEMMA AddsExists ==
  ASSUME NEW S, IsFiniteSet(S), NEW w, Weighs(w, S)
  PROVE  \E h : Adds(h, S, w)
<1> DEFINE B == {T \in SUBSET S : ~\E h : Adds(h, T, w)}
<1>1. SUFFICES ASSUME B # {} PROVE FALSE
  BY S \in SUBSET S
<1>2. PICK T \in B : \A U \in B : U \subseteq T => U = T
  <2>1. B \in SUBSET SUBSET S
    OBVIOUS
  <2> HIDE DEF B
  <2> QED
    BY <1>1, <2>1, SmallestSet
<1>3. CASE T = {}
  <2> DEFINE h == [U \in SUBSET {} |-> 0]
  <2>1. Adds(h, {}, w)
    <3>1. SUBSET {} = {{}}
      OBVIOUS
    <3>2. h \in [SUBSET {} -> Int] /\ h[{}] = 0
      OBVIOUS
    <3> QED
      BY <3>1, <3>2 DEF Adds
  <2> QED
    BY <1>2, <1>3, <2>1
<1>4. CASE T # {}
  <2>1. PICK x \in T : TRUE
    BY <1>4
  <2>2. T \ {x} \in SUBSET S /\ T \ {x} \subseteq T /\ T \ {x} # T /\ T \in SUBSET S
    BY <2>1
  <2>3. T \ {x} \notin B
    <3> HIDE DEF B
    <3> QED
      BY <1>2, <2>2
  <2>4. PICK g : Adds(g, T \ {x}, w)
    BY <2>2, <2>3
  <2>5. Weighs(w, T)
    BY <2>2 DEF Weighs
  <2>6. \E h : Adds(h, T, w)
    BY <2>4, <2>5, AddsExtend
  <2> QED
    BY <1>2, <2>6
<1> QED
  BY <1>3, <1>4

\* Whatever the order, a fold is the sum.
LEMMA FoldIsSum ==
  ASSUME NEW S, IsFiniteSet(S), NEW w, NEW h, Adds(h, S, w), NEW g, Folds(g, S, w)
  PROVE  g[S] = h[S]
<1> DEFINE B == {T \in SUBSET S : g[T] # h[T]}
<1>1. SUFFICES ASSUME B # {} PROVE FALSE
  BY S \in SUBSET S
<1>2. PICK T \in B : \A U \in B : U \subseteq T => U = T
  <2>1. B \in SUBSET SUBSET S
    OBVIOUS
  <2> HIDE DEF B
  <2> QED
    BY <1>1, <2>1, SmallestSet
<1>3. T # {}
  BY <1>2 DEF Adds, Folds
<1>4. PICK x : x = CHOOSE y \in T : TRUE
  OBVIOUS
<1>5. x \in T
  BY <1>3, <1>4
<1>6. g[T] = w[x] + g[T \ {x}]
  BY <1>2, <1>3, <1>4 DEF Folds
<1>7. h[T] = w[x] + h[T \ {x}]
  BY <1>2, <1>5 DEF Adds
<1>8. T \ {x} \in SUBSET S /\ T \ {x} \subseteq T /\ T \ {x} # T
  BY <1>5
<1>9. T \ {x} \notin B
  <2> HIDE DEF B
  <2> QED
    BY <1>2, <1>8
<1>10. g[T \ {x}] = h[T \ {x}]
  BY <1>8, <1>9
<1> QED
  BY <1>2, <1>6, <1>7, <1>10

LEMMA AddsFolds ==
  ASSUME NEW S, NEW w, NEW h, Adds(h, S, w)
  PROVE  Folds(h, S, w)
<1> SUFFICES ASSUME NEW T \in SUBSET S
             PROVE  h[T] = IF T = {} THEN 0
                           ELSE w[CHOOSE x \in T : TRUE] + h[T \ {CHOOSE x \in T : TRUE}]
  BY DEF Folds
<1>1. PICK x : x = CHOOSE y \in T : TRUE
  OBVIOUS
<1>2. T # {} => x \in T
  BY <1>1
<1>3. T # {} => h[T] = w[x] + h[T \ {x}]
  BY <1>2 DEF Adds
<1> QED
  BY <1>1, <1>3 DEF Adds

LEMMA SumExhibit ==
  ASSUME NEW S, IsFiniteSet(S), NEW w, NEW h, Adds(h, S, w)
  PROVE  Sum(w, S) = h[S]
<1> DEFINE g == CHOOSE f : Adds(f, S, w)
<1>1. Adds(g, S, w)
  OBVIOUS
<1>2. Sum(w, S) = g[S]
  BY DEF Sum
<1> HIDE DEF g
<1> QED
  BY <1>1, <1>2, AddsFolds, FoldIsSum

LEMMA SumOfPart ==
  ASSUME NEW S, IsFiniteSet(S), NEW w, NEW h, Adds(h, S, w), NEW T \in SUBSET S
  PROVE  Sum(w, T) = h[T]
<1> DEFINE g == [U \in SUBSET T |-> h[U]]
<1>1. SUBSET T \subseteq SUBSET S /\ {} \in SUBSET T /\ T \in SUBSET T
  OBVIOUS
<1>2. g \in [SUBSET T -> Int] /\ g[{}] = 0
  BY <1>1 DEF Adds
<1>3. ASSUME NEW U \in SUBSET T, NEW x \in U PROVE g[U] = w[x] + g[U \ {x}]
  <2>1. U \ {x} \in SUBSET T /\ U \in SUBSET S
    BY <1>1
  <2>2. h[U] = w[x] + h[U \ {x}]
    BY <2>1 DEF Adds
  <2> QED
    BY <2>1, <2>2
<1>4. Adds(g, T, w)
  <2> HIDE DEF g
  <2> QED
    BY <1>2, <1>3 DEF Adds
<1>5. IsFiniteSet(T)
  BY FS_Subset
<1> HIDE DEF g
<1>6. Sum(w, T) = g[T]
  BY <1>4, <1>5, SumExhibit
<1> QED
  BY <1>1, <1>6 DEF g

LEMMA SumType ==
  ASSUME NEW S, IsFiniteSet(S), NEW w, Weighs(w, S)
  PROVE  Sum(w, S) \in Int
<1>1. PICK h : Adds(h, S, w)
  BY AddsExists
<1>2. Sum(w, S) = h[S]
  BY <1>1, SumExhibit
<1> QED
  BY <1>1, <1>2 DEF Adds

LEMMA SumEmpty ==
  ASSUME NEW w
  PROVE  Sum(w, {}) = 0
<1>1. IsFiniteSet({}) /\ Weighs(w, {})
  BY FS_EmptySet DEF Weighs
<1>2. PICK h : Adds(h, {}, w)
  BY <1>1, AddsExists
<1>3. Sum(w, {}) = h[{}]
  BY <1>1, <1>2, SumExhibit
<1> QED
  BY <1>2, <1>3 DEF Adds

\* One element more.
LEMMA SumInsert ==
  ASSUME NEW S, IsFiniteSet(S), NEW x, x \notin S, NEW w, Weighs(w, S), w[x] \in Int
  PROVE  Sum(w, S \cup {x}) = w[x] + Sum(w, S)
<1> DEFINE T == S \cup {x}
<1>1. IsFiniteSet(T) /\ Weighs(w, T)
  BY FS_AddElement DEF Weighs
<1>2. PICK h : Adds(h, T, w)
  <2> HIDE DEF T
  <2> QED
    BY <1>1, AddsExists
<1>3. S \in SUBSET T /\ T \in SUBSET T /\ T \ {x} = S /\ x \in T
  OBVIOUS
<1> HIDE DEF T
<1>4. Sum(w, T) = h[T] /\ Sum(w, S) = h[S]
  BY <1>1, <1>2, <1>3, SumOfPart
<1>5. h[T] = w[x] + h[T \ {x}]
  BY <1>2, <1>3 DEF Adds
<1> QED
  BY <1>3, <1>4, <1>5 DEF T

\* The sum depends on the weights of the elements only.
LEMMA SumUnion ==
  ASSUME NEW S, IsFiniteSet(S), NEW T, IsFiniteSet(T), S \cap T = {}, NEW w,
         Weighs(w, S), Weighs(w, T)
  PROVE  Sum(w, S \cup T) = Sum(w, S) + Sum(w, T)
<1> DEFINE A == S \cup T
<1>1. IsFiniteSet(A) /\ Weighs(w, A) /\ S \in SUBSET A /\ A \in SUBSET A
  BY FS_Union DEF Weighs
<1>2. \A U \in SUBSET T : S \cup U \in SUBSET A
  OBVIOUS
<1> HIDE DEF A
<1>3. PICK h : Adds(h, A, w)
  BY <1>1, AddsExists
<1>4. Sum(w, A) = h[A] /\ Sum(w, S) = h[S]
  BY <1>1, <1>3, SumOfPart
<1> DEFINE g == [U \in SUBSET T |-> h[S \cup U] - h[S]]
<1>5. \A U \in SUBSET T : h[S \cup U] \in Int /\ h[S] \in Int
  BY <1>1, <1>2, <1>3 DEF Adds
<1>6. g \in [SUBSET T -> Int] /\ g[{}] = 0
  <2>1. S \cup {} = S /\ {} \in SUBSET T
    OBVIOUS
  <2>2. h[S] \in Int
    BY <1>5, <2>1
  <2>3. g[{}] = h[S] - h[S]
    BY <2>1
  <2>4. ASSUME NEW U \in SUBSET T PROVE h[S \cup U] - h[S] \in Int
    <3>1. PICK a, b : a = h[S \cup U] /\ b = h[S]
      OBVIOUS
    <3>2. a \in Int /\ b \in Int
      BY <1>5, <3>1
    <3>3. a - b \in Int
      BY <3>2
    <3> QED
      BY <3>1, <3>3
  <2>5. g \in [SUBSET T -> Int]
    BY <2>4
  <2> HIDE DEF g
  <2> QED
    BY <2>2, <2>3, <2>5
<1>7. ASSUME NEW U \in SUBSET T, NEW x \in U PROVE g[U] = w[x] + g[U \ {x}]
  <2>1. U \ {x} \in SUBSET T /\ (S \cup U) \ {x} = S \cup (U \ {x}) /\ x \in S \cup U
    OBVIOUS
  <2>2. h[S \cup U] = w[x] + h[S \cup (U \ {x})]
    BY <1>2, <1>3, <2>1 DEF Adds
  <2>3. w[x] \in Int
    BY DEF Weighs
  <2>4. h[S \cup (U \ {x})] \in Int /\ h[S] \in Int
    BY <1>5, <2>1
  <2>5. h[S \cup U] - h[S] = w[x] + (h[S \cup (U \ {x})] - h[S])
    BY <2>2, <2>3, <2>4
  <2> QED
    BY <2>1, <2>5
<1> HIDE DEF g
<1>8. Adds(g, T, w)
  BY <1>6, <1>7 DEF Adds
<1>9. Sum(w, T) = g[T]
  BY <1>8, SumExhibit
<1>10. g[T] = h[A] - h[S] /\ h[A] \in Int /\ h[S] \in Int
  BY <1>5 DEF g, A
<1> QED
  BY <1>4, <1>9, <1>10 DEF A

LEMMA SumOnes ==
  ASSUME NEW S, IsFiniteSet(S), NEW w, \A x \in S : w[x] = 1
  PROVE  Sum(w, S) = Cardinality(S)
<1> DEFINE h == [T \in SUBSET S |-> Cardinality(T)]
<1>1. \A T \in SUBSET S : IsFiniteSet(T) /\ Cardinality(T) \in Nat
  BY FS_Subset, FS_CardinalityType
<1>2. ASSUME NEW T \in SUBSET S, NEW x \in T PROVE h[T] = w[x] + h[T \ {x}]
  <2>1. Cardinality(T \ {x}) = Cardinality(T) - 1
    BY <1>1, FS_RemoveElement
  <2>2. Cardinality(T) \in Nat /\ w[x] = 1 /\ T \ {x} \in SUBSET S
    BY <1>1
  <2>3. Cardinality(T) = w[x] + Cardinality(T \ {x})
    BY <2>1, <2>2
  <2> QED
    BY <2>2, <2>3
<1>3. h \in [SUBSET S -> Int] /\ h[{}] = 0
  BY <1>1, FS_EmptySet
<1>4. h[S] = Cardinality(S)
  OBVIOUS
<1> HIDE DEF h
<1>5. Adds(h, S, w)
  BY <1>2, <1>3 DEF Adds
<1> QED
  BY <1>4, <1>5, SumExhibit

LEMMA CardinalityApart ==
  ASSUME NEW A, NEW B, IsFiniteSet(A), IsFiniteSet(B), A \cap B = {}
  PROVE  Cardinality(A \cup B) = Cardinality(A) + Cardinality(B)
<1>1. Cardinality(A \cup B) = Cardinality(A) + Cardinality(B) - Cardinality(A \cap B)
  BY FS_Union
<1>2. Cardinality(A) \in Nat /\ Cardinality(B) \in Nat /\ Cardinality(A \cap B) = 0
  BY FS_CardinalityType, FS_EmptySet
<1> QED
  BY <1>1, <1>2

\* Disjoint sets that are counted one by one are counted together.
LEMMA SumOfDisjoint ==
  ASSUME NEW S, IsFiniteSet(S), NEW E, NEW w,
         \A x \in S : IsFiniteSet(E[x]) /\ w[x] = Cardinality(E[x]),
         \A x, y \in S : x # y => E[x] \cap E[y] = {}
  PROVE  Sum(w, S) = Cardinality(UNION {E[x] : x \in S})
<1> DEFINE U(T) == UNION {E[x] : x \in T}
           h == [T \in SUBSET S |-> Cardinality(U(T))]
<1>1. ASSUME NEW T \in SUBSET S PROVE IsFiniteSet(U(T)) /\ Cardinality(U(T)) \in Nat
  <2>1. IsFiniteSet(T)
    BY FS_Subset
  <2> DEFINE F == {E[x] : x \in T}
             e == [x \in T |-> E[x]]
  <2>2. e \in Surjection(T, F)
    BY DEF Surjection
  <2>3. IsFiniteSet(F)
    <3> HIDE DEF F, e
    <3> QED
      BY <2>1, <2>2, FS_Surjection
  <2>4. \A X \in F : IsFiniteSet(X)
    OBVIOUS
  <2>5. IsFiniteSet(UNION F)
    <3> HIDE DEF F
    <3> QED
      BY <2>3, <2>4, FS_UNION
  <2> QED
    BY <2>5, FS_CardinalityType
<1>2. ASSUME NEW T \in SUBSET S, NEW x \in T PROVE h[T] = w[x] + h[T \ {x}]
  <2>1. U(T) = U(T \ {x}) \cup E[x] /\ U(T \ {x}) \cap E[x] = {}
    <3>1. U(T) = U(T \ {x}) \cup E[x]
      OBVIOUS
    <3>2. \A y \in T \ {x} : E[y] \cap E[x] = {}
      OBVIOUS
    <3> QED
      BY <3>1, <3>2
  <2>2. IsFiniteSet(E[x]) /\ Cardinality(E[x]) \in Nat /\ w[x] = Cardinality(E[x])
    BY FS_CardinalityType
  <2>3. T \ {x} \in SUBSET S
    OBVIOUS
  <2>4. IsFiniteSet(U(T \ {x})) /\ Cardinality(U(T \ {x})) \in Nat
    BY <1>1, <2>3
  <2> HIDE DEF U
  <2>5. Cardinality(U(T \ {x}) \cup E[x]) = Cardinality(U(T \ {x})) + Cardinality(E[x])
    BY <2>1, <2>2, <2>4, CardinalityApart
  <2>6. Cardinality(U(T)) = w[x] + Cardinality(U(T \ {x}))
    BY <2>1, <2>2, <2>4, <2>5
  <2> QED
    BY <2>3, <2>6
<1>3. h \in [SUBSET S -> Int] /\ h[{}] = 0
  <2>1. U({}) = {}
    OBVIOUS
  <2> HIDE DEF U
  <2>2. Cardinality(U({})) = 0 /\ \A T \in SUBSET S : Cardinality(U(T)) \in Int
    BY <1>1, <2>1, FS_EmptySet
  <2> QED
    BY <2>2
<1>4. h[S] = Cardinality(UNION {E[x] : x \in S})
  OBVIOUS
<1> HIDE DEF h
<1>5. Adds(h, S, w)
  BY <1>2, <1>3 DEF Adds
<1> QED
  BY <1>4, <1>5, SumExhibit

-----------------------------------------------------------------------------
(* The sums of the model *)

Qty == [r \in Rows |-> r.qty]
Shift == [f \in FeedRows |-> f.delta]
Line(c, s, S) == [p \in S |-> c[<<s, p>>]]

LEMMA TotalIsSum ==
  ASSUME NEW S \in SUBSET Rows, IsFiniteSet(S)
  PROVE  Total(S) = Sum(Qty, S)
<1> DEFINE Body(F) == [T \in SUBSET S |->
                         IF T = {} THEN 0
                         ELSE LET x == CHOOSE x \in T : TRUE IN x.qty + F[T \ {x}]]
           P(F) == F = Body(F)
           g[T \in SUBSET S] ==
             IF T = {} THEN 0 ELSE LET x == CHOOSE x \in T : TRUE IN x.qty + g[T \ {x}]
<1>1. Total(S) = g[S]
  BY DEF Total, MapThenSumSet, MapThenFoldSet
<1>2. Weighs(Qty, S) /\ \A x \in S : Qty[x] = x.qty
  BY DEF Weighs, Qty, Rows
<1>3. PICK h : Adds(h, S, Qty)
  BY <1>2, AddsExists
<1>4. P(h)
  <2>1. ASSUME NEW T \in SUBSET S, T # {}
        PROVE  h[T] = LET x == CHOOSE x \in T : TRUE IN x.qty + h[T \ {x}]
    <3>1. PICK x : x = CHOOSE y \in T : TRUE
      OBVIOUS
    <3>2. x \in T
      BY <2>1, <3>1
    <3>3. h[T] = Qty[x] + h[T \ {x}] /\ Qty[x] = x.qty
      BY <1>2, <1>3, <3>2 DEF Adds
    <3> QED
      BY <3>1, <3>3
  <2>2. h = [T \in SUBSET S |-> h[T]] /\ h[{}] = 0
    BY <1>3 DEF Adds
  <2> QED
    BY <2>1, <2>2
<1>5. g = CHOOSE F : P(F)
  OBVIOUS
<1> HIDE DEF g, P
<1>6. P(CHOOSE F : P(F))
  BY <1>4
<1>7. g = Body(g)
  BY <1>5, <1>6 DEF P
<1>8. Folds(g, S, Qty)
  <2> SUFFICES ASSUME NEW T \in SUBSET S
               PROVE  g[T] = IF T = {} THEN 0
                             ELSE Qty[CHOOSE x \in T : TRUE] + g[T \ {CHOOSE x \in T : TRUE}]
    BY DEF Folds
  <2>1. PICK x : x = CHOOSE y \in T : TRUE
    OBVIOUS
  <2>2. T # {} => Qty[x] = x.qty
    BY <1>2, <2>1
  <2>3. g[T] = IF T = {} THEN 0 ELSE LET y == CHOOSE y \in T : TRUE IN y.qty + g[T \ {y}]
    BY <1>7
  <2> QED
    BY <2>1, <2>2, <2>3
<1>9. g[S] = h[S]
  BY <1>3, <1>8, FoldIsSum
<1> QED
  BY <1>1, <1>3, <1>9, SumExhibit

LEMMA DeltasAreSum ==
  ASSUME NEW S \in SUBSET FeedRows, IsFiniteSet(S)
  PROVE  MapThenSumSet(LAMBDA f : f.delta, S) = Sum(Shift, S)
<1> DEFINE Body(F) == [T \in SUBSET S |->
                         IF T = {} THEN 0
                         ELSE LET x == CHOOSE x \in T : TRUE IN x.delta + F[T \ {x}]]
           P(F) == F = Body(F)
           g[T \in SUBSET S] ==
             IF T = {} THEN 0 ELSE LET x == CHOOSE x \in T : TRUE IN x.delta + g[T \ {x}]
<1>1. MapThenSumSet(LAMBDA f : f.delta, S) = g[S]
  BY DEF MapThenSumSet, MapThenFoldSet
<1>2. Weighs(Shift, S) /\ \A x \in S : Shift[x] = x.delta
  BY DEF Weighs, Shift, FeedRows
<1>3. PICK h : Adds(h, S, Shift)
  BY <1>2, AddsExists
<1>4. P(h)
  <2>1. ASSUME NEW T \in SUBSET S, T # {}
        PROVE  h[T] = LET x == CHOOSE x \in T : TRUE IN x.delta + h[T \ {x}]
    <3>1. PICK x : x = CHOOSE y \in T : TRUE
      OBVIOUS
    <3>2. x \in T
      BY <2>1, <3>1
    <3>3. h[T] = Shift[x] + h[T \ {x}] /\ Shift[x] = x.delta
      BY <1>2, <1>3, <3>2 DEF Adds
    <3> QED
      BY <3>1, <3>3
  <2>2. h = [T \in SUBSET S |-> h[T]] /\ h[{}] = 0
    BY <1>3 DEF Adds
  <2> QED
    BY <2>1, <2>2
<1>5. g = CHOOSE F : P(F)
  OBVIOUS
<1> HIDE DEF g, P
<1>6. P(CHOOSE F : P(F))
  BY <1>4
<1>7. g = Body(g)
  BY <1>5, <1>6 DEF P
<1>8. Folds(g, S, Shift)
  <2> SUFFICES ASSUME NEW T \in SUBSET S
               PROVE  g[T] = IF T = {} THEN 0
                             ELSE Shift[CHOOSE x \in T : TRUE] + g[T \ {CHOOSE x \in T : TRUE}]
    BY DEF Folds
  <2>1. PICK x : x = CHOOSE y \in T : TRUE
    OBVIOUS
  <2>2. T # {} => Shift[x] = x.delta
    BY <1>2, <2>1
  <2>3. g[T] = IF T = {} THEN 0 ELSE LET y == CHOOSE y \in T : TRUE IN y.delta + g[T \ {y}]
    BY <1>7
  <2> QED
    BY <2>1, <2>2, <2>3
<1>9. g[S] = h[S]
  BY <1>3, <1>8, FoldIsSum
<1> QED
  BY <1>1, <1>3, <1>9, SumExhibit

LEMMA CloudIsSum ==
  ASSUME NEW S, IsFiniteSet(S), NEW c, NEW s, \A p \in S : c[<<s, p>>] \in Int
  PROVE  MapThenSumSet(LAMBDA p : c[<<s, p>>], S) = Sum(Line(c, s, S), S)
<1> DEFINE Body(F) == [T \in SUBSET S |->
                         IF T = {} THEN 0
                         ELSE LET x == CHOOSE x \in T : TRUE IN c[<<s, x>>] + F[T \ {x}]]
           P(F) == F = Body(F)
           g[T \in SUBSET S] ==
             IF T = {} THEN 0 ELSE LET x == CHOOSE x \in T : TRUE IN c[<<s, x>>] + g[T \ {x}]
<1>1. MapThenSumSet(LAMBDA p : c[<<s, p>>], S) = g[S]
  BY DEF MapThenSumSet, MapThenFoldSet
<1>2. Weighs(Line(c, s, S), S) /\ \A x \in S : Line(c, s, S)[x] = c[<<s, x>>]
  BY DEF Weighs, Line
<1>3. PICK h : Adds(h, S, Line(c, s, S))
  BY <1>2, AddsExists
<1>4. P(h)
  <2>1. ASSUME NEW T \in SUBSET S, T # {}
        PROVE  h[T] = LET x == CHOOSE x \in T : TRUE IN c[<<s, x>>] + h[T \ {x}]
    <3>1. PICK x : x = CHOOSE y \in T : TRUE
      OBVIOUS
    <3>2. x \in T
      BY <2>1, <3>1
    <3>3. h[T] = Line(c, s, S)[x] + h[T \ {x}] /\ Line(c, s, S)[x] = c[<<s, x>>]
      BY <1>2, <1>3, <3>2 DEF Adds
    <3> QED
      BY <3>1, <3>3
  <2>2. h = [T \in SUBSET S |-> h[T]] /\ h[{}] = 0
    BY <1>3 DEF Adds
  <2> QED
    BY <2>1, <2>2
<1>5. g = CHOOSE F : P(F)
  OBVIOUS
<1> HIDE DEF g, P
<1>6. P(CHOOSE F : P(F))
  BY <1>4
<1>7. g = Body(g)
  BY <1>5, <1>6 DEF P
<1>8. Folds(g, S, Line(c, s, S))
  <2> SUFFICES ASSUME NEW T \in SUBSET S
               PROVE  g[T] = IF T = {} THEN 0
                             ELSE Line(c, s, S)[CHOOSE x \in T : TRUE] + g[T \ {CHOOSE x \in T : TRUE}]
    BY DEF Folds
  <2>1. PICK x : x = CHOOSE y \in T : TRUE
    OBVIOUS
  <2>2. T # {} => Line(c, s, S)[x] = c[<<s, x>>]
    BY <1>2, <2>1
  <2>3. g[T] = IF T = {} THEN 0 ELSE LET y == CHOOSE y \in T : TRUE IN c[<<s, y>>] + g[T \ {y}]
    BY <1>7
  <2> QED
    BY <2>1, <2>2, <2>3
<1>9. g[S] = h[S]
  BY <1>3, <1>8, FoldIsSum
<1> QED
  BY <1>1, <1>3, <1>9, SumExhibit

-----------------------------------------------------------------------------
(* Bounds and types *)

LEMMA Bounds ==
  /\ MaxScans \in Nat /\ MaxProducts \in Nat /\ MaxSessions \in Nat \ {0} /\ MaxRows \in Nat
  /\ None \notin Nat
BY BoundsAssumption, KindsAssumption

LEMMA CatalogueFacts ==
  /\ Catalogue \in Seq(Product) /\ Len(Catalogue) \in 0..MaxProducts
  /\ \A p \in DOMAIN Catalogue : /\ Catalogue[p].trusted = TRUE
                                 /\ Catalogue[p].provisional = FALSE
                                 /\ Catalogue[p].status = "active"
<1> DEFINE P == [codes: SUBSET Codes, primary: Codes, trusted: {TRUE},
                 provisional: {FALSE}, status: {"active"}]
<1>1. Catalogue \in Seq(P) /\ Len(Catalogue) <= MaxProducts
  BY CatalogueAssumption
<1>2. \A q \in P : q \in Product /\ q.trusted = TRUE /\ q.provisional = FALSE /\ q.status = "active"
  BY DEF Product
<1>3. Len(Catalogue) \in Nat /\ DOMAIN Catalogue = 1..Len(Catalogue)
      /\ \A p \in DOMAIN Catalogue : Catalogue[p] \in P
  <2> HIDE DEF P
  <2> QED
    BY <1>1
<1> HIDE DEF P
<1>4. \A p \in 1..Len(Catalogue) : Catalogue[p] \in Product
  BY <1>2, <1>3
<1>5. Catalogue \in Seq(Product)
  <2>1. Catalogue \in [1..Len(Catalogue) -> P]
    BY <1>1
  <2>2. Catalogue \in [1..Len(Catalogue) -> Product]
    BY <1>4, <2>1
  <2> QED
    BY <1>3, <2>2, SeqDef
<1> QED
  BY <1>1, <1>2, <1>3, <1>5, Bounds

LEMMA ProductsFacts ==
  ASSUME Typed
  PROVE  /\ DOMAIN products = 1..Len(products) /\ Len(products) \in 0..MaxProducts
         /\ \A p \in DOMAIN products : products[p] \in Product /\ p \in Ids /\ p \in Nat
<1>1. products \in Seq(Product) /\ Len(products) <= MaxProducts
  BY DEF Typed, TypedShop
<1>2. DOMAIN products = 1..Len(products) /\ Len(products) \in Nat
      /\ \A p \in DOMAIN products : products[p] \in Product
  BY <1>1
<1> QED
  BY <1>1, <1>2, Bounds DEF Ids

LEMMA ScansFinite ==
  ASSUME NEW E \in SUBSET (1..MaxScans)
  PROVE  IsFiniteSet(E) /\ Cardinality(E) \in 0..MaxScans
<1>1. IsFiniteSet(1..MaxScans) /\ Cardinality(1..MaxScans) = MaxScans
  <2>1. 1 \in Int /\ MaxScans \in Int
    BY Bounds
  <2>2. /\ IsFiniteSet(1..MaxScans)
        /\ Cardinality(1..MaxScans) = IF 1 > MaxScans THEN 0 ELSE MaxScans - 1 + 1
    BY <2>1, FS_Interval
  <2> QED
    BY <2>2, Bounds
<1>2. IsFiniteSet(E) /\ Cardinality(E) <= MaxScans /\ Cardinality(E) \in Nat
  BY <1>1, FS_Subset, FS_CardinalityType
<1> QED
  BY <1>2, Bounds

LEMMA MinOfSet ==
  ASSUME NEW S \in SUBSET Nat, S # {}
  PROVE  Min(S) \in S
<1> DEFINE R == OpToRel(<, Nat)
<1>1. PICK x \in S : \A y \in S : ~(<<y, x>> \in R)
  <2>1. IsWellFoundedOn(R, Nat)
    BY NatLessThanWellFounded
  <2> HIDE DEF R
  <2> QED
    BY <2>1, WFMin
<1>2. ASSUME NEW y \in S PROVE x <= y
  <2>1. y \in Nat /\ x \in Nat
    OBVIOUS
  <2>2. ~(y < x)
    BY <1>1, <2>1 DEF OpToRel
  <2> QED
    BY <2>1, <2>2
<1> QED
  BY <1>2 DEF Min

LEMMA LastOf ==
  ASSUME NEW F \in SUBSET FeedRows, F # {}
  PROVE  \E f \in F : \A g \in F : g.event <= f.event
<1> DEFINE T == {MaxScans - f.event : f \in F}
           R == OpToRel(<, Nat)
<1>1. \A f \in F : f.event \in 1..MaxScans
  BY DEF FeedRows
<1>2. T \subseteq Nat /\ T # {}
  <2>1. \A f \in F : MaxScans - f.event \in Nat
    BY <1>1, Bounds
  <2> QED
    BY <2>1
<1>3. PICK x \in T : \A y \in T : ~(<<y, x>> \in R)
  <2>1. IsWellFoundedOn(R, Nat)
    BY NatLessThanWellFounded
  <2> HIDE DEF T, R
  <2> QED
    BY <1>2, <2>1, WFMin
<1>4. PICK f \in F : x = MaxScans - f.event
  BY <1>3
<1>5. ASSUME NEW g \in F PROVE g.event <= f.event
  <2>1. MaxScans - g.event \in T /\ MaxScans - g.event \in Nat /\ x \in Nat
    BY <1>2
  <2>2. ~(MaxScans - g.event < x)
    BY <1>3, <2>1 DEF OpToRel
  <2> QED
    BY <1>1, <1>4, <2>2, Bounds
<1> QED
  BY <1>5

LEMMA CodeOfType ==
  ASSUME Typed, NEW p \in DOMAIN products
  PROVE  CodeOf(p) \in Codes
<1>1. products[p] \in Product
  BY ProductsFacts
<1>2. CASE FeedOf(p) # {}
  <2>1. FeedOf(p) \in SUBSET FeedRows
    BY DEF FeedOf, Typed, TypedCounts
  <2>2. \E f \in FeedOf(p) : \A g \in FeedOf(p) : g.event <= f.event
    BY <1>2, <2>1, LastOf
  <2>3. (CHOOSE f \in FeedOf(p) : \A g \in FeedOf(p) : g.event <= f.event) \in FeedRows
    BY <2>1, <2>2
  <2> QED
    BY <1>2, <2>3 DEF CodeOf, FeedRows
<1> QED
  BY <1>1, <1>2 DEF CodeOf, Product

LEMMA TypedType == ASSUME Typed PROVE TypeOK
<1>1. products \in Seq(Product) /\ Len(products) <= MaxProducts
  BY DEF Typed, TypedShop
<1>2. session \in 1..MaxSessions /\ scans \in 0..MaxScans /\ made \in 0..MaxRows
      /\ rows \subseteq Rows /\ feed \subseteq FeedRows
  BY DEF Typed, TypedCounts
<1>3. backup = None \/ (backup.rows \subseteq Rows /\ backup.feed \subseteq FeedRows)
  BY DEF Typed, TypedBackup, Backup
<1>4. /\ \A S \in {queue, applied, refused} : S \subseteq Increments
      /\ cloud \in [(1..MaxSessions) \X Ids -> Int]
  BY DEF Typed, TypedQueue
<1> QED
  BY <1>1, <1>2, <1>3, <1>4 DEF TypeOK

-----------------------------------------------------------------------------
(* What rows count *)

LEMMA RowsFinite ==
  ASSUME Typed, RowsCount
  PROVE  IsFiniteSet(rows)
<1> DEFINE f == [r \in rows |-> r.id]
<1>1. rows \subseteq Rows
  BY DEF Typed, TypedCounts
<1>2. f \in [rows -> 1..MaxRows]
  BY <1>1 DEF Rows
<1>3. \A r, s \in rows : f[r] = f[s] => r = s
  BY DEF RowsCount, Apart
<1>4. f \in Injection(rows, 1..MaxRows)
  BY <1>2, <1>3 DEF Injection, IsInjective
<1>5. IsFiniteSet(1..MaxRows)
  <2>1. 1 \in Int /\ MaxRows \in Int
    BY Bounds
  <2> QED
    BY <2>1, FS_Interval
<1> HIDE DEF f
<1> QED
  BY <1>4, <1>5, FS_Injection

LEMMA FeedFinite ==
  ASSUME Typed, FeedRead
  PROVE  IsFiniteSet(feed)
<1> DEFINE f == [r \in feed |-> r.event]
<1>1. feed \subseteq FeedRows
  BY DEF Typed, TypedCounts
<1>2. f \in [feed -> 1..MaxScans]
  BY <1>1 DEF FeedRows
<1>3. \A r, s \in feed : f[r] = f[s] => r = s
  BY DEF FeedRead
<1>4. f \in Injection(feed, 1..MaxScans)
  BY <1>2, <1>3 DEF Injection, IsInjective
<1>5. IsFiniteSet(1..MaxScans)
  BY ScansFinite
<1> HIDE DEF f
<1> QED
  BY <1>4, <1>5, FS_Injection

\* The quantities of rows add up to their scans.
LEMMA TotalCounts ==
  ASSUME Typed, RowsCount, NEW S \in SUBSET rows
  PROVE  Total(S) = Cardinality(UNION {r.events : r \in S})
<1> DEFINE E == [r \in Rows |-> r.events]
<1>1. IsFiniteSet(S) /\ S \in SUBSET Rows
  BY RowsFinite, FS_Subset DEF Typed, TypedCounts
<1>2. \A r \in S : E[r] = r.events /\ Qty[r] = r.qty /\ r.events \in SUBSET (1..MaxScans)
  BY <1>1 DEF Qty, Rows
<1>3. \A r \in S : IsFiniteSet(E[r]) /\ Qty[r] = Cardinality(E[r])
  BY <1>2, ScansFinite DEF RowsCount, CountsItsScans
<1>4. \A r, s \in S : r # s => E[r] \cap E[s] = {}
  BY <1>2 DEF RowsCount, Apart
<1>5. {E[r] : r \in S} = {r.events : r \in S}
  BY <1>2
<1> HIDE DEF E
<1>6. Sum(Qty, S) = Cardinality(UNION {E[r] : r \in S})
  BY <1>1, <1>3, <1>4, SumOfDisjoint
<1> QED
  BY <1>1, <1>5, <1>6, TotalIsSum

\* A product carries units if and only if it has a row.
LEMMA CarriesRows ==
  ASSUME Typed, RowsCount, NEW p
  PROVE  Carries(p) <=> RowsOf(p) # {}
<1> DEFINE U == UNION {r.events : r \in RowsOf(p)}
<1>1. RowsOf(p) \in SUBSET rows
  BY DEF RowsOf
<1>2. Total(RowsOf(p)) = Cardinality(U)
  BY <1>1, TotalCounts
<1>3. U \in SUBSET (1..MaxScans)
  BY <1>1 DEF Typed, TypedCounts, Rows
<1>4. RowsOf(p) # {} <=> U # {}
  BY <1>1 DEF RowsCount, CountsItsScans
<1> HIDE DEF U
<1>5. IsFiniteSet(U) /\ Cardinality(U) \in Nat
  BY <1>3, ScansFinite
<1>6. Cardinality(U) > 0 <=> U # {}
  BY <1>5, FS_EmptySet
<1> QED
  BY <1>2, <1>4, <1>6 DEF Carries

-----------------------------------------------------------------------------
(* The steps that leave the counts alone *)

LEMMA InitLocal == Init => Local
<1> SUFFICES ASSUME Init PROVE Local
  OBVIOUS
<1>1. Typed
  <2>1. TypedShop
    BY CatalogueFacts DEF TypedShop, Init
  <2>2. TypedCounts
    BY Bounds DEF TypedCounts, Init
  <2>3. TypedQueue
    BY DEF TypedQueue, Init
  <2> QED
    BY <2>1, <2>2, <2>3 DEF Typed, TypedBackup, Init
<1>2. Shop
  <2>1. ASSUME NEW p \in DOMAIN Catalogue PROVE Placed(p, Catalogue[p])
    <3>1. Len(Catalogue) \in Nat /\ p \in 1..Len(Catalogue)
      BY CatalogueFacts
    <3>2. p <= Len(Catalogue) /\ (p > Len(Catalogue)) = FALSE
      BY <3>1
    <3>3. /\ Catalogue[p].trusted = TRUE /\ Catalogue[p].provisional = FALSE
          /\ Catalogue[p].status = "active"
      BY CatalogueFacts
    <3> QED
      BY <3>2, <3>3 DEF Placed
  <2>2. Len(Catalogue) \in Nat
    BY CatalogueFacts
  <2> QED
    BY <2>1, <2>2 DEF Shop, Init
<1>3. RowsCount /\ FeedRead /\ BackupKept
  BY DEF RowsCount, FeedRead, BackupKept, Init
<1> QED
  BY <1>1, <1>2, <1>3 DEF Local

LEMMA RotateLocal ==
  ASSUME Local, Rotate
  PROVE  Local'
<1> USE DEF Rotate, remote
<1>1. session \in Nat /\ session' = session + 1 /\ session' \in 1..MaxSessions
  BY Bounds DEF Local, Typed, TypedCounts
<1>2. Typed'
  BY <1>1 DEF Local, Typed, TypedShop, TypedCounts, TypedBackup, TypedQueue
<1>3. rows' \subseteq rows
  OBVIOUS
<1>4. ASSUME NEW r \in Rows, CountsItsScans(r) PROVE CountsItsScans(r)' /\ r.session # session'
  <2>1. r.session \in Nat /\ r.session <= session
    BY <1>4 DEF CountsItsScans, Rows
  <2>2. r.session <= session' /\ r.session # session'
    BY <1>1, <2>1
  <2> QED
    BY <1>4, <2>2 DEF CountsItsScans
<1>5. \A r \in rows : r \in Rows /\ CountsItsScans(r)
  BY DEF Local, Typed, TypedCounts, RowsCount
<1>6. RowsCount'
  BY <1>3, <1>4, <1>5 DEF Local, RowsCount, Apart
<1>7. FeedRead'
  BY <1>3, <1>4, <1>5 DEF FeedRead
<1>8. Shop'
  BY <1>3 DEF Local, Shop, Placed
<1>9. BackupKept'
  <2> SUFFICES ASSUME backup # None PROVE (KeptProduct /\ KeptRows /\ KeptFeed)'
    BY DEF BackupKept
  <2>1. KeptProduct /\ KeptRows /\ KeptFeed /\ backup \in Backup
    BY DEF Local, BackupKept, Typed, TypedBackup
  <2>2. KeptProduct'
    BY <2>1 DEF KeptProduct, Placed
  <2>3. \A b \in backup.rows : b \in Rows /\ CountsItsScans(b)
    BY <2>1 DEF KeptRows, Backup
  <2>4. KeptRows'
    BY <1>3, <1>4, <2>1, <2>3 DEF KeptRows, LivesIn, Apart
  <2>5. KeptFeed'
    BY <2>1 DEF KeptFeed
  <2> QED
    BY <2>2, <2>4, <2>5
<1> QED
  BY <1>2, <1>6, <1>7, <1>8, <1>9 DEF Local

LEMMA DrainLocal ==
  ASSUME Local, NEW i \in queue, Drain(i)
  PROVE  Local'
<1>1. TypedQueue'
  <2>1. i \in Increments /\ i.delta \in Int
    BY DEF Local, Typed, TypedQueue, Increments
  <2>2. cloud' \in [(1..MaxSessions) \X Ids -> Int]
    BY <2>1 DEF Local, Typed, TypedQueue, Drain
  <2> QED
    BY <2>1, <2>2 DEF Local, Typed, TypedQueue, Drain
<1>2. (TypedShop /\ TypedCounts /\ TypedBackup)'
  BY DEF Local, Typed, TypedShop, TypedCounts, TypedBackup, Drain
<1>3. (Shop /\ RowsCount /\ FeedRead)'
  BY DEF Local, Shop, Placed, RowsCount, CountsItsScans, Apart, FeedRead, Drain
<1>4. BackupKept'
  BY DEF Local, BackupKept, KeptProduct, KeptRows, KeptFeed, LivesIn, Placed, CountsItsScans, Apart, Drain
<1> QED
  BY <1>1, <1>2, <1>3, <1>4 DEF Local, Typed

-----------------------------------------------------------------------------
(* Deleting a product *)

\* What a deletion leaves of the products: the one archived, its heir new.
LEMMA DeleteProducts ==
  ASSUME Local, NEW p \in Ids, Delete(p)
  PROVE  /\ TypedShop' /\ p \in DOMAIN products /\ p \in Nat
         /\ Len(products) <= Len(products')
         /\ products'[p] = Archived(p)
         /\ \A q \in DOMAIN products : q \in DOMAIN products' /\ (q # p => products'[q] = products[q])
         /\ Carries(p) => /\ Heir(p) = Len(products) + 1 /\ Heir(p) \in Ids
                          /\ DOMAIN products' = DOMAIN products \cup {Heir(p)}
                          /\ Heir(p) \notin DOMAIN products
                          /\ products'[Heir(p)] = Provisional(CodeOf(p))
         /\ ~Carries(p) => Heir(p) = None /\ DOMAIN products' = DOMAIN products
<1>1. /\ products \in Seq(Product) /\ Len(products) \in 0..MaxProducts
      /\ DOMAIN products = 1..Len(products) /\ p \in DOMAIN products
  BY ProductsFacts DEF Local, Typed, TypedShop, Delete, Known
<1>2. Archived(p) \in Product /\ Provisional(CodeOf(p)) \in Product
  <2>1. CodeOf(p) \in Codes /\ products[p] \in Product
    BY <1>1, CodeOfType DEF Local
  <2> QED
    BY <2>1 DEF Archived, Provisional, Product
<1> DEFINE s == [products EXCEPT ![p] = Archived(p)]
<1>3. /\ s \in Seq(Product) /\ Len(s) = Len(products)
      /\ DOMAIN s = 1..Len(products) /\ s[p] = Archived(p)
      /\ \A q \in DOMAIN products : q # p => s[q] = products[q]
  BY <1>1, <1>2
<1>4. CASE Carries(p)
  <2> DEFINE n == Provisional(CodeOf(p))
  <2>1. products' = Append(s, n) /\ Len(products) < MaxProducts
    BY <1>4 DEF Delete
  <2> HIDE DEF s, n
  <2>2. /\ Append(s, n) \in Seq(Product) /\ Len(Append(s, n)) = Len(s) + 1
        /\ Append(s, n)[Len(s) + 1] = n
        /\ \A q \in 1..Len(s) : Append(s, n)[q] = s[q]
    BY <1>2, <1>3 DEF n
  <2>3. Len(products) \in Nat /\ MaxProducts \in Nat /\ Len(products') = Len(products) + 1
    BY <1>1, <1>3, <2>1, <2>2, Bounds
  <2>4. DOMAIN products' = 1..Len(products) + 1 /\ TypedShop'
    BY <2>1, <2>2, <2>3 DEF TypedShop
  <2>5. Heir(p) = Len(products) + 1 /\ Heir(p) \in Ids
    BY <1>4, <2>1, <2>3 DEF Heir, Ids
  <2>6. DOMAIN products' = DOMAIN products \cup {Heir(p)} /\ Heir(p) \notin DOMAIN products
    BY <1>1, <2>3, <2>4, <2>5
  <2>7. products'[p] = Archived(p) /\ \A q \in DOMAIN products : q # p => products'[q] = products[q]
    BY <1>1, <1>3, <2>1, <2>2
  <2>8. products'[Heir(p)] = n
    BY <1>3, <2>1, <2>2, <2>5
  <2>9. Len(products) <= Len(products') /\ p \in Nat
    BY <1>1, <2>3
  <2> QED
    BY <1>1, <1>4, <2>4, <2>5, <2>6, <2>7, <2>8, <2>9 DEF n
<1>5. CASE ~Carries(p)
  <2>1. products' = s /\ Heir(p) = None
    BY <1>5 DEF Delete, Heir
  <2> QED
    BY <1>1, <1>3, <1>5, <2>1, Bounds DEF TypedShop
<1> QED
  BY <1>4, <1>5

\* The rows of the product are its heir's; every other row stays as it is.
LEMMA DeleteRows ==
  ASSUME Local, NEW p \in Ids, Delete(p)
  PROVE  /\ \A x \in rows' : \E r \in rows :
              /\ x.id = r.id /\ x.session = r.session /\ x.events = r.events /\ x.qty = r.qty
              /\ x \in Rows
              /\ \/ r.product # p /\ x = r
                 \/ r.product = p /\ x.product = Heir(p) /\ Carries(p)
         /\ \A r \in rows : \E x \in rows' :
              /\ x.id = r.id /\ x.session = r.session /\ x.events = r.events
              /\ x.product = IF r.product = p THEN Heir(p) ELSE r.product
<1>1. rows' = (rows \ RowsOf(p)) \cup {[r EXCEPT !.product = Heir(p)] : r \in {x \in RowsOf(p) : Carries(p)}}
  BY DEF Delete, RowsAfterDelete
<1>2. Carries(p) <=> RowsOf(p) # {}
  BY CarriesRows DEF Local
<1>3. \A r \in rows : r \in Rows
  BY DEF Local, Typed, TypedCounts
<1>4. ASSUME NEW r \in rows, r.product = p
      PROVE  /\ Carries(p)
             /\ LET x == [r EXCEPT !.product = Heir(p)]
                IN  /\ x \in rows' /\ x \in Rows /\ x.product = Heir(p) /\ x.id = r.id
                    /\ x.session = r.session /\ x.events = r.events /\ x.qty = r.qty
  <2>1. r \in RowsOf(p) /\ Carries(p)
    BY <1>2, <1>4 DEF RowsOf
  <2>2. [r EXCEPT !.product = Heir(p)] \in rows'
    BY <1>1, <2>1
  <2>3. Heir(p) \in Ids
    BY <2>1, DeleteProducts
  <2> QED
    BY <1>3, <2>1, <2>2, <2>3 DEF Rows
<1>5. ASSUME NEW x \in rows'
      PROVE  \E r \in rows :
              /\ x.id = r.id /\ x.session = r.session /\ x.events = r.events /\ x.qty = r.qty
              /\ x \in Rows
              /\ \/ r.product # p /\ x = r
                 \/ r.product = p /\ x.product = Heir(p) /\ Carries(p)
  <2>1. CASE x \in rows \ RowsOf(p)
    BY <1>3, <2>1 DEF RowsOf
  <2>2. CASE x \notin rows \ RowsOf(p)
    <3>1. PICK r \in RowsOf(p) : x = [r EXCEPT !.product = Heir(p)]
      BY <1>1, <2>2
    <3>2. r \in rows /\ r.product = p
      BY DEF RowsOf
    <3> QED
      BY <1>4, <3>1, <3>2
  <2> QED
    BY <2>1, <2>2
<1>6. ASSUME NEW r \in rows
      PROVE  \E x \in rows' :
              /\ x.id = r.id /\ x.session = r.session /\ x.events = r.events
              /\ x.product = IF r.product = p THEN Heir(p) ELSE r.product
  <2>1. CASE r.product = p
    BY <1>4, <2>1
  <2>2. CASE r.product # p
    BY <1>1, <2>2 DEF RowsOf
  <2> QED
    BY <2>1, <2>2
<1> QED
  BY <1>5, <1>6

\* A scan of the feed that a deletion has moved is the same scan.
LEMMA DeleteFeed ==
  ASSUME Local, NEW p \in Ids, Delete(p)
  PROVE  /\ \A f \in feed' : \E g \in feed :
              /\ f.event = g.event /\ f.session = g.session /\ f.delta = g.delta /\ f \in FeedRows
              /\ f.product = IF g.product = p THEN Heir(p) ELSE g.product
              /\ f = IF g.product = p THEN [g EXCEPT !.product = Heir(p)] ELSE g
         /\ \A g \in feed : \E f \in feed' : f.event = g.event
<1>1. feed' = (feed \ FeedOf(p)) \cup {[f EXCEPT !.product = Heir(p)] : f \in FeedOf(p)}
  BY DEF Delete
<1>2. Heir(p) \in Ids \cup {None}
  BY DeleteProducts
<1>3. \A g \in feed : g \in FeedRows
  BY DEF Local, Typed, TypedCounts
<1>4. ASSUME NEW g \in FeedOf(p)
      PROVE  /\ g \in feed /\ g.product = p
             /\ LET f == [g EXCEPT !.product = Heir(p)]
                IN  f \in FeedRows /\ f.event = g.event /\ f.session = g.session /\ f.delta = g.delta
                    /\ f.product = Heir(p)
  <2>1. g \in feed /\ g.product = p /\ g \in FeedRows
    BY <1>3 DEF FeedOf
  <2> QED
    BY <1>2, <2>1 DEF FeedRows
<1>5. ASSUME NEW f \in feed'
      PROVE  \E g \in feed :
              /\ f.event = g.event /\ f.session = g.session /\ f.delta = g.delta /\ f \in FeedRows
              /\ f.product = IF g.product = p THEN Heir(p) ELSE g.product
              /\ f = IF g.product = p THEN [g EXCEPT !.product = Heir(p)] ELSE g
  <2>1. CASE f \in feed \ FeedOf(p)
    BY <1>3, <2>1 DEF FeedOf
  <2>2. CASE f \notin feed \ FeedOf(p)
    <3>1. PICK g \in FeedOf(p) : f = [g EXCEPT !.product = Heir(p)]
      BY <1>1, <2>2
    <3> QED
      BY <1>4, <3>1
  <2> QED
    BY <2>1, <2>2
<1>6. ASSUME NEW g \in feed PROVE \E f \in feed' : f.event = g.event
  <2>1. CASE g \in FeedOf(p)
    BY <1>1, <1>4, <2>1
  <2>2. CASE g \notin FeedOf(p)
    BY <1>1, <2>2
  <2> QED
    BY <2>1, <2>2
<1> QED
  BY <1>5, <1>6

LEMMA DeleteLocal ==
  ASSUME Local, NEW p \in Ids, Delete(p)
  PROVE  Local'
<1>1. /\ session' = session /\ scans' = scans /\ made' = made /\ UNCHANGED remote
      /\ backup' = [of |-> p, product |-> products[p], rows |-> RowsOf(p), feed |-> FeedOf(p),
                    minted |-> Heir(p)]
  BY DEF Delete
<1>2. /\ TypedShop' /\ p \in DOMAIN products /\ p \in Nat
      /\ Len(products) <= Len(products')
      /\ products'[p] = Archived(p)
      /\ \A q \in DOMAIN products : q \in DOMAIN products' /\ (q # p => products'[q] = products[q])
      /\ Carries(p) => /\ Heir(p) = Len(products) + 1 /\ Heir(p) \in Ids
                       /\ DOMAIN products' = DOMAIN products \cup {Heir(p)}
                       /\ Heir(p) \notin DOMAIN products
                       /\ products'[Heir(p)] = Provisional(CodeOf(p))
      /\ ~Carries(p) => Heir(p) = None /\ DOMAIN products' = DOMAIN products
  BY DeleteProducts
<1>3. \A x \in rows' : \E r \in rows :
        /\ x.id = r.id /\ x.session = r.session /\ x.events = r.events /\ x.qty = r.qty
        /\ x \in Rows
        /\ \/ r.product # p /\ x = r
           \/ r.product = p /\ x.product = Heir(p) /\ Carries(p)
  BY DeleteRows
<1>4. \A r \in rows : \E x \in rows' :
        /\ x.id = r.id /\ x.session = r.session /\ x.events = r.events
        /\ x.product = IF r.product = p THEN Heir(p) ELSE r.product
  BY DeleteRows
<1>5. \A f \in feed' : \E g \in feed :
        /\ f.event = g.event /\ f.session = g.session /\ f.delta = g.delta /\ f \in FeedRows
        /\ f.product = IF g.product = p THEN Heir(p) ELSE g.product
        /\ f = IF g.product = p THEN [g EXCEPT !.product = Heir(p)] ELSE g
  BY DeleteFeed
<1>6. \A g \in feed : \E f \in feed' : f.event = g.event
  BY DeleteFeed
<1>7. DOMAIN products = 1..Len(products) /\ Len(products) \in Nat /\ products[p] \in Product
      /\ Len(Catalogue) \in Nat /\ Len(Catalogue) <= Len(products)
  BY <1>2, ProductsFacts, CatalogueFacts DEF Local, Shop
<1>8. Archived(p) = [products[p] EXCEPT !.status = "archived", !.trusted = FALSE]
      /\ Archived(p).status = "archived" /\ Archived(p).trusted = FALSE
      /\ Archived(p).codes = products[p].codes /\ Archived(p).provisional = products[p].provisional
  BY <1>7 DEF Archived, Product
<1>9. Typed'
  <2>1. TypedCounts'
    BY <1>1, <1>3, <1>5 DEF TypedCounts, Local, Typed
  <2>2. TypedBackup'
    <3>1. RowsOf(p) \subseteq Rows /\ FeedOf(p) \subseteq FeedRows
      BY DEF RowsOf, FeedOf, Local, Typed, TypedCounts
    <3>2. Heir(p) \in Ids \cup {None}
      BY <1>2
    <3>3. backup' \in Backup
      BY <1>1, <1>7, <3>1, <3>2 DEF Backup
    <3> QED
      BY <3>3 DEF TypedBackup
  <2>3. TypedQueue'
    <3>1. ASSUME NEW r \in RowsOf(p)
          PROVE  /\ Increment("delete-out", r.id, r.session, p, "delete", -r.qty) \in Increments
                 /\ Increment("delete-in", r.id, r.session, Heir(p), "delete", r.qty) \in Increments
      <4>1. r \in Rows /\ r \in rows
        BY DEF RowsOf, Local, Typed, TypedCounts
      <4>2. r.id \in Nat /\ r.session \in 1..MaxSessions /\ r.qty \in Int /\ -r.qty \in Int
        BY <4>1, Bounds DEF Rows
      <4>3. Heir(p) \in Ids
        <5>1. Carries(p)
          BY CarriesRows DEF Local
        <5> QED
          BY <1>2, <5>1
      <4>4. /\ <<"delete-out", r.id>> \in Keys /\ <<"delete-in", r.id>> \in Keys
            /\ <<"delete", r.id>> \in Marks
        BY <4>2 DEF Keys, Marks
      <4> QED
        BY <4>2, <4>3, <4>4 DEF Increment, Increments
    <3>2. DeleteIncrements(p) \subseteq Increments
      BY <3>1 DEF DeleteIncrements
    <3>3. queue' = queue \cup DeleteIncrements(p)
      BY DEF Delete
    <3> QED
      BY <1>1, <3>2, <3>3 DEF TypedQueue, Local, Typed, remote
  <2> QED
    BY <1>2, <2>1, <2>2, <2>3 DEF Typed
<1>10. Shop'
  <2>1. ASSUME NEW q \in DOMAIN products' PROVE Placed(q, products'[q])
    <3>1. CASE q = p
      <4>1. Placed(p, products[p])
        BY <1>2 DEF Local, Shop
      <4> QED
        BY <1>2, <1>8, <3>1, <4>1 DEF Placed
    <3>2. CASE q \in DOMAIN products /\ q # p
      BY <1>2, <3>2 DEF Local, Shop
    <3>3. CASE q \notin DOMAIN products
      <4>1. q = Len(products) + 1 /\ products'[q] = Provisional(CodeOf(p))
        BY <1>2, <3>3
      <4>2. (q > Len(Catalogue)) = TRUE /\ (q <= Len(Catalogue)) = FALSE
        BY <1>7, <4>1
      <4>3. products'[q].provisional = TRUE /\ products'[q].trusted = FALSE
        BY <4>1 DEF Provisional
      <4> QED
        BY <4>2, <4>3 DEF Placed
    <3> QED
      BY <3>1, <3>2, <3>3
  <2>2. ASSUME NEW x \in rows'
        PROVE  x.product \in DOMAIN products' /\ products'[x.product].status = "active"
    <3>1. PICK r \in rows : \/ r.product # p /\ x = r
                            \/ r.product = p /\ x.product = Heir(p) /\ Carries(p)
      BY <1>3
    <3>2. CASE r.product # p /\ x = r
      BY <1>2, <3>2 DEF Local, Shop
    <3>3. CASE r.product = p /\ x.product = Heir(p) /\ Carries(p)
      BY <1>2, <3>3 DEF Provisional
    <3> QED
      BY <3>1, <3>2, <3>3
  <2>3. Len(Catalogue) <= Len(products')
    <3>1. Len(products') \in Nat
      BY <1>2 DEF TypedShop
    <3> QED
      BY <1>2, <1>7, <3>1
  <2> QED
    BY <2>1, <2>2, <2>3 DEF Shop, Placed
<1>11. RowsCount'
  <2>1. ASSUME NEW x \in rows' PROVE CountsItsScans(x)'
    BY <1>1, <1>3 DEF CountsItsScans, Local, RowsCount
  <2>2. ASSUME NEW x \in rows', NEW y \in rows', x # y PROVE x.id # y.id /\ x.events \cap y.events = {}
    <3>1. PICK r \in rows :
            /\ x.id = r.id /\ x.session = r.session /\ x.events = r.events /\ x.qty = r.qty /\ x \in Rows
            /\ \/ r.product # p /\ x = r
               \/ r.product = p /\ x.product = Heir(p) /\ Carries(p)
      BY <1>3
    <3>2. PICK s \in rows :
            /\ y.id = s.id /\ y.session = s.session /\ y.events = s.events /\ y.qty = s.qty /\ y \in Rows
            /\ \/ s.product # p /\ y = s
               \/ s.product = p /\ y.product = Heir(p) /\ Carries(p)
      BY <1>3
    <3>3. r # s
      <4> SUFFICES ASSUME r = s PROVE x = y
        BY <2>2
      <4>1. CASE r.product # p
        BY <3>1, <3>2, <4>1
      <4>2. CASE r.product = p
        BY <3>1, <3>2, <4>2 DEF Rows
      <4> QED
        BY <4>1, <4>2
    <3> QED
      BY <3>1, <3>2, <3>3 DEF Local, RowsCount, Apart
  <2> QED
    BY <2>1, <2>2 DEF RowsCount, Apart
<1>12. FeedRead'
  <2>1. ASSUME NEW f \in feed'
        PROVE  /\ f.event <= scans' /\ f.session = session' /\ f.delta = 1
               /\ \E x \in rows' : x.session = session' /\ x.product = f.product /\ f.event \in x.events
    <3>1. PICK g \in feed :
            /\ f.event = g.event /\ f.session = g.session /\ f.delta = g.delta
            /\ f.product = IF g.product = p THEN Heir(p) ELSE g.product
      BY <1>5
    <3>2. PICK r \in rows : r.session = session /\ r.product = g.product /\ g.event \in r.events
      BY DEF Local, FeedRead
    <3>3. PICK x \in rows' : /\ x.session = r.session /\ x.events = r.events
                             /\ x.product = IF r.product = p THEN Heir(p) ELSE r.product
      BY <1>4
    <3> QED
      BY <1>1, <3>1, <3>2, <3>3 DEF Local, FeedRead
  <2>2. ASSUME NEW f \in feed', NEW h \in feed', f.event = h.event PROVE f = h
    <3> DEFINE M(g) == IF g.product = p THEN [g EXCEPT !.product = Heir(p)] ELSE g
    <3>1. PICK g \in feed : f.event = g.event /\ f = M(g)
      BY <1>5
    <3>2. PICK k \in feed : h.event = k.event /\ h = M(k)
      BY <1>5
    <3> HIDE DEF M
    <3>3. \A x, y \in feed : x.event = y.event => x = y
      BY DEF Local, FeedRead
    <3>4. g = k
      BY <2>2, <3>1, <3>2, <3>3
    <3>5. M(g) = M(k)
      BY <3>4
    <3> QED
      BY <3>1, <3>2, <3>5
  <2>3. ASSUME NEW x \in rows', x.session = session', NEW e \in x.events
        PROVE  \E f \in feed' : f.event = e
    <3>1. PICK r \in rows : x.session = r.session /\ x.events = r.events
      BY <1>3
    <3>2. PICK g \in feed : g.event = e
      BY <1>1, <2>3, <3>1 DEF Local, FeedRead
    <3> QED
      BY <1>6, <3>2
  <2> QED
    BY <2>1, <2>2, <2>3 DEF FeedRead
<1>13. BackupKept'
  <2>1. /\ backup'.of = p /\ backup'.product = products[p] /\ backup'.rows = RowsOf(p)
        /\ backup'.feed = FeedOf(p) /\ backup'.minted = Heir(p)
    BY <1>1
  <2>2. RowsOf(p) # {} <=> Carries(p)
    BY CarriesRows DEF Local
  <2>3. KeptProduct'
    <3>1. Placed(p, products[p])
      BY <1>2 DEF Local, Shop
    <3>3. Heir(p) # p /\ (Heir(p) # None => Heir(p) \in DOMAIN products' /\ Heir(p) > Len(Catalogue))
      <4>1. CASE Carries(p)
        BY <1>2, <1>7, <4>1
      <4>2. CASE ~Carries(p)
        BY <1>2, <4>2, Bounds
      <4> QED
        BY <4>1, <4>2
    <3>4. RowsOf(p) # {} => Heir(p) # None /\ products[p].status = "active"
      <4> SUFFICES ASSUME RowsOf(p) # {} PROVE Heir(p) # None /\ products[p].status = "active"
        OBVIOUS
      <4>1. PICK r : r \in rows /\ r.product = p
        BY DEF RowsOf
      <4> QED
        BY <1>2, <1>7, <2>2, <4>1, Bounds DEF Local, Shop
    <3>5. p \in DOMAIN products' /\ products'[p].status # "active"
      BY <1>2, <1>8
    <3> QED
      BY <2>1, <3>1, <3>3, <3>4, <3>5 DEF KeptProduct, Placed
  <2>4. KeptRows'
    <3>1. \A b \in RowsOf(p) : b \in rows /\ b.product = p
      BY DEF RowsOf
    <3>2. ASSUME NEW b \in RowsOf(p) PROVE CountsItsScans(b)'
      BY <1>1, <3>1 DEF CountsItsScans, Local, RowsCount
    <3>3. ASSUME NEW b \in RowsOf(p), NEW x \in rows'
          PROVE  IF x.id = b.id
                 THEN x.session = b.session /\ x.product = Heir(p) /\ b.events \subseteq x.events
                 ELSE x.events \cap b.events = {}
      <4>1. PICK r \in rows :
              /\ x.id = r.id /\ x.session = r.session /\ x.events = r.events
              /\ \/ r.product # p /\ x = r
                 \/ r.product = p /\ x.product = Heir(p) /\ Carries(p)
        BY <1>3
      <4>2. Apart(r, b) /\ b \in rows /\ b.product = p
        BY <3>1 DEF Local, RowsCount
      <4> QED
        BY <4>1, <4>2 DEF Apart
    <3>4. ASSUME NEW b \in RowsOf(p), b.session = session
          PROVE  /\ \E x \in rows' : x.id = b.id
                 /\ \A e \in b.events : \E f \in FeedOf(p) : f.event = e
      <4>1. \E x \in rows' : x.id = b.id
        BY <1>4, <3>1
      <4>2. ASSUME NEW e \in b.events PROVE \E f \in FeedOf(p) : f.event = e
        <5>1. PICK f \in feed : f.event = e
          BY <3>1, <3>4 DEF Local, FeedRead
        <5>2. PICK r \in rows : r.product = f.product /\ f.event \in r.events
          BY DEF Local, FeedRead
        <5>3. r = b
          BY <3>1, <5>1, <5>2 DEF Local, RowsCount, Apart
        <5> QED
          BY <3>1, <5>1, <5>2, <5>3 DEF FeedOf
      <4> QED
        BY <4>1, <4>2
    <3>5. \A b, c \in RowsOf(p) : Apart(b, c)
      BY <3>1 DEF Local, RowsCount
    <3> QED
      BY <1>1, <2>1, <3>1, <3>2, <3>3, <3>4, <3>5 DEF KeptRows, LivesIn, Apart
  <2>5. KeptFeed'
    <3>1. \A f \in FeedOf(p) : f \in feed /\ f.product = p
      BY DEF FeedOf
    <3>2. ASSUME NEW f \in FeedOf(p) PROVE \E b \in RowsOf(p) : f.event \in b.events
      <4>1. PICK r \in rows : r.product = f.product /\ f.event \in r.events
        BY <3>1 DEF Local, FeedRead
      <4> QED
        BY <3>1, <4>1 DEF RowsOf
    <3>3. ASSUME NEW f \in FeedOf(p), NEW g \in feed', g.event = f.event PROVE g.session = f.session
      <4>1. PICK k \in feed : g.session = k.session
        BY <1>5
      <4> QED
        BY <3>1, <4>1 DEF Local, FeedRead
    <3>4. \A f, g \in FeedOf(p) : f.event = g.event => f = g
      BY <3>1 DEF Local, FeedRead
    <3>5. \A f \in FeedOf(p) : f.event <= scans' /\ f.delta = 1
      BY <1>1, <3>1 DEF Local, FeedRead
    <3> QED
      BY <2>1, <3>1, <3>2, <3>3, <3>4, <3>5 DEF KeptFeed
  <2> QED
    BY <2>3, <2>4, <2>5 DEF BackupKept
<1> QED
  BY <1>9, <1>10, <1>11, <1>12, <1>13 DEF Local

-----------------------------------------------------------------------------
(* A scan *)

\* A scan makes a row, or adds to one of its product and session.
CountedIn(p, old, n) ==
  /\ old \subseteq rows /\ n \in Rows /\ rows' = (rows \ old) \cup {n}
  /\ n.product = p /\ n.session = session /\ scans + 1 \in n.events
  /\ made' \in 0..MaxRows /\ made <= made' /\ n.id <= made'
  /\ n.qty = Cardinality(n.events)
  /\ \/ /\ old = {} /\ n.events = {scans + 1} /\ n.id = made + 1
        /\ \A r \in rows : r.product # p \/ r.session # session
     \/ \E r \in rows : /\ old = {r} /\ r.product = p /\ r.session = session /\ n.id = r.id
                        /\ n.events = r.events \cup {scans + 1}

LEMMA CountOnRow ==
  ASSUME Local, NEW c \in Codes, NEW p \in Ids, scans < MaxScans, CountOn(c, p)
  PROVE  \E old, n : CountedIn(p, old, n)
<1> DEFINE mine == {r \in rows : r.product = p /\ r.session = session}
           e == scans + 1
<1>1. /\ rows \subseteq Rows /\ e \in 1..MaxScans /\ scans \in Nat /\ made \in 0..MaxRows
      /\ session \in 1..MaxSessions
  BY Bounds DEF Local, Typed, TypedCounts
<1>2. CASE mine # {}
  <2> DEFINE r == CHOOSE r \in mine : TRUE
             n == [r EXCEPT !.qty = @ + 1, !.events = @ \cup {e}]
  <2>1. r \in rows /\ r.product = p /\ r.session = session
    BY <1>2
  <2>2. rows' = (rows \ {r}) \cup {n} /\ made' = made
    BY <1>2 DEF CountOn
  <2>3. PICK s : s = r
    OBVIOUS
  <2> HIDE DEF r
  <2>4. s \in Rows /\ CountsItsScans(s) /\ s \in rows
    BY <1>1, <2>1, <2>3 DEF Local, RowsCount
  <2>5. e \notin s.events /\ IsFiniteSet(s.events) /\ s.events \in SUBSET (1..MaxScans)
    BY <1>1, <2>4, ScansFinite DEF CountsItsScans, Rows
  <2>6. Cardinality(s.events \cup {e}) = s.qty + 1
    BY <2>4, <2>5, FS_AddElement DEF CountsItsScans
  <2>7. s.events \cup {e} \in SUBSET (1..MaxScans)
    BY <1>1, <2>5
  <2>8. s.qty + 1 \in 0..MaxScans
    BY <2>6, <2>7, ScansFinite
  <2>9. /\ n \in Rows /\ n.product = s.product /\ n.session = s.session /\ n.id = s.id
        /\ n.events = s.events \cup {e} /\ n.qty = s.qty + 1
    BY <2>3, <2>4, <2>7, <2>8 DEF Rows
  <2>10. n.id <= made' /\ made' \in 0..MaxRows /\ made <= made'
    BY <1>1, <2>2, <2>4, <2>9 DEF CountsItsScans
  <2> HIDE DEF n
  <2>11. n.qty = Cardinality(n.events) /\ e \in n.events /\ {r} \subseteq rows
    BY <2>1, <2>6, <2>9
  <2>12. CountedIn(p, {r}, n)
    BY <2>1, <2>2, <2>3, <2>9, <2>10, <2>11 DEF CountedIn
  <2> QED
    BY <2>12
<1>3. CASE mine = {}
  <2> DEFINE n == [id |-> made', session |-> session, product |-> p, qty |-> 1, events |-> {e}]
  <2>1. made < MaxRows /\ made' = made + 1 /\ rows' = rows \cup {n}
    BY <1>3 DEF CountOn
  <2>2. Cardinality({e}) = 1
    BY FS_Singleton
  <2>3. made' \in 1..MaxRows /\ made <= made'
    BY <1>1, <2>1, Bounds
  <2>4. n \in Rows
    BY <1>1, <2>3, Bounds DEF Rows
  <2>5. rows' = (rows \ {}) \cup {n} /\ {} \subseteq rows
    BY <2>1
  <2>6. /\ n.id <= made' /\ n.id = made + 1 /\ n.product = p /\ n.session = session
        /\ n.events = {e} /\ n.qty = Cardinality(n.events)
    BY <2>1, <2>2, <2>3
  <2>7. made' \in 0..MaxRows
    BY <1>1, <2>1, Bounds
  <2> HIDE DEF n
  <2>8. CountedIn(p, {}, n)
    BY <1>3, <2>3, <2>4, <2>5, <2>6, <2>7 DEF CountedIn
  <2> QED
    BY <2>8
<1> QED
  BY <1>2, <1>3

LEMMA CountOnLocal ==
  ASSUME Local, NEW c \in Codes, NEW p \in Ids, scans < MaxScans, scans' = scans + 1,
         UNCHANGED <<session, backup, remote>>, CountOn(c, p),
         TypedShop', Len(products) <= Len(products'),
         \A q \in DOMAIN products : q \in DOMAIN products' /\ products'[q] = products[q],
         \A q \in DOMAIN products' : Placed(q, products'[q]),
         p \in DOMAIN products', products'[p].status = "active"
  PROVE  Local'
<1> DEFINE e == scans + 1
           f == [event |-> e, session |-> session, code |-> c, product |-> p, delta |-> 1]
<1>0. PICK old, n : CountedIn(p, old, n)
  BY CountOnRow
<1>1. /\ old \subseteq rows /\ n \in Rows /\ rows' = (rows \ old) \cup {n}
      /\ n.product = p /\ n.session = session /\ e \in n.events
      /\ made' \in 0..MaxRows /\ made <= made' /\ n.id <= made'
      /\ n.qty = Cardinality(n.events)
      /\ \/ old = {} /\ n.events = {e} /\ n.id = made + 1
         \/ \E r \in rows : /\ old = {r} /\ r.product = p /\ r.session = session /\ n.id = r.id
                            /\ n.events = r.events \cup {e}
  BY <1>0 DEF CountedIn
<1>2. feed' = feed \cup {f} /\ queue' = queue \cup {Increment("scan", e, session, p, "scan", 1)}
  BY DEF CountOn, FeedRow
<1>3. /\ rows \subseteq Rows /\ e \in 1..MaxScans /\ scans \in Nat /\ made \in Nat
      /\ session \in 1..MaxSessions /\ e > scans /\ scans' = e
  BY Bounds DEF Local, Typed, TypedCounts
<1>4. ASSUME NEW r \in Rows, CountsItsScans(r)
      PROVE  CountsItsScans(r)' /\ e \notin r.events /\ r.id # made + 1
  <2>1. r.events \subseteq 1..scans /\ r.id <= made /\ r.id \in Nat
    BY <1>4, Bounds DEF CountsItsScans, Rows
  <2>2. e \notin 1..scans /\ 1..scans \subseteq 1..scans'
    BY <1>3
  <2>3. r.id <= made' /\ r.id # made + 1
    BY <1>1, <1>3, <2>1
  <2> QED
    BY <1>4, <2>1, <2>2, <2>3 DEF CountsItsScans
<1>5. \A r \in rows : r \in Rows /\ CountsItsScans(r)
  BY <1>3 DEF Local, RowsCount
<1>6. CountsItsScans(n)'
  <2>1. n.events \subseteq 1..scans'
    BY <1>1, <1>3, <1>5 DEF CountsItsScans
  <2> QED
    BY <1>1, <1>3, <2>1 DEF CountsItsScans
<1>7. \A r \in rows \ old : r.id # n.id /\ r.events \cap n.events = {}
  <2> SUFFICES ASSUME NEW r \in rows \ old PROVE r.id # n.id /\ r.events \cap n.events = {}
    OBVIOUS
  <2>1. e \notin r.events /\ r.id # made + 1
    BY <1>4, <1>5
  <2>2. CASE old = {} /\ n.events = {e} /\ n.id = made + 1
    BY <2>1, <2>2
  <2>3. CASE \E s \in rows : /\ old = {s} /\ s.product = p /\ s.session = session /\ n.id = s.id
                             /\ n.events = s.events \cup {e}
    <3>1. PICK s \in rows : old = {s} /\ n.id = s.id /\ n.events = s.events \cup {e}
      BY <2>3
    <3>2. Apart(r, s) /\ r # s
      BY <3>1 DEF Local, RowsCount
    <3> QED
      BY <2>1, <3>1, <3>2 DEF Apart
  <2> QED
    BY <1>1, <2>2, <2>3
<1>8. Typed'
  <2>1. f \in FeedRows
    BY <1>3 DEF FeedRows
  <2>2. TypedCounts'
    BY <1>1, <1>2, <1>3, <2>1 DEF TypedCounts, Local, Typed
  <2>3. Increment("scan", e, session, p, "scan", 1) \in Increments
    <3>1. <<"scan", e>> \in Keys /\ <<"scan", e>> \in Marks
      BY <1>3, Bounds DEF Keys, Marks
    <3> QED
      BY <1>3, <3>1 DEF Increment, Increments
  <2>4. TypedQueue'
    BY <1>2, <2>3 DEF TypedQueue, Local, Typed, remote
  <2>5. TypedBackup'
    BY DEF TypedBackup, Local, Typed
  <2> QED
    BY <2>2, <2>4, <2>5 DEF Typed
<1>9. Shop'
  <2>1. ASSUME NEW x \in rows'
        PROVE  x.product \in DOMAIN products' /\ products'[x.product].status = "active"
    BY <1>1 DEF Local, Shop
  <2>2. Len(Catalogue) <= Len(products')
    <3>1. Len(products') \in Nat /\ Len(products) \in Nat /\ Len(Catalogue) \in Nat
      BY CatalogueFacts DEF TypedShop, Local, Typed
    <3> QED
      BY <3>1 DEF Local, Shop
  <2> QED
    BY <2>1, <2>2 DEF Shop, Placed
<1>10. RowsCount'
  <2>1. ASSUME NEW x \in rows' PROVE CountsItsScans(x)'
    BY <1>1, <1>4, <1>5, <1>6
  <2>2. ASSUME NEW x \in rows', NEW y \in rows' PROVE Apart(x, y)
    BY <1>1, <1>7 DEF Local, RowsCount, Apart
  <2> QED
    BY <2>1, <2>2 DEF RowsCount, Apart
<1>11. \A g \in feed : g.event # e /\ g.event <= scans /\ g.event <= scans' /\ g \in FeedRows
  <2>1. \A g \in feed : g \in FeedRows /\ g.event <= scans
    BY DEF Local, Typed, TypedCounts, FeedRead
  <2>2. \A g \in FeedRows : g.event \in Nat
    BY Bounds DEF FeedRows
  <2> QED
    BY <1>3, <2>1, <2>2
<1>12. \A r \in rows : \E x \in rows' : x.session = r.session /\ x.product = r.product /\ r.events \subseteq x.events
  BY <1>1
<1>13. FeedRead'
  <2>1. ASSUME NEW g \in feed'
        PROVE  /\ g.event <= scans' /\ g.session = session' /\ g.delta = 1
               /\ \E x \in rows' : x.session = session' /\ x.product = g.product /\ g.event \in x.events
    <3>1. CASE g \in feed
      <4>1. PICK r \in rows : r.session = session /\ r.product = g.product /\ g.event \in r.events
        BY <3>1 DEF Local, FeedRead
      <4>2. PICK x \in rows' : x.session = r.session /\ x.product = r.product /\ r.events \subseteq x.events
        BY <1>12
      <4> QED
        BY <1>11, <3>1, <4>1, <4>2 DEF Local, FeedRead
    <3>2. CASE g = f
      BY <1>1, <1>3, <3>2
    <3> QED
      BY <1>2, <3>1, <3>2
  <2>2. ASSUME NEW g \in feed', NEW h \in feed', g.event = h.event PROVE g = h
    <3>1. f.event = e
      OBVIOUS
    <3> HIDE DEF f
    <3> QED
      BY <1>2, <1>11, <2>2, <3>1 DEF Local, FeedRead
  <2>3. ASSUME NEW x \in rows', x.session = session', NEW v \in x.events
        PROVE  \E g \in feed' : g.event = v
    <3>1. CASE v = e
      <4>1. f \in feed' /\ f.event = e
        BY <1>2
      <4> QED
        BY <3>1, <4>1
    <3>2. CASE v # e
      <4>1. PICK r \in rows : r.session = session /\ v \in r.events
        BY <1>1, <2>3, <3>2
      <4>2. \E g \in feed : g.event = v
        BY <4>1 DEF Local, FeedRead
      <4> QED
        BY <1>2, <4>2
    <3> QED
      BY <3>1, <3>2
  <2> QED
    BY <2>1, <2>2, <2>3 DEF FeedRead
<1>14. BackupKept'
  <2> SUFFICES ASSUME backup # None PROVE (KeptProduct /\ KeptRows /\ KeptFeed)'
    BY DEF BackupKept
  <2>1. KeptProduct /\ KeptRows /\ KeptFeed /\ backup \in Backup
    BY DEF Local, BackupKept, Typed, TypedBackup
  <2>2. backup' = backup /\ session' = session
    OBVIOUS
  <2>3. KeptProduct'
    BY <2>1, <2>2 DEF KeptProduct, Placed
  <2>4. KeptRows'
    <3>1. ASSUME NEW b \in backup.rows PROVE CountsItsScans(b)' /\ e \notin b.events /\ b.id # made + 1
      BY <1>4, <2>1 DEF KeptRows, Backup
    <3>2. ASSUME NEW b \in backup.rows, NEW x \in rows' PROVE LivesIn(b, x)
      <4>1. \A r \in rows : LivesIn(b, r)
        BY <2>1 DEF KeptRows
      <4>2. CASE x \in rows
        BY <4>1, <4>2
      <4>3. CASE x = n /\ n.events = {e} /\ n.id = made + 1
        BY <3>1, <4>3 DEF LivesIn
      <4>4. CASE x = n /\ \E r \in rows : /\ r.product = p /\ r.session = session /\ n.id = r.id
                                          /\ n.events = r.events \cup {e}
        <5>1. PICK r \in rows : /\ r.product = p /\ r.session = session /\ n.id = r.id
                                /\ n.events = r.events \cup {e}
          BY <4>4
        <5> QED
          BY <1>1, <3>1, <4>1, <4>4, <5>1 DEF LivesIn
      <4> QED
        BY <1>1, <4>2, <4>3, <4>4
    <3>3. ASSUME NEW b \in backup.rows, b.session = session
          PROVE  /\ \E x \in rows' : x.id = b.id
                 /\ \A v \in b.events : \E g \in backup.feed : g.event = v
      <4>1. PICK r \in rows : r.id = b.id
        BY <2>1, <3>3 DEF KeptRows
      <4>2. \E x \in rows' : x.id = r.id
        BY <1>1
      <4> QED
        BY <2>1, <3>3, <4>1, <4>2 DEF KeptRows
    <3>4. \A b \in backup.rows : b.product = backup.of /\ \A d \in backup.rows : Apart(b, d)
      BY <2>1 DEF KeptRows
    <3> QED
      BY <2>2, <3>1, <3>2, <3>3, <3>4 DEF KeptRows, LivesIn, Apart
  <2>5. KeptFeed'
    <3>1. \A b \in backup.feed : b \in FeedRows /\ b.event <= scans /\ b.event \in Nat
      BY <2>1, Bounds DEF KeptFeed, Backup, FeedRows
    <3>2. ASSUME NEW b \in backup.feed, NEW g \in feed', g.event = b.event PROVE g.session = b.session
      <4>1. f.event = e
        OBVIOUS
      <4>2. g # f
        BY <1>3, <3>1, <3>2, <4>1
      <4> QED
        BY <1>2, <2>1, <3>2, <4>2 DEF KeptFeed
    <3>3. \A b \in backup.feed : b.event <= scans'
      BY <1>3, <3>1
    <3> QED
      BY <2>1, <2>2, <3>2, <3>3 DEF KeptFeed
  <2> QED
    BY <2>3, <2>4, <2>5
<1> QED
  BY <1>8, <1>9, <1>10, <1>13, <1>14 DEF Local

\* With one owner for each code of the catalogue, a code that is counted already
\* is that of one trusted product or is bridged: no scan is left out.
LEMMA NoneLeftOut ==
  ASSUME DistinctCodes, Local, NEW c \in Codes, Bridge(c) = {}, AlreadyCounted(c) # {}
  PROVE  Cardinality(Trusted(c)) = 1
<1>1. PICK p \in AlreadyCounted(c) : TRUE
  OBVIOUS
<1>2. /\ p \in DOMAIN products /\ products[p].status = "active" /\ c \in products[p].codes
      /\ ~products[p].provisional
  BY <1>1 DEF AlreadyCounted, Bridge, Counted, Known
<1>3. /\ DOMAIN products = 1..Len(products) /\ Len(products) \in Nat /\ Len(Catalogue) \in Nat
      /\ DOMAIN Catalogue = 1..Len(Catalogue)
  BY ProductsFacts, CatalogueFacts DEF Local
<1>4. \A q \in DOMAIN products : Placed(q, products[q]) /\ q \in Nat /\ q >= 1
  BY <1>3 DEF Local, Shop
<1>5. p <= Len(Catalogue) /\ p \in DOMAIN Catalogue
  <2>1. ~(p > Len(Catalogue))
    BY <1>2, <1>4, Zenon DEF Placed
  <2> QED
    BY <1>2, <1>3, <2>1
<1>6. products[p].trusted
  BY <1>2, <1>4, <1>5 DEF Placed
<1>7. p \in Trusted(c)
  BY <1>2, <1>6 DEF Trusted, Known
<1>8. ASSUME NEW q \in Trusted(c) PROVE q = p
  <2>1. q \in DOMAIN products /\ products[q].trusted /\ c \in products[q].codes
    BY DEF Trusted, Known
  <2>2. q <= Len(Catalogue) /\ q \in DOMAIN Catalogue
    <3>1. q <= Len(Catalogue)
      BY <1>4, <2>1, Zenon DEF Placed
    <3> QED
      BY <1>3, <2>1, <3>1
  <2>3. c \in Catalogue[q].codes /\ c \in Catalogue[p].codes
    BY <1>2, <1>4, <1>5, <2>1, <2>2 DEF Placed
  <2> QED
    BY <1>5, <2>2, <2>3 DEF DistinctCodes
<1>9. Trusted(c) = {p}
  BY <1>7, <1>8
<1> QED
  BY <1>9, FS_Singleton

LEMMA MintFacts ==
  ASSUME Local, NEW c \in Codes, Mint(c)
  PROVE  LET p == Len(products) + 1
         IN  /\ TypedShop' /\ Len(products) <= Len(products')
             /\ \A q \in DOMAIN products : q \in DOMAIN products' /\ products'[q] = products[q]
             /\ \A q \in DOMAIN products' : Placed(q, products'[q])
             /\ p \in DOMAIN products' /\ products'[p].status = "active" /\ p \in Ids
             /\ p \notin DOMAIN products /\ DOMAIN products' = DOMAIN products \cup {p}
<1> DEFINE p == Len(products) + 1
           n == Provisional(c)
<1>1. /\ products \in Seq(Product) /\ Len(products) \in 0..MaxProducts
      /\ DOMAIN products = 1..Len(products)
  BY ProductsFacts DEF Local, Typed, TypedShop
<1>2. n \in Product /\ n.status = "active" /\ n.trusted = FALSE /\ n.provisional = TRUE
  BY DEF Provisional, Product
<1>3. products' = Append(products, n) /\ Len(products) < MaxProducts
  BY DEF Mint
<1> HIDE DEF n
<1>4. /\ products' \in Seq(Product) /\ Len(products') = p /\ products'[p] = n
      /\ DOMAIN products' = 1..p
      /\ \A q \in 1..Len(products) : products'[q] = products[q]
  BY <1>1, <1>2, <1>3
<1>5. p \in Ids /\ p \in Nat /\ p <= MaxProducts /\ p \notin DOMAIN products
      /\ DOMAIN products' = DOMAIN products \cup {p} /\ Len(products) <= p
  BY <1>1, <1>3, <1>4, Bounds DEF Ids
<1>6. ASSUME NEW q \in DOMAIN products' PROVE Placed(q, products'[q])
  <2>1. CASE q \in DOMAIN products
    BY <1>1, <1>4, <2>1 DEF Local, Shop
  <2>2. CASE q = p
    <3>1. Len(Catalogue) <= Len(products) /\ Len(Catalogue) \in Nat /\ Len(products) \in Nat
      BY <1>1, CatalogueFacts DEF Local, Shop
    <3>2. (p > Len(Catalogue)) = TRUE /\ (p <= Len(Catalogue)) = FALSE
      BY <3>1
    <3> QED
      BY <1>2, <1>4, <2>2, <3>2 DEF Placed
  <2> QED
    BY <1>5, <2>1, <2>2
<1> QED
  BY <1>1, <1>2, <1>4, <1>5, <1>6 DEF TypedShop

LEMMA SameShop ==
  ASSUME Local, UNCHANGED products
  PROVE  /\ TypedShop' /\ Len(products) <= Len(products')
         /\ \A q \in DOMAIN products : q \in DOMAIN products' /\ products'[q] = products[q]
         /\ \A q \in DOMAIN products' : Placed(q, products'[q])
<1>1. Len(products) \in Nat
  BY DEF Local, Typed, TypedShop
<1> QED
  BY <1>1 DEF Local, Typed, TypedShop, Shop

\* The product that a scan is counted on.
ScanTarget(c, p) ==
  /\ CountOn(c, p) /\ p \in Ids /\ p \in DOMAIN products' /\ products'[p].status = "active"
  /\ TypedShop' /\ Len(products) <= Len(products')
  /\ \A q \in DOMAIN products : q \in DOMAIN products' /\ products'[q] = products[q]
  /\ \A q \in DOMAIN products' : Placed(q, products'[q])

LEMMA ScanCounts ==
  ASSUME DistinctCodes, Local, NEW c \in Codes, Scan(c)
  PROVE  \E p \in Ids : ScanTarget(c, p)
<1>1. \A q \in DOMAIN products : q \in Ids /\ q \in Nat
  BY ProductsFacts DEF Local
<1>2. CASE ScanKnown(c)
  <2>1. UNCHANGED products
    BY <1>2 DEF ScanKnown
  <2>2. PICK p \in Trusted(c) : CountOn(c, p)
    BY <1>2 DEF ScanKnown
  <2>3. p \in DOMAIN products /\ products[p].trusted
    BY DEF Trusted, Known
  <2>4. products[p].status = "active"
    BY <2>3 DEF Local, Shop, Placed
  <2> QED
    BY <1>1, <2>1, <2>2, <2>3, <2>4, SameShop DEF ScanTarget
<1>3. CASE ScanBridged(c)
  <2>1. UNCHANGED products /\ Bridge(c) # {}
    BY <1>3 DEF ScanBridged
  <2>2. PICK p : p = Min(Bridge(c))
    OBVIOUS
  <2>3. Bridge(c) \in SUBSET Nat
    BY <1>1 DEF Bridge, Counted, Known
  <2>4. p \in Bridge(c) /\ CountOn(c, p)
    BY <1>3, <2>1, <2>2, <2>3, MinOfSet DEF ScanBridged
  <2>5. p \in DOMAIN products /\ products[p].status = "active"
    BY <2>4 DEF Bridge, Counted, Known
  <2> QED
    BY <1>1, <2>1, <2>4, <2>5, SameShop DEF ScanTarget
<1>4. CASE ScanUnknown(c)
  <2>1. AlreadyCounted(c) = {}
    BY <1>4, NoneLeftOut DEF ScanUnknown
  <2>2. Mint(c) /\ CountOn(c, Len(products) + 1)
    BY <1>4, <2>1 DEF ScanUnknown
  <2>3. PICK p : p = Len(products) + 1
    OBVIOUS
  <2> QED
    BY <2>2, <2>3, MintFacts DEF ScanTarget
<1> QED
  BY <1>2, <1>3, <1>4 DEF Scan

LEMMA ScanLocal ==
  ASSUME DistinctCodes, Local, NEW c \in Codes, Scan(c)
  PROVE  Local'
<1>1. PICK p \in Ids : ScanTarget(c, p)
  BY ScanCounts
<1>2. scans < MaxScans /\ scans' = scans + 1 /\ UNCHANGED <<session, backup, remote>>
  BY DEF Scan
<1> QED
  BY <1>1, <1>2, CountOnLocal DEF ScanTarget

-----------------------------------------------------------------------------
(* Undoing a deletion *)

\* What a live row x has counted beyond the row b of the backup.
Carved(s, x, b) ==
  /\ x.id = b.id /\ s \in Rows /\ s.id = x.id /\ s.session = x.session /\ s.product = x.product
  /\ b.events \subseteq x.events /\ s.events = x.events \ b.events
  /\ s.events # {} /\ s.qty = Cardinality(s.events)
  /\ s = [x EXCEPT !.qty = @ - b.qty, !.events = @ \ b.events]

LEMMA BeyondBackup ==
  ASSUME Local, backup # None, NEW x \in rows, NEW b \in backup.rows, x.id = b.id
  PROVE  /\ x.qty > b.qty <=> x.events \ b.events # {}
         /\ x.qty > b.qty => Carved([x EXCEPT !.qty = @ - b.qty, !.events = @ \ b.events], x, b)
<1>1. /\ x \in Rows /\ CountsItsScans(x) /\ b \in Rows /\ CountsItsScans(b) /\ LivesIn(b, x)
  BY DEF Local, Typed, TypedCounts, TypedBackup, Backup, RowsCount, BackupKept, KeptRows
<1>2. /\ b.events \subseteq x.events /\ x.events \in SUBSET (1..MaxScans)
      /\ x.qty \in 0..MaxScans /\ b.qty \in 0..MaxScans
      /\ x.qty = Cardinality(x.events) /\ b.qty = Cardinality(b.events)
  BY <1>1 DEF LivesIn, CountsItsScans, Rows
<1> DEFINE d == x.events \ b.events
<1>3. d \in SUBSET (1..MaxScans) /\ b.events \in SUBSET (1..MaxScans) /\ d \cap b.events = {}
      /\ d \cup b.events = x.events
  BY <1>2
<1> HIDE DEF d
<1>4. IsFiniteSet(d) /\ IsFiniteSet(b.events) /\ Cardinality(d) \in 0..MaxScans
  BY <1>3, ScansFinite
<1>5. x.qty = Cardinality(d) + b.qty
  BY <1>2, <1>3, <1>4, CardinalityApart
<1>6. x.qty > b.qty <=> Cardinality(d) # 0
  BY <1>2, <1>4, <1>5, Bounds
<1>7. x.qty > b.qty <=> d # {}
  BY <1>4, <1>6, FS_EmptySet
<1>8. ASSUME x.qty > b.qty
      PROVE  Carved([x EXCEPT !.qty = @ - b.qty, !.events = @ \ b.events], x, b)
  <2> DEFINE s == [x EXCEPT !.qty = @ - b.qty, !.events = @ \ b.events]
  <2>1. x.qty - b.qty = Cardinality(d) /\ x.qty - b.qty \in 0..MaxScans
    BY <1>2, <1>4, <1>5, Bounds
  <2>2. x.events \ b.events = d
    BY DEF d
  <2>3. /\ s \in Rows /\ s.id = x.id /\ s.session = x.session /\ s.product = x.product
        /\ s.events = d /\ s.qty = Cardinality(d)
    BY <1>1, <1>3, <2>1, <2>2 DEF Rows
  <2>4. s = [x EXCEPT !.qty = @ - b.qty, !.events = @ \ b.events]
    OBVIOUS
  <2> HIDE DEF s
  <2>5. Carved(s, x, b)
    BY <1>2, <1>7, <1>8, <2>2, <2>3, <2>4 DEF Carved
  <2> QED
    BY <2>5 DEF s
<1> QED
  BY <1>7, <1>8 DEF d

LEMMA SurplusFacts ==
  ASSUME Local, backup # None
  PROVE  /\ \A s \in Surplus : \E x \in rows, b \in backup.rows : Carved(s, x, b)
         /\ \A x \in rows, b \in backup.rows :
              x.id = b.id /\ x.events \ b.events # {} =>
                \E s \in Surplus : Carved(s, x, b)
         /\ \A s, t \in Surplus : s.id = t.id => s = t
         /\ IsFiniteSet(Surplus) /\ Cardinality(Surplus) \in Nat
<1>1. ASSUME NEW s \in Surplus PROVE \E x \in rows, b \in backup.rows : Carved(s, x, b)
  <2>1. PICK b \in backup.rows :
          s \in {[x EXCEPT !.qty = @ - b.qty, !.events = @ \ b.events] :
                  x \in {y \in Live(b) : y.qty > b.qty}}
    BY DEF Surplus
  <2>2. PICK x \in rows : /\ x.id = b.id /\ x.qty > b.qty
                          /\ s = [x EXCEPT !.qty = @ - b.qty, !.events = @ \ b.events]
    BY <2>1 DEF Live
  <2> QED
    BY <2>1, <2>2, BeyondBackup
<1>2. ASSUME NEW x \in rows, NEW b \in backup.rows, x.id = b.id, x.events \ b.events # {}
      PROVE  \E s \in Surplus : Carved(s, x, b)
  <2> DEFINE s == [x EXCEPT !.qty = @ - b.qty, !.events = @ \ b.events]
  <2>1. x.qty > b.qty /\ Carved(s, x, b)
    BY <1>2, BeyondBackup
  <2>2. x \in {y \in Live(b) : y.qty > b.qty}
    BY <1>2, <2>1 DEF Live
  <2> DEFINE Over(r) == {[y EXCEPT !.qty = @ - r.qty, !.events = @ \ r.events] :
                           y \in {z \in Live(r) : z.qty > r.qty}}
  <2>3. Surplus = UNION {Over(r) : r \in backup.rows}
    BY DEF Surplus
  <2>4. s \in Over(b)
    BY <2>2
  <2> HIDE DEF s, Over
  <2>5. s \in Surplus
    BY <2>3, <2>4
  <2> QED
    BY <2>1, <2>5
<1>3. ASSUME NEW s \in Surplus, NEW t \in Surplus, s.id = t.id PROVE s = t
  <2>1. PICK x \in rows, b \in backup.rows : Carved(s, x, b)
    BY <1>1
  <2>2. PICK y \in rows, c \in backup.rows : Carved(t, y, c)
    BY <1>1
  <2>3. x.id = y.id /\ b.id = c.id
    BY <1>3, <2>1, <2>2 DEF Carved
  <2>4. x = y /\ b = c
    BY <2>3 DEF Local, RowsCount, BackupKept, KeptRows, Apart
  <2> QED
    BY <2>1, <2>2, <2>4 DEF Carved
<1>4. IsFiniteSet(Surplus)
  <2> DEFINE f == [s \in Surplus |-> s.id]
  <2>1. f \in [Surplus -> 1..MaxRows]
    BY <1>1 DEF Carved, Rows
  <2>2. f \in Injection(Surplus, 1..MaxRows)
    BY <1>3, <2>1 DEF Injection, IsInjective
  <2>3. IsFiniteSet(1..MaxRows)
    BY Bounds, FS_Interval
  <2> HIDE DEF f
  <2> QED
    BY <2>2, <2>3, FS_Injection
<1> QED
  BY <1>1, <1>2, <1>3, <1>4, FS_CardinalityType

\* A row that no row of the backup stands for.
Untouched(r) == r \in rows /\ \A b \in backup.rows : b.id # r.id

\* The row y carries what x counted beyond b.
Carried(y, x, b) ==
  /\ x.id = b.id /\ y.id > made /\ y.id <= made' /\ y.session = x.session
  /\ y.product = x.product /\ b.events \subseteq x.events /\ y.events = x.events \ b.events
  /\ y.events # {} /\ y.qty = Cardinality(y.events)

LEMMA UndoRows ==
  ASSUME Local, Undo
  PROVE  /\ made' \in 0..MaxRows /\ made <= made'
         /\ \A y \in rows' :
              /\ y \in Rows
              /\ \/ Untouched(y) \/ y \in backup.rows
                 \/ \E x \in rows, b \in backup.rows : Carried(y, x, b)
         /\ \A r : Untouched(r) => r \in rows'
         /\ \A b \in backup.rows : b \in rows'
         /\ \A x \in rows, b \in backup.rows :
              x.id = b.id /\ x.events \ b.events # {} => \E y \in rows' : Carried(y, x, b)
         /\ \A y, z \in rows' : y.id > made /\ z.id > made => Apart(y, z)
<1>1. backup # None /\ backup \in Backup /\ KeptRows
  BY DEF Undo, Local, Typed, TypedBackup, BackupKept
<1>2. /\ \A s \in Surplus : \E x \in rows, b \in backup.rows : Carved(s, x, b)
      /\ \A x \in rows, b \in backup.rows :
           x.id = b.id /\ x.events \ b.events # {} => \E s \in Surplus : Carved(s, x, b)
      /\ \A s, t \in Surplus : s.id = t.id => s = t
      /\ Cardinality(Surplus) \in Nat
  BY <1>1, SurplusFacts
<1>3. made' \in 0..MaxRows /\ made <= made' /\ made \in Nat
  <2>1. made \in 0..MaxRows /\ MaxRows \in Nat
    BY Bounds DEF Local, Typed, TypedCounts
  <2>2. made' = made + Cardinality(Surplus) /\ made + Cardinality(Surplus) <= MaxRows
    BY DEF Undo
  <2> QED
    BY <1>2, <2>1, <2>2
<1>4. PICK number \in {f \in [Surplus -> made+1..made'] :
                         \A x, y \in Surplus : f[x] = f[y] => x = y} :
        rows' = {r \in rows : \A b \in backup.rows : b.id # r.id} \cup backup.rows
                \cup {[x EXCEPT !.id = number[x]] : x \in Surplus}
  BY DEF Undo
<1>5. /\ \A s \in Surplus : number[s] \in made+1..made'
      /\ \A s, t \in Surplus : number[s] = number[t] => s = t
  BY <1>4
<1> DEFINE New(s) == [s EXCEPT !.id = number[s]]
<1>6. ASSUME NEW s \in Surplus
      PROVE  New(s) \in Rows /\ \A x, b : Carved(s, x, b) => Carried(New(s), x, b)
  <2>1. s \in Rows
    BY <1>2 DEF Carved
  <2>2. number[s] \in 1..MaxRows /\ number[s] > made /\ number[s] <= made'
    BY <1>3, <1>5, Bounds
  <2>3. /\ New(s) \in Rows /\ New(s).id = number[s] /\ New(s).session = s.session
        /\ New(s).product = s.product /\ New(s).events = s.events /\ New(s).qty = s.qty
    BY <2>1, <2>2 DEF Rows
  <2> HIDE DEF New
  <2> QED
    BY <2>2, <2>3 DEF Carved, Carried
<1>7. \A r \in rows : r \in Rows /\ r.id <= made /\ r.id \in Nat
  <2>1. \A r \in rows : r \in Rows /\ r.id <= made
    BY DEF Local, Typed, TypedCounts, RowsCount, CountsItsScans
  <2> QED
    BY <2>1, Bounds DEF Rows
<1>8. \A b \in backup.rows : b \in Rows /\ b.id <= made /\ b.id \in Nat
  <2>1. \A b \in backup.rows : b \in Rows /\ b.id <= made
    BY <1>1 DEF Backup, KeptRows, CountsItsScans
  <2> QED
    BY <2>1, Bounds DEF Rows
<1>9. ASSUME NEW y \in rows'
      PROVE  Untouched(y) \/ y \in backup.rows \/ \E s \in Surplus : y = New(s)
  BY <1>4 DEF Untouched
<1>10. ASSUME NEW y \in rows', NEW z \in rows', y.id > made, z.id > made PROVE Apart(y, z)
  <2>1. PICK s \in Surplus : y = New(s)
    BY <1>3, <1>7, <1>8, <1>9, <1>10 DEF Untouched
  <2>2. PICK t \in Surplus : z = New(t)
    BY <1>3, <1>7, <1>8, <1>9, <1>10 DEF Untouched
  <2>3. PICK x \in rows, b \in backup.rows : Carved(s, x, b)
    BY <1>2
  <2>4. PICK w \in rows, c \in backup.rows : Carved(t, w, c)
    BY <1>2
  <2>5. s \in Rows /\ t \in Rows
    BY <2>3, <2>4 DEF Carved
  <2>6. /\ y.id = number[s] /\ y.events = s.events /\ z.id = number[t] /\ z.events = t.events
    BY <2>1, <2>2, <2>5 DEF Rows
  <2>7. ASSUME s # t PROVE y.id # z.id /\ y.events \cap z.events = {}
    <3>1. s.id = x.id /\ t.id = w.id
      BY <2>3, <2>4 DEF Carved
    <3>2. s.id = t.id => s = t
      BY <1>2
    <3>3. x # w
      BY <2>7, <3>1, <3>2
    <3>4. x.events \cap w.events = {}
      BY <3>3 DEF Local, RowsCount, Apart
    <3>5. y.events \subseteq x.events /\ z.events \subseteq w.events
      BY <2>3, <2>4, <2>6 DEF Carved
    <3> QED
      BY <1>5, <2>6, <2>7, <3>4, <3>5
  <2> QED
    BY <2>1, <2>2, <2>7 DEF Apart
<1>11. \A s \in Surplus : New(s) \in rows'
  BY <1>4
<1> HIDE DEF New
<1>12. \A y \in rows' : /\ y \in Rows
                        /\ \/ Untouched(y) \/ y \in backup.rows
                           \/ \E x \in rows, b \in backup.rows : Carried(y, x, b)
  BY <1>2, <1>6, <1>7, <1>8, <1>9 DEF Untouched
<1>13. \A x \in rows, b \in backup.rows :
         x.id = b.id /\ x.events \ b.events # {} => \E y \in rows' : Carried(y, x, b)
  BY <1>2, <1>6, <1>11
<1>14. (\A r : Untouched(r) => r \in rows') /\ \A b \in backup.rows : b \in rows'
  BY <1>4 DEF Untouched
<1> QED
  BY <1>3, <1>10, <1>12, <1>13, <1>14

LEMMA UndoProducts ==
  ASSUME Local, Undo
  PROVE  /\ TypedShop' /\ DOMAIN products' = DOMAIN products /\ Len(products') = Len(products)
         /\ \A q \in DOMAIN products' : Placed(q, products'[q])
         /\ products'[backup.of] = backup.product
         /\ \A y \in rows' : y.product \in DOMAIN products /\ y.product # backup.of =>
              products'[y.product] = products[y.product]
<1>1. backup # None /\ backup \in Backup /\ KeptProduct
  BY DEF Undo, Local, Typed, TypedBackup, BackupKept
<1>2. /\ products \in Seq(Product) /\ Len(products) \in 0..MaxProducts
      /\ DOMAIN products = 1..Len(products)
      /\ \A q \in DOMAIN products : products[q] \in Product /\ q \in Nat
  BY ProductsFacts DEF Local, Typed, TypedShop
<1>3. /\ backup.of \in DOMAIN products /\ backup.product \in Product
      /\ Placed(backup.of, backup.product)
      /\ backup.minted # None => backup.minted > Len(Catalogue) /\ backup.minted \in DOMAIN products
      /\ backup.minted # backup.of
  BY <1>1 DEF KeptProduct, Backup
<1>4. products' = [p \in DOMAIN products |->
        IF p = backup.of THEN backup.product
        ELSE IF p = backup.minted /\ \A r \in rows' : r.product # p
             THEN [products[p] EXCEPT !.status = "removed"] ELSE products[p]]
  BY DEF Undo
<1>5. DOMAIN products' = DOMAIN products /\ products'[backup.of] = backup.product
  BY <1>3, <1>4
<1>6. ASSUME NEW q \in DOMAIN products, q # backup.of
      PROVE  \/ products'[q] = products[q]
             \/ /\ products'[q] = [products[q] EXCEPT !.status = "removed"]
                /\ q = backup.minted /\ \A r \in rows' : r.product # q
  BY <1>4, <1>6
<1>7. ASSUME NEW q \in DOMAIN products PROVE products'[q] \in Product /\ Placed(q, products'[q])
  <2>1. CASE q = backup.of
    BY <1>3, <1>5, <2>1
  <2>2. CASE q # backup.of /\ products'[q] = products[q]
    BY <1>2, <2>2 DEF Local, Shop
  <2>3. CASE q # backup.of /\ products'[q] # products[q]
    <3>1. products'[q] = [products[q] EXCEPT !.status = "removed"] /\ q = backup.minted
      BY <1>6, <2>3
    <3>2. products[q] \in Product /\ Placed(q, products[q]) /\ q \in Nat
      BY <1>2 DEF Local, Shop
    <3>3. q > Len(Catalogue) /\ Len(Catalogue) \in Nat
      BY <1>2, <1>3, <3>1, CatalogueFacts, Bounds
    <3>4. (q > Len(Catalogue)) = TRUE /\ (q <= Len(Catalogue)) = FALSE
      BY <3>2, <3>3
    <3>5. /\ products'[q] \in Product /\ products'[q].status = "removed"
          /\ products'[q].provisional = products[q].provisional
          /\ products'[q].trusted = products[q].trusted
      BY <3>1, <3>2 DEF Product
    <3>6. products[q].provisional = TRUE /\ products[q].trusted = FALSE
      BY <3>2, <3>4 DEF Placed
    <3> QED
      BY <3>4, <3>5, <3>6 DEF Placed
  <2> QED
    BY <2>1, <2>2, <2>3
<1>8. products' \in [1..Len(products) -> Product] /\ Len(products) \in Nat
  BY <1>2, <1>4, <1>7
<1>9. products' \in Seq(Product) /\ Len(products') = Len(products)
  BY <1>8, SeqDef
<1>10. TypedShop'
  BY <1>9 DEF TypedShop, Local, Typed
<1>11. ASSUME NEW y \in rows', y.product \in DOMAIN products, y.product # backup.of
       PROVE  products'[y.product] = products[y.product]
  BY <1>6, <1>11
<1> QED
  BY <1>5, <1>7, <1>9, <1>10, <1>11

LEMMA UndoFeed ==
  ASSUME Local, Undo
  PROVE  /\ \A f \in feed' : \/ f \in feed /\ \A b \in backup.feed : b.event # f.event
                             \/ f \in backup.feed /\ \E g \in feed : g.event = f.event
         /\ \A f \in feed : \E g \in feed' : g.event = f.event
<1>1. feed' = {f \in feed : \A b \in backup.feed : b.event # f.event}
              \cup {b \in backup.feed : \E f \in feed : b.event = f.event}
  BY DEF Undo
<1>2. ASSUME NEW f \in feed PROVE \E g \in feed' : g.event = f.event
  <2>1. CASE \A b \in backup.feed : b.event # f.event
    BY <1>1, <2>1
  <2>2. CASE \E b \in backup.feed : b.event = f.event
    BY <1>1, <2>2
  <2> QED
    BY <2>1, <2>2
<1> QED
  BY <1>1, <1>2

LEMMA UndoQueue ==
  ASSUME Local, Undo
  PROVE  UndoIncrements \subseteq Increments
<1>1. backup # None /\ backup \in Backup
  BY DEF Undo, Local, Typed, TypedBackup
<1>2. ASSUME NEW r \in backup.rows, NEW x \in rows
      PROVE  /\ Increment("undo-in", r.id, r.session, r.product, "undo", r.qty) \in Increments
             /\ Increment("undo-out", r.id, r.session, x.product, "undo", -r.qty) \in Increments
  <2>1. r \in Rows /\ x.product \in Ids
    BY <1>1 DEF Backup, Local, Typed, TypedCounts, Rows
  <2>2. r.id \in Nat /\ r.session \in 1..MaxSessions /\ r.product \in Ids /\ r.qty \in Int
        /\ -r.qty \in Int
    BY <2>1, Bounds DEF Rows
  <2>3. <<"undo-in", r.id>> \in Keys /\ <<"undo-out", r.id>> \in Keys /\ <<"undo", r.id>> \in Marks
    BY <2>2 DEF Keys, Marks
  <2> QED
    BY <2>1, <2>2, <2>3 DEF Increment, Increments
<1>3. ASSUME NEW r \in backup.rows
      PROVE  Increment("undo-in", r.id, r.session, r.product, "undo", r.qty) \in Increments
  <2>1. r \in Rows
    BY <1>1 DEF Backup
  <2>2. r.id \in Nat /\ r.session \in 1..MaxSessions /\ r.product \in Ids /\ r.qty \in Int
    BY <2>1, Bounds DEF Rows
  <2>3. <<"undo-in", r.id>> \in Keys /\ <<"undo", r.id>> \in Marks
    BY <2>2 DEF Keys, Marks
  <2> QED
    BY <2>2, <2>3 DEF Increment, Increments
<1> QED
  BY <1>2, <1>3 DEF UndoIncrements, Live

LEMMA UndoLocal ==
  ASSUME Local, Undo
  PROVE  Local'
<1>1. backup # None /\ backup \in Backup /\ KeptProduct /\ KeptRows /\ KeptFeed
  BY DEF Undo, Local, Typed, TypedBackup, BackupKept
<1>2. /\ session' = session /\ scans' = scans /\ backup' = None /\ UNCHANGED remote
      /\ queue' = queue \cup UndoIncrements
  BY DEF Undo
<1>3. /\ made' \in 0..MaxRows /\ made <= made' /\ made \in Nat
      /\ \A y \in rows' :
           /\ y \in Rows
           /\ \/ Untouched(y) \/ y \in backup.rows
              \/ \E x \in rows, b \in backup.rows : Carried(y, x, b)
      /\ \A r : Untouched(r) => r \in rows'
      /\ \A b \in backup.rows : b \in rows'
      /\ \A x \in rows, b \in backup.rows :
           x.id = b.id /\ x.events \ b.events # {} => \E y \in rows' : Carried(y, x, b)
      /\ \A y, z \in rows' : y.id > made /\ z.id > made => Apart(y, z)
  BY UndoRows, Bounds DEF Local, Typed, TypedCounts
<1>4. /\ TypedShop' /\ DOMAIN products' = DOMAIN products /\ Len(products') = Len(products)
      /\ \A q \in DOMAIN products' : Placed(q, products'[q])
      /\ products'[backup.of] = backup.product
      /\ \A y \in rows' : y.product \in DOMAIN products /\ y.product # backup.of =>
           products'[y.product] = products[y.product]
  BY UndoProducts
<1>5. /\ \A f \in feed' : \/ f \in feed /\ \A b \in backup.feed : b.event # f.event
                          \/ f \in backup.feed /\ \E g \in feed : g.event = f.event
      /\ \A f \in feed : \E g \in feed' : g.event = f.event
  BY UndoFeed
<1>6. /\ \A r \in rows : r \in Rows /\ CountsItsScans(r)
      /\ \A r, s \in rows : Apart(r, s)
      /\ \A b \in backup.rows : b \in Rows /\ CountsItsScans(b)
      /\ \A b, c \in backup.rows : Apart(b, c)
      /\ \A b \in backup.rows, x \in rows : LivesIn(b, x)
  BY <1>1 DEF Local, Typed, TypedCounts, RowsCount, KeptRows, Backup
<1>7. Typed'
  <2>1. TypedCounts'
    <3>1. feed' \subseteq FeedRows
      BY <1>1, <1>5 DEF Backup, Local, Typed, TypedCounts
    <3> QED
      BY <1>2, <1>3, <3>1 DEF TypedCounts, Local, Typed
  <2>2. TypedQueue'
    BY <1>2, UndoQueue DEF TypedQueue, Local, Typed, remote
  <2> QED
    BY <1>2, <1>4, <2>1, <2>2 DEF Typed, TypedBackup
<1>8. Shop'
  <2>1. ASSUME NEW y \in rows'
        PROVE  y.product \in DOMAIN products' /\ products'[y.product].status = "active"
    <3>1. CASE y \in backup.rows
      <4>1. y.product = backup.of /\ backup.product.status = "active" /\ backup.of \in DOMAIN products
        BY <1>1, <3>1 DEF KeptProduct, KeptRows
      <4> QED
        BY <1>4, <4>1
    <3>2. CASE \E x \in rows : y.product = x.product
      <4>1. y.product \in DOMAIN products /\ products[y.product].status = "active"
        BY <3>2 DEF Local, Shop
      <4>2. y.product # backup.of
        BY <1>1, <4>1 DEF KeptProduct
      <4> QED
        BY <1>4, <4>1, <4>2
    <3> QED
      BY <1>3, <3>1, <3>2 DEF Untouched, Carried
  <2> QED
    BY <1>4, <2>1 DEF Shop, Placed, Local
<1>9. RowsCount'
  <2>1. ASSUME NEW r \in Rows, CountsItsScans(r) PROVE CountsItsScans(r)' /\ ~(r.id > made)
    <3>1. r.id \in Nat /\ made' \in Nat
      BY <1>3, Bounds DEF Rows
    <3> QED
      BY <1>2, <1>3, <2>1, <3>1 DEF CountsItsScans
  <2>2. ASSUME NEW y \in rows' PROVE CountsItsScans(y)'
    <3>1. CASE y \in rows \/ y \in backup.rows
      BY <1>6, <2>1, <3>1
    <3>2. CASE \E x \in rows, b \in backup.rows : Carried(y, x, b)
      <4>1. PICK x \in rows, b \in backup.rows : Carried(y, x, b)
        BY <3>2
      <4>2. CountsItsScans(x)
        BY <1>6
      <4> QED
        BY <1>2, <4>1, <4>2 DEF Carried, CountsItsScans
    <3> QED
      BY <1>3, <3>1, <3>2 DEF Untouched
  <2>3. ASSUME NEW y \in rows', NEW x \in rows, NEW b \in backup.rows, Carried(y, x, b),
               NEW z, Untouched(z) \/ z \in backup.rows
        PROVE  y.id # z.id /\ y.events \cap z.events = {}
    <3>1. y.id # z.id
      BY <1>6, <2>1, <2>3 DEF Carried, Untouched
    <3>2. CASE Untouched(z)
      <4>1. z.id # x.id
        BY <2>3, <3>2 DEF Untouched, Carried
      <4> QED
        BY <1>6, <2>3, <3>1, <3>2, <4>1 DEF Untouched, Carried, Apart
    <3>3. CASE z \in backup.rows /\ z.id = x.id
      <4>1. z = b
        BY <1>6, <2>3, <3>3 DEF Carried, Apart
      <4> QED
        BY <2>3, <3>1, <4>1 DEF Carried
    <3>4. CASE z \in backup.rows /\ z.id # x.id
      BY <1>6, <2>3, <3>1, <3>4 DEF Carried, LivesIn
    <3> QED
      BY <2>3, <3>2, <3>3, <3>4
  <2>4. ASSUME NEW y, NEW z, Untouched(y) \/ y \in backup.rows, Untouched(z) \/ z \in backup.rows
        PROVE  Apart(y, z)
    <3>1. CASE Untouched(y) /\ z \in backup.rows
      BY <1>6, <3>1 DEF Untouched, LivesIn, Apart
    <3>2. CASE Untouched(z) /\ y \in backup.rows
      BY <1>6, <3>2 DEF Untouched, LivesIn, Apart
    <3>3. CASE Untouched(y) /\ Untouched(z)
      BY <1>6, <3>3 DEF Untouched
    <3>4. CASE y \in backup.rows /\ z \in backup.rows
      BY <1>6, <3>4
    <3> QED
      BY <2>4, <3>1, <3>2, <3>3, <3>4
  <2>5. ASSUME NEW y \in rows', NEW z \in rows' PROVE Apart(y, z)
    <3>1. CASE Untouched(y) \/ y \in backup.rows
      <4>1. CASE Untouched(z) \/ z \in backup.rows
        BY <2>4, <3>1, <4>1
      <4>2. CASE \E x \in rows, b \in backup.rows : Carried(z, x, b)
        BY <2>3, <3>1, <4>2 DEF Apart
      <4> QED
        BY <1>3, <4>1, <4>2
    <3>2. CASE \E x \in rows, b \in backup.rows : Carried(y, x, b)
      <4>1. CASE Untouched(z) \/ z \in backup.rows
        BY <2>3, <3>2, <4>1 DEF Apart
      <4>2. CASE \E x \in rows, b \in backup.rows : Carried(z, x, b)
        BY <1>3, <3>2, <4>2 DEF Carried
      <4> QED
        BY <1>3, <4>1, <4>2
    <3> QED
      BY <1>3, <3>1, <3>2
  <2> QED
    BY <2>2, <2>5 DEF RowsCount, Apart
<1>10. FeedRead'
  <2>1. ASSUME NEW f \in feed' PROVE f.event <= scans' /\ f.session = session' /\ f.delta = 1
    BY <1>1, <1>2, <1>5 DEF KeptFeed, Local, FeedRead
  <2>2. ASSUME NEW f \in feed'
        PROVE  \E y \in rows' : y.session = session' /\ y.product = f.product /\ f.event \in y.events
    <3>1. CASE f \in feed /\ \A b \in backup.feed : b.event # f.event
      <4>1. PICK x \in rows : x.session = session /\ x.product = f.product /\ f.event \in x.events
        BY <3>1 DEF Local, FeedRead
      <4>2. CASE Untouched(x)
        BY <1>2, <1>3, <4>1, <4>2
      <4>3. CASE ~Untouched(x)
        <5>1. PICK b \in backup.rows : b.id = x.id
          BY <4>3 DEF Untouched
        <5>2. b.session = session
          BY <1>6, <4>1, <5>1 DEF LivesIn
        <5>3. f.event \notin b.events
          BY <1>1, <3>1, <5>2 DEF KeptRows
        <5>4. PICK y \in rows' : Carried(y, x, b)
          BY <1>3, <4>1, <5>1, <5>3
        <5> QED
          BY <1>2, <4>1, <5>3, <5>4 DEF Carried
      <4> QED
        BY <4>2, <4>3
    <3>2. CASE f \in backup.feed /\ \E g \in feed : g.event = f.event
      <4>1. PICK g \in feed : g.event = f.event
        BY <3>2
      <4>2. PICK b \in backup.rows : f.event \in b.events
        BY <1>1, <3>2 DEF KeptFeed
      <4>3. PICK x \in rows : x.session = session /\ g.event \in x.events
        BY DEF Local, FeedRead
      <4>4. x.session = b.session
        BY <1>6, <4>1, <4>2, <4>3 DEF LivesIn
      <4>5. b.product = f.product
        BY <1>1, <3>2 DEF KeptFeed, KeptRows
      <4> QED
        BY <1>2, <1>3, <4>2, <4>3, <4>4, <4>5
    <3> QED
      BY <1>5, <3>1, <3>2
  <2>3. ASSUME NEW f \in feed', NEW g \in feed', f.event = g.event PROVE f = g
    BY <1>1, <1>5, <2>3 DEF KeptFeed, Local, FeedRead
  <2>4. ASSUME NEW x \in rows, x.session = session, NEW e \in x.events
        PROVE  \E f \in feed' : f.event = e
    <3>1. PICK f \in feed : f.event = e
      BY <2>4 DEF Local, FeedRead
    <3> QED
      BY <1>5, <3>1
  <2>5. ASSUME NEW y \in rows', y.session = session', NEW e \in y.events
        PROVE  \E f \in feed' : f.event = e
    <3>1. CASE Untouched(y)
      BY <1>2, <2>4, <2>5, <3>1 DEF Untouched
    <3>2. CASE y \in backup.rows
      <4>1. PICK x \in rows : x.id = y.id
        BY <1>1, <1>2, <2>5, <3>2 DEF KeptRows
      <4>2. x.session = session /\ e \in x.events
        BY <1>2, <1>6, <2>5, <3>2, <4>1 DEF LivesIn
      <4> QED
        BY <2>4, <4>2
    <3>3. CASE \E x \in rows, b \in backup.rows : Carried(y, x, b)
      BY <1>2, <2>4, <2>5, <3>3 DEF Carried
    <3> QED
      BY <1>3, <3>1, <3>2, <3>3
  <2> QED
    BY <2>1, <2>2, <2>3, <2>5 DEF FeedRead
<1>11. BackupKept'
  BY <1>2 DEF BackupKept
<1> QED
  BY <1>7, <1>8, <1>9, <1>10, <1>11 DEF Local

LEMMA NextLocal ==
  ASSUME DistinctCodes, Local, [Next]_vars
  PROVE  Local'
<1>1. CASE UNCHANGED vars
  BY <1>1 DEF vars, remote, Local, Typed, TypedShop, TypedCounts, TypedBackup, TypedQueue, Shop, Placed,
     RowsCount, CountsItsScans, Apart, FeedRead, BackupKept, KeptProduct, KeptRows, KeptFeed, LivesIn
<1>2. CASE Next
  BY <1>2, ScanLocal, DeleteLocal, UndoLocal, RotateLocal, DrainLocal DEF Next
<1> QED
  BY <1>1, <1>2

-----------------------------------------------------------------------------
(* Scan N is count N *)

LEMMA LocalAlways == DistinctCodes => (Spec => []Local)
<1> SUFFICES ASSUME DistinctCodes PROVE Spec => []Local
  OBVIOUS
<1>1. Local /\ [Next]_vars => Local'
  BY NextLocal
<1> QED
  BY <1>1, InitLocal, PTL DEF Spec

\* The feed shows a scan once.
LEMMA ReadOnce ==
  ASSUME Local, NEW F \in SUBSET feed
  PROVE  IsFiniteSet(F) /\ Cardinality(F) = Cardinality({f.event : f \in F})
<1> DEFINE E == {f.event : f \in F}
           g == [f \in F |-> f.event]
<1>1. IsFiniteSet(F)
  BY FeedFinite, FS_Subset DEF Local
<1>2. \A f, h \in F : f.event = h.event => f = h
  BY DEF Local, FeedRead
<1>3. g \in Surjection(F, E) /\ g \in Injection(F, E)
  BY <1>2 DEF Injection, Surjection, IsInjective
<1> HIDE DEF g, E
<1>4. Cardinality(F) = Cardinality(E)
  BY <1>1, <1>3, FS_Surjection
<1> QED
  BY <1>1, <1>4 DEF E

\* The scans of the session's rows are those its feed shows.
LEMMA RowsRead ==
  ASSUME Local
  PROVE  /\ UNION {r.events : r \in {r \in rows : r.session = session}} =
              {f.event : f \in {f \in feed : f.session = session}}
         /\ \A p : UNION {r.events : r \in {r \in rows : r.session = session /\ r.product = p}} =
                     {f.event : f \in {f \in feed : f.session = session /\ f.product = p}}
<1>1. ASSUME NEW f \in feed
      PROVE  f.session = session
             /\ \E r \in rows : r.session = session /\ r.product = f.product /\ f.event \in r.events
  BY DEF Local, FeedRead
<1>2. ASSUME NEW r \in rows, r.session = session, NEW e \in r.events
      PROVE  \E f \in feed : f.event = e /\ f.session = session /\ f.product = r.product
  <2>1. PICK f \in feed : f.event = e
    BY <1>2 DEF Local, FeedRead
  <2>2. PICK s \in rows : s.product = f.product /\ f.event \in s.events
    BY <1>1
  <2>3. s = r
    BY <2>1, <2>2 DEF Local, RowsCount, Apart
  <2> QED
    BY <1>1, <2>1, <2>2, <2>3
<1>3. ASSUME NEW e
      PROVE  (\E r \in rows : r.session = session /\ e \in r.events)
               <=> (\E f \in feed : f.session = session /\ e = f.event)
  BY <1>1, <1>2
<1>4. ASSUME NEW p, NEW e
      PROVE  (\E r \in rows : r.session = session /\ r.product = p /\ e \in r.events)
               <=> (\E f \in feed : f.session = session /\ f.product = p /\ e = f.event)
  BY <1>1, <1>2
<1>5. UNION {r.events : r \in {r \in rows : r.session = session}} =
        {f.event : f \in {f \in feed : f.session = session}}
  BY <1>3
<1>6. ASSUME NEW p
      PROVE  UNION {r.events : r \in {r \in rows : r.session = session /\ r.product = p}} =
               {f.event : f \in {f \in feed : f.session = session /\ f.product = p}}
  BY <1>4
<1> QED
  BY <1>5, <1>6

LEMMA LocalCounts ==
  ASSUME Local
  PROVE  ScanNCountN /\ BooksBalance
<1>1. ScanNCountN
  <2> DEFINE S == {r \in rows : r.session = session}
             F == {f \in feed : f.session = session}
  <2>1. Total(S) = Cardinality(UNION {r.events : r \in S})
    BY TotalCounts DEF Local
  <2>2. Cardinality(F) = Cardinality({f.event : f \in F})
    BY ReadOnce
  <2>3. UNION {r.events : r \in S} = {f.event : f \in F}
    BY RowsRead
  <2> QED
    BY <2>1, <2>2, <2>3 DEF ScanNCountN
<1>2. BooksBalance
  <2> SUFFICES ASSUME NEW p \in Ids
               PROVE  LET replayed == {f \in feed : f.session = session /\ f.product = p}
                          mine == {r \in rows : r.session = session /\ r.product = p}
                      IN /\ Total(mine) = MapThenSumSet(LAMBDA f : f.delta, replayed)
                         /\ UNION {r.events : r \in mine} = {f.event : f \in replayed}
    BY DEF BooksBalance
  <2> DEFINE S == {r \in rows : r.session = session /\ r.product = p}
             F == {f \in feed : f.session = session /\ f.product = p}
  <2>1. Total(S) = Cardinality(UNION {r.events : r \in S})
    BY TotalCounts DEF Local
  <2>2. IsFiniteSet(F) /\ Cardinality(F) = Cardinality({f.event : f \in F})
    BY ReadOnce
  <2>3. UNION {r.events : r \in S} = {f.event : f \in F}
    BY RowsRead
  <2>4. F \in SUBSET FeedRows /\ \A f \in F : Shift[f] = 1
    BY DEF Shift, Local, Typed, TypedCounts, FeedRead
  <2> HIDE DEF S, F
  <2>5. MapThenSumSet(LAMBDA f : f.delta, F) = Cardinality(F)
    BY <2>2, <2>4, DeltasAreSum, SumOnes
  <2>6. Total(S) = MapThenSumSet(LAMBDA f : f.delta, F)
    BY <2>1, <2>2, <2>3, <2>5
  <2> QED
    BY <2>3, <2>6 DEF S, F
<1> QED
  BY <1>1, <1>2

\* The state keeps its types, whatever is deleted, restored or left behind.
THEOREM TypeCorrect == DistinctCodes => (Spec => []TypeOK)
<1>1. Local => TypeOK
  BY TypedType DEF Local
<1> QED
  BY <1>1, LocalAlways, PTL

\* Scan N is count N: when no code of the catalogue is that of two products, the
\* rows of the current session count exactly the scans that its feed shows, after
\* any deletions, undos (late ones and repeated deletions too) and new sessions.
THEOREM ScanNIsCountN == DistinctCodes => (Spec => []ScanNCountN)
<1>1. Local => ScanNCountN
  BY LocalCounts
<1> QED
  BY <1>1, LocalAlways, PTL

\* Product by product, replaying the feed of the session gives its rows: their
\* quantities and the very scans they list.
THEOREM BooksAlwaysBalance == DistinctCodes => (Spec => []BooksBalance)
<1>1. Local => BooksBalance
  BY LocalCounts
<1> QED
  BY <1>1, LocalAlways, PTL

-----------------------------------------------------------------------------
(* The ledger: what the cloud was sent and what is still to be sent *)

All == queue \cup applied
At(S, s, p) == {i \in S : i.session = s /\ i.product = p}
Transfers(S, s) == {i \in S : i.session = s /\ i.key[1] # "scan"}
Moves == [i \in Increments |-> i.delta]

\* What the increments of S add up to for product p in session s, and what the
\* transfers among them do for the session.
Booked(S, s, p) == Sum(Moves, At(S, s, p))
Net(S, s) == Sum(Moves, Transfers(S, s))

MarkOf(k) == IF k = "scan" THEN "scan"
             ELSE IF k \in {"delete-out", "delete-in"} THEN "delete" ELSE "undo"
HasKey(k, n) == \E i \in All : i.key = <<k, n>>

\* No key is used twice, and the two halves of a pair are of two products: an
\* increment is never refused, nor skipped as one that a row has already.
Posted ==
  /\ IsFiniteSet(queue) /\ IsFiniteSet(applied) /\ refused = {} /\ queue \cap applied = {}
  /\ \A i \in All : i.mark = <<MarkOf(i.key[1]), i.key[2]>>
  /\ \A i, j \in All : i.mark = j.mark => i = j \/ (i.key # j.key /\ i.product # j.product)
Reach ==
  \A i \in All :
    /\ i.session <= session
    /\ i.key[1] = "scan" => i.delta = 1 /\ i.key[2] <= scans
    /\ i.key[1] # "scan" => HasKey("delete-out", i.key[2])

\* The row of the backup has been transferred once and not yet back.
UndoReady ==
  backup # None =>
    /\ \A b, c \in backup.rows : b = c
    /\ \A b \in backup.rows : /\ HasKey("delete-out", b.id)
                              /\ ~HasKey("undo-in", b.id) /\ ~HasKey("undo-out", b.id)

\* A product has a row for each session, and a row of an earlier session was
\* deleted and then restored late.
OneRow ==
  /\ \A r, s \in rows : r.session = s.session /\ r.product = s.product => r = s
  /\ \A r \in rows : r.session # session => HasKey("delete-out", r.id)

\* Nothing is left of a row that was deleted in an earlier session.
LeftBehind ==
  backup # None =>
    \A b \in backup.rows : b.session # session =>
      /\ \A x \in rows : x.id # b.id
      /\ Booked(All, b.session, b.product) = 0

\* All increments together make the rows, of whatever session.
RowsBalance ==
  /\ \A r \in rows : Booked(All, r.session, r.product) = r.qty
  /\ \A p \in Ids : (\A r \in rows : r.session # session \/ r.product # p)
                    => Booked(All, session, p) = 0
NetZero == \A s \in 1..MaxSessions : Net(All, s) = 0
CloudSums == \A s \in 1..MaxSessions, p \in Ids : cloud[<<s, p>>] = Booked(applied, s, p)

Ledger == Posted /\ Reach /\ UndoReady /\ OneRow /\ LeftBehind /\ RowsBalance /\ CloudSums

LEMMA BookType ==
  ASSUME NEW S \in SUBSET Increments, IsFiniteSet(S), NEW s, NEW p
  PROVE  Booked(S, s, p) \in Int /\ Net(S, s) \in Int
<1>1. \A i \in Increments : Moves[i] = i.delta /\ i.delta \in Int
  BY DEF Moves, Increments
<1>2. /\ IsFiniteSet(At(S, s, p)) /\ Weighs(Moves, At(S, s, p))
      /\ IsFiniteSet(Transfers(S, s)) /\ Weighs(Moves, Transfers(S, s))
  BY <1>1, FS_Subset DEF At, Transfers, Weighs
<1> QED
  BY <1>2, SumType DEF Booked, Net

\* An increment more.
LEMMA BookOne ==
  ASSUME NEW S \in SUBSET Increments, IsFiniteSet(S), NEW j \in Increments, j \notin S, NEW s, NEW p
  PROVE  /\ Booked(S \cup {j}, s, p) =
              Booked(S, s, p) + (IF j.session = s /\ j.product = p THEN j.delta ELSE 0)
         /\ Net(S \cup {j}, s) =
              Net(S, s) + (IF j.session = s /\ j.key[1] # "scan" THEN j.delta ELSE 0)
<1>1. \A i \in Increments : Moves[i] = i.delta /\ i.delta \in Int
  BY DEF Moves, Increments
<1>2. /\ IsFiniteSet(At(S, s, p)) /\ Weighs(Moves, At(S, s, p)) /\ j \notin At(S, s, p)
      /\ IsFiniteSet(Transfers(S, s)) /\ Weighs(Moves, Transfers(S, s)) /\ j \notin Transfers(S, s)
      /\ Moves[j] \in Int /\ Moves[j] = j.delta
  BY <1>1, FS_Subset DEF At, Transfers, Weighs
<1>3. /\ Sum(Moves, At(S, s, p) \cup {j}) = j.delta + Booked(S, s, p)
      /\ Sum(Moves, Transfers(S, s) \cup {j}) = j.delta + Net(S, s)
  BY <1>2, SumInsert DEF Booked, Net
<1>4. Booked(S, s, p) \in Int /\ Net(S, s) \in Int /\ j.delta \in Int
  BY <1>1, BookType
<1>5. Booked(S \cup {j}, s, p) =
        Booked(S, s, p) + (IF j.session = s /\ j.product = p THEN j.delta ELSE 0)
  <2>1. CASE j.session = s /\ j.product = p
    <3>1. At(S \cup {j}, s, p) = At(S, s, p) \cup {j}
      BY <2>1 DEF At
    <3>2. Booked(S \cup {j}, s, p) = j.delta + Booked(S, s, p)
      BY <1>3, <3>1 DEF Booked
    <3> QED
      BY <1>4, <2>1, <3>2
  <2>2. CASE ~(j.session = s /\ j.product = p)
    <3>1. At(S \cup {j}, s, p) = At(S, s, p)
      BY <2>2 DEF At
    <3>2. Booked(S \cup {j}, s, p) = Booked(S, s, p)
      BY <3>1 DEF Booked
    <3> QED
      BY <1>4, <2>2, <3>2
  <2> QED
    BY <2>1, <2>2
<1>6. Net(S \cup {j}, s) =
        Net(S, s) + (IF j.session = s /\ j.key[1] # "scan" THEN j.delta ELSE 0)
  <2>1. CASE j.session = s /\ j.key[1] # "scan"
    <3>1. Transfers(S \cup {j}, s) = Transfers(S, s) \cup {j}
      BY <2>1 DEF Transfers
    <3>2. Net(S \cup {j}, s) = j.delta + Net(S, s)
      BY <1>3, <3>1 DEF Net
    <3> QED
      BY <1>4, <2>1, <3>2
  <2>2. CASE ~(j.session = s /\ j.key[1] # "scan")
    <3>1. Transfers(S \cup {j}, s) = Transfers(S, s)
      BY <2>2 DEF Transfers
    <3>2. Net(S \cup {j}, s) = Net(S, s)
      BY <3>1 DEF Net
    <3> QED
      BY <1>4, <2>2, <3>2
  <2> QED
    BY <2>1, <2>2
<1> QED
  BY <1>5, <1>6

\* The pair of a transfer: what leaves one product arrives at the other.
LEMMA BookPair ==
  ASSUME NEW S \in SUBSET Increments, IsFiniteSet(S),
         NEW j \in Increments, NEW k \in Increments, j \notin S, k \notin S,
         j.session = k.session, j.product # k.product, k.delta = -j.delta,
         j.key[1] # "scan", k.key[1] # "scan", NEW s, NEW p
  PROVE  /\ Booked(S \cup {j, k}, s, p) =
              Booked(S, s, p) + (IF j.session = s /\ j.product = p THEN j.delta
                                 ELSE IF j.session = s /\ k.product = p THEN k.delta ELSE 0)
         /\ Net(S \cup {j, k}, s) = Net(S, s)
<1>1. /\ S \cup {j} \in SUBSET Increments /\ IsFiniteSet(S \cup {j}) /\ k \notin S \cup {j}
      /\ S \cup {j, k} = (S \cup {j}) \cup {k}
  BY FS_AddElement
<1>2. Booked(S, s, p) \in Int /\ Net(S, s) \in Int /\ j.delta \in Int /\ k.delta \in Int
  BY BookType DEF Increments
<1>3. /\ Booked(S \cup {j}, s, p) =
           Booked(S, s, p) + (IF j.session = s /\ j.product = p THEN j.delta ELSE 0)
      /\ Net(S \cup {j}, s) =
           Net(S, s) + (IF j.session = s /\ j.key[1] # "scan" THEN j.delta ELSE 0)
  BY BookOne
<1>4. /\ Booked(S \cup {j, k}, s, p) =
           Booked(S \cup {j}, s, p) + (IF k.session = s /\ k.product = p THEN k.delta ELSE 0)
      /\ Net(S \cup {j, k}, s) =
           Net(S \cup {j}, s) + (IF k.session = s /\ k.key[1] # "scan" THEN k.delta ELSE 0)
  <2>1. PICK T : T = S \cup {j}
    OBVIOUS
  <2>2. T \in SUBSET Increments /\ IsFiniteSet(T) /\ k \notin T /\ S \cup {j, k} = T \cup {k}
    BY <1>1, <2>1
  <2>3. /\ Booked(T \cup {k}, s, p) =
             Booked(T, s, p) + (IF k.session = s /\ k.product = p THEN k.delta ELSE 0)
        /\ Net(T \cup {k}, s) =
             Net(T, s) + (IF k.session = s /\ k.key[1] # "scan" THEN k.delta ELSE 0)
    BY <2>2, BookOne
  <2> QED
    BY <2>1, <2>2, <2>3
<1> QED
  BY <1>2, <1>3, <1>4

\* Increments of a mark not used yet are posted.
LEMMA Posting ==
  ASSUME Typed, Posted, CloudSums, NEW N \in SUBSET Increments, IsFiniteSet(N),
         queue' = queue \cup N, UNCHANGED remote,
         \A j \in N : j.mark = <<MarkOf(j.key[1]), j.key[2]>>,
         \A j \in N, i \in All : i.mark # j.mark,
         \A j, k \in N : j = k \/ (j.key # k.key /\ j.product # k.product)
  PROVE  /\ Posted' /\ CloudSums' /\ All' = All \cup N /\ \A j \in N : j \notin All
         /\ IsFiniteSet(All) /\ All \in SUBSET Increments
<1>1. All' = All \cup N /\ \A j \in N : j \notin All
  BY DEF All, remote
<1>2. IsFiniteSet(queue') /\ IsFiniteSet(applied') /\ IsFiniteSet(All)
  BY FS_Union DEF Posted, remote, All
<1>3. refused' = {} /\ queue' \cap applied' = {}
  BY <1>1 DEF Posted, remote, All
<1>4. ASSUME NEW i \in All', NEW j \in All', i.mark = j.mark
      PROVE  i = j \/ (i.key # j.key /\ i.product # j.product)
  BY <1>1, <1>4 DEF Posted
<1>5. Posted'
  BY <1>1, <1>2, <1>3, <1>4 DEF Posted
<1>6. CloudSums'
  BY DEF CloudSums, remote
<1> QED
  BY <1>1, <1>2, <1>5, <1>6 DEF All, Typed, TypedQueue

LEMMA InitLedger == Init => Ledger /\ NetZero
<1> SUFFICES ASSUME Init PROVE Ledger /\ NetZero
  OBVIOUS
<1>1. All = {} /\ applied = {} /\ rows = {} /\ backup = None
  BY DEF Init, All
<1>2. \A s, p : Booked({}, s, p) = 0 /\ Net({}, s) = 0
  <2> SUFFICES ASSUME NEW s, NEW p PROVE Booked({}, s, p) = 0 /\ Net({}, s) = 0
    OBVIOUS
  <2>1. At({}, s, p) = {} /\ Transfers({}, s) = {}
    BY DEF At, Transfers
  <2> QED
    BY <2>1, SumEmpty DEF Booked, Net
<1>3. Posted
  BY <1>1, FS_EmptySet DEF Posted, Init
<1>4. RowsBalance /\ NetZero
  BY <1>1, <1>2 DEF RowsBalance, NetZero
<1>5. CloudSums
  BY <1>1, <1>2 DEF CloudSums, Init
<1> QED
  BY <1>1, <1>3, <1>4, <1>5 DEF Ledger, Reach, UndoReady, OneRow, LeftBehind

LEMMA ScanLedger ==
  ASSUME DistinctCodes, Local, Ledger, NEW c \in Codes, Scan(c)
  PROVE  Ledger' /\ (NetZero => NetZero')
<1> DEFINE e == scans + 1
<1>1. PICK p \in Ids : ScanTarget(c, p)
  BY ScanCounts
<1>2. /\ scans < MaxScans /\ scans' = e /\ session' = session /\ backup' = backup
      /\ UNCHANGED remote /\ CountOn(c, p)
  BY <1>1 DEF Scan, ScanTarget
<1>3. PICK old, n : CountedIn(p, old, n)
  BY <1>2, CountOnRow
<1>4. /\ scans \in Nat /\ e \in Nat /\ e > scans /\ session \in 1..MaxSessions
      /\ rows \subseteq Rows
  BY <1>2, Bounds DEF Local, Typed, TypedCounts
<1>5. PICK j : j = Increment("scan", e, session, p, "scan", 1)
  OBVIOUS
<1>6. /\ j \in Increments /\ j.key = <<"scan", e>> /\ j.mark = <<"scan", e>> /\ j.delta = 1
      /\ j.session = session /\ j.product = p /\ j.key[1] = "scan" /\ j.key[2] = e
  <2>1. <<"scan", e>> \in Keys /\ <<"scan", e>> \in Marks
    BY <1>4 DEF Keys, Marks
  <2> QED
    BY <1>4, <1>5, <2>1 DEF Increment, Increments
<1>7. queue' = queue \cup {j}
  BY <1>2, <1>5 DEF CountOn
<1>8. ASSUME NEW i \in All PROVE i.mark # j.mark
  <2> SUFFICES ASSUME i.mark = j.mark PROVE FALSE
    OBVIOUS
  <2>1. i.mark = <<MarkOf(i.key[1]), i.key[2]>>
    BY DEF Ledger, Posted
  <2>2. MarkOf(i.key[1]) = "scan" /\ i.key[2] = e
    BY <1>6, <2>1
  <2>3. i.key[1] = "scan"
    BY <2>2 DEF MarkOf
  <2>4. e <= scans
    BY <2>2, <2>3 DEF Ledger, Reach
  <2> QED
    BY <1>4, <2>4
<1>9. j.mark = <<MarkOf(j.key[1]), j.key[2]>>
  BY <1>6 DEF MarkOf
<1>10. /\ Posted' /\ CloudSums' /\ All' = All \cup {j} /\ j \notin All
       /\ IsFiniteSet(All) /\ All \in SUBSET Increments
  <2>1. {j} \in SUBSET Increments /\ IsFiniteSet({j})
    BY <1>6, FS_Singleton
  <2> QED
    BY <1>2, <1>7, <1>8, <1>9, <2>1, Posting DEF Ledger, Local
<1>11. PICK A : A = All
  OBVIOUS
<1>12. All' = A \cup {j}
  BY <1>10, <1>11
<1>13. \A s, q : /\ Booked(A \cup {j}, s, q) =
                      Booked(A, s, q) + (IF session = s /\ p = q THEN 1 ELSE 0)
                 /\ Net(A \cup {j}, s) = Net(A, s)
                 /\ Booked(A, s, q) \in Int /\ Net(A, s) \in Int
  <2> SUFFICES ASSUME NEW s, NEW q
               PROVE  /\ Booked(A \cup {j}, s, q) =
                           Booked(A, s, q) + (IF session = s /\ p = q THEN 1 ELSE 0)
                      /\ Net(A \cup {j}, s) = Net(A, s)
                      /\ Booked(A, s, q) \in Int /\ Net(A, s) \in Int
    OBVIOUS
  <2>1. A \in SUBSET Increments /\ IsFiniteSet(A) /\ j \notin A
    BY <1>10, <1>11
  <2>2. Booked(A, s, q) \in Int /\ Net(A, s) \in Int
    BY <2>1, BookType
  <2>3. /\ Booked(A \cup {j}, s, q) =
             Booked(A, s, q) + (IF j.session = s /\ j.product = q THEN j.delta ELSE 0)
        /\ Net(A \cup {j}, s) =
             Net(A, s) + (IF j.session = s /\ j.key[1] # "scan" THEN j.delta ELSE 0)
    BY <1>6, <2>1, BookOne
  <2> QED
    BY <1>6, <2>2, <2>3
<1>14. Reach'
  <2>1. ASSUME NEW i \in All
        PROVE  /\ i.session <= session'
               /\ i.key[1] = "scan" => i.delta = 1 /\ i.key[2] <= scans'
               /\ i.key[1] # "scan" => \E k \in All' : k.key = <<"delete-out", i.key[2]>>
    <3>1. /\ i.session <= session
          /\ i.key[1] = "scan" => i.delta = 1 /\ i.key[2] <= scans
          /\ i.key[1] # "scan" => \E k \in All : k.key = <<"delete-out", i.key[2]>>
      BY DEF Ledger, Reach, HasKey
    <3>2. i.key[2] \in Nat
      BY <1>10 DEF Increments, Keys
    <3> QED
      BY <1>2, <1>4, <1>10, <3>1, <3>2
  <2>2. j.session <= session' /\ j.key[1] = "scan" /\ j.delta = 1 /\ j.key[2] <= scans'
    BY <1>2, <1>4, <1>6
  <2> QED
    BY <1>10, <2>1, <2>2 DEF Reach, HasKey
<1>15. UndoReady'
  <2>1. \A b : (HasKey("delete-out", b) => HasKey("delete-out", b)')
               /\ (HasKey("undo-in", b)' => HasKey("undo-in", b))
               /\ (HasKey("undo-out", b)' => HasKey("undo-out", b))
    BY <1>6, <1>10 DEF HasKey
  <2> QED
    BY <1>2, <2>1 DEF Ledger, UndoReady
<1>16. /\ rows' = (rows \ old) \cup {n} /\ old \subseteq rows /\ session' = session
       /\ n.product = p /\ n.session = session /\ n \in Rows /\ n.qty = Cardinality(n.events)
       /\ \/ /\ old = {} /\ n.events = {e} /\ \A r \in rows : r.product # p \/ r.session # session
          \/ \E r \in rows : /\ old = {r} /\ r.product = p /\ r.session = session
                             /\ n.events = r.events \cup {e}
  BY <1>2, <1>3 DEF CountedIn
<1>17. \A r \in rows \ old : r.product # p \/ r.session # session
  BY <1>16 DEF Ledger, OneRow
<1>18. OneRow'
  <2>1. \A r, s \in rows' : r.session = s.session /\ r.product = s.product => r = s
    BY <1>16, <1>17 DEF Ledger, OneRow
  <2>2. ASSUME NEW r \in rows', r.session # session PROVE HasKey("delete-out", r.id)'
    <3>1. HasKey("delete-out", r.id)
      BY <1>16, <2>2 DEF Ledger, OneRow
    <3> QED
      BY <1>10, <3>1 DEF HasKey
  <2> QED
    BY <1>2, <2>1, <2>2 DEF OneRow
<1>19. Booked(A, session, p) = n.qty - 1 /\ n.qty \in Int
  <2>1. CASE /\ old = {} /\ n.events = {e}
             /\ \A r \in rows : r.product # p \/ r.session # session
    <3>1. n.qty = 1
      BY <1>16, <2>1, FS_Singleton
    <3>2. Booked(A, session, p) = 0
      BY <1>11, <2>1 DEF Ledger, RowsBalance
    <3> QED
      BY <3>1, <3>2
  <2>2. CASE \E r \in rows : /\ old = {r} /\ r.product = p /\ r.session = session
                             /\ n.events = r.events \cup {e}
    <3>1. PICK r \in rows : /\ old = {r} /\ r.product = p /\ r.session = session
                            /\ n.events = r.events \cup {e}
      BY <2>2
    <3>2. r \in Rows /\ CountsItsScans(r)
      BY <1>4 DEF Local, RowsCount
    <3>3. r.events \in SUBSET (1..MaxScans) /\ e \notin r.events /\ r.qty = Cardinality(r.events)
      BY <1>4, <3>2 DEF CountsItsScans, Rows
    <3>4. IsFiniteSet(r.events) /\ Cardinality(r.events) \in Int
      BY <3>3, ScansFinite
    <3>5. Cardinality(r.events \cup {e}) = Cardinality(r.events) + 1
      BY <3>3, <3>4, FS_AddElement
    <3>6. n.qty = r.qty + 1 /\ r.qty \in Int
      BY <1>16, <3>1, <3>3, <3>4, <3>5
    <3>7. Booked(A, session, p) = r.qty
      BY <1>11, <3>1 DEF Ledger, RowsBalance
    <3> QED
      BY <3>6, <3>7
  <2> QED
    BY <1>16, <2>1, <2>2
<1>20. RowsBalance'
  <2>1. ASSUME NEW r \in rows' PROVE Booked(A \cup {j}, r.session, r.product) = r.qty
    <3>1. CASE r = n
      <4>1. Booked(A \cup {j}, session, p) = Booked(A, session, p) + 1
        BY <1>13
      <4> QED
        BY <1>16, <1>19, <3>1, <4>1
    <3>2. CASE r \in rows \ old
      <4>1. Booked(A, r.session, r.product) = r.qty
        BY <1>11, <3>2 DEF Ledger, RowsBalance
      <4>2. Booked(A \cup {j}, r.session, r.product) = Booked(A, r.session, r.product) + 0
        BY <1>13, <1>17, <3>2
      <4>3. Booked(A, r.session, r.product) \in Int
        BY <1>13
      <4> QED
        BY <4>1, <4>2, <4>3
    <3> QED
      BY <1>16, <3>1, <3>2
  <2>2. ASSUME NEW q \in Ids, \A r \in rows' : r.session # session \/ r.product # q
        PROVE  Booked(A \cup {j}, session, q) = 0
    <3>1. q # p /\ \A r \in rows : r.session # session \/ r.product # q
      BY <1>16, <2>2
    <3>2. Booked(A, session, q) = 0
      BY <1>11, <3>1 DEF Ledger, RowsBalance
    <3>3. Booked(A \cup {j}, session, q) = Booked(A, session, q) + 0
      BY <1>13, <3>1
    <3> QED
      BY <3>2, <3>3
  <2> QED
    BY <1>2, <1>12, <2>1, <2>2 DEF RowsBalance
<1>21. LeftBehind'
  <2> SUFFICES ASSUME backup # None, NEW b \in backup.rows, b.session # session
               PROVE  /\ \A x \in rows' : x.id # b.id
                      /\ Booked(A \cup {j}, b.session, b.product) = 0
    BY <1>2, <1>12 DEF LeftBehind
  <2>1. (\A x \in rows : x.id # b.id) /\ Booked(A, b.session, b.product) = 0
    BY <1>11 DEF Ledger, LeftBehind
  <2>2. n.id # b.id
    <3>1. b.id <= made /\ b.id \in Nat /\ made \in Nat
      BY Bounds DEF Local, BackupKept, KeptRows, CountsItsScans, Typed, TypedBackup, TypedCounts,
                    Backup, Rows
    <3>2. n.id = made + 1 \/ \E r \in rows : n.id = r.id
      BY <1>3 DEF CountedIn
    <3> QED
      BY <2>1, <3>1, <3>2
  <2>3. Booked(A \cup {j}, b.session, b.product) = Booked(A, b.session, b.product) + 0
    BY <1>13
  <2> QED
    BY <1>16, <2>1, <2>2, <2>3
<1>22. NetZero => NetZero'
  <2> SUFFICES ASSUME NetZero PROVE NetZero'
    OBVIOUS
  <2>1. ASSUME NEW s \in 1..MaxSessions PROVE Net(A \cup {j}, s) = 0
    BY <1>11, <1>13 DEF NetZero
  <2> QED
    BY <1>12, <2>1 DEF NetZero
<1> QED
  BY <1>10, <1>14, <1>15, <1>18, <1>20, <1>21, <1>22 DEF Ledger

LEMMA RotateLedger ==
  ASSUME Local, Ledger, Rotate
  PROVE  Ledger' /\ (NetZero => NetZero')
<1>1. /\ session \in Nat /\ session' = session + 1 /\ UNCHANGED <<scans, queue, backup, remote>>
      /\ rows' = {r \in rows : r.session # session}
  BY Bounds DEF Rotate, Local, Typed, TypedCounts
<1>2. All' = All /\ All \in SUBSET Increments
  BY <1>1 DEF All, remote, Local, Typed, TypedQueue
<1>3. Posted' /\ CloudSums' /\ (NetZero => NetZero')
  BY <1>1, <1>2 DEF Ledger, Posted, CloudSums, NetZero, remote
<1>4. \A i \in All : i.session <= session /\ i.session \in Nat
  BY <1>2, Bounds DEF Ledger, Reach, Increments
<1>5. Reach'
  <2>1. \A i \in All : i.session <= session + 1
    BY <1>1, <1>4
  <2>2. Reach
    BY DEF Ledger
  <2> QED
    BY <1>1, <1>2, <2>1, <2>2 DEF Reach, HasKey
<1>6. UndoReady' /\ OneRow'
  BY <1>1, <1>2 DEF Ledger, UndoReady, OneRow, HasKey
<1>7. RowsBalance'
  <2>1. ASSUME NEW p \in Ids PROVE Booked(All', session', p) = 0
    <3>1. At(All', session', p) = {}
      BY <1>1, <1>2, <1>4 DEF At
    <3> QED
      BY <3>1, SumEmpty DEF Booked
  <2>2. ASSUME NEW r \in rows' PROVE Booked(All', r.session, r.product) = r.qty
    BY <1>1, <1>2 DEF Ledger, RowsBalance
  <2> QED
    BY <2>1, <2>2 DEF RowsBalance
<1>8. LeftBehind'
  <2> SUFFICES ASSUME backup # None, NEW b \in backup.rows
               PROVE  /\ \A x \in rows' : x.id # b.id
                      /\ Booked(All, b.session, b.product) = 0
    BY <1>1, <1>2 DEF LeftBehind
  <2>1. CASE b.session # session
    BY <1>1, <2>1 DEF Ledger, LeftBehind
  <2>2. CASE b.session = session
    <3>1. /\ \A x \in rows : x.id = b.id => x.session = b.session
          /\ b.product = backup.of /\ products[backup.of].status # "active"
          /\ backup.of \in Ids
      BY DEF Local, BackupKept, KeptRows, KeptProduct, LivesIn, Typed, TypedBackup, Backup
    <3>2. \A x \in rows : x.product # backup.of
      BY <3>1 DEF Local, Shop
    <3>3. Booked(All, session, backup.of) = 0
      BY <3>1, <3>2 DEF Ledger, RowsBalance
    <3> QED
      BY <1>1, <2>2, <3>1, <3>3
  <2> QED
    BY <2>1, <2>2
<1> QED
  BY <1>3, <1>5, <1>6, <1>7, <1>8 DEF Ledger

LEMMA DrainLedger ==
  ASSUME Local, Ledger, NEW i \in queue, Drain(i)
  PROVE  Ledger' /\ (NetZero => NetZero')
<1>1. i \in Increments /\ i \in All /\ i \notin applied /\ applied \in SUBSET Increments
      /\ applied \subseteq All
  BY DEF Ledger, Posted, Local, Typed, TypedQueue, All
<1>2. \A a \in applied : a.mark # i.mark \/ (a.key # i.key /\ a.product # i.product)
  BY <1>1 DEF Ledger, Posted
<1>3. \A a \in applied : a.key # i.key
  <2>1. \A a \in All : a.mark = <<MarkOf(a.key[1]), a.key[2]>>
    BY DEF Ledger, Posted
  <2>2. \A a \in All : a.key = i.key => a.mark = i.mark
    BY <1>1, <2>1
  <2> QED
    BY <1>1, <1>2, <2>2
<1>4. /\ queue' = queue \ {i} /\ applied' = applied \cup {i} /\ refused' = refused
      /\ UNCHANGED <<session, scans, products, made, rows, feed, backup>>
      /\ cloud' = [cloud EXCEPT ![<<i.session, i.product>>] = @ + i.delta]
  BY <1>2, <1>3 DEF Drain
<1>5. All' = All
  BY <1>4 DEF All
<1>6. Posted'
  <2>1. IsFiniteSet(queue') /\ IsFiniteSet(applied')
    BY <1>4, FS_AddElement, FS_Subset DEF Ledger, Posted
  <2> QED
    BY <1>1, <1>4, <1>5, <2>1 DEF Ledger, Posted
<1>7. CloudSums'
  <2> SUFFICES ASSUME NEW s \in 1..MaxSessions, NEW p \in Ids
               PROVE  cloud'[<<s, p>>] = Booked(applied', s, p)
    BY DEF CloudSums
  <2>1. PICK A : A = applied
    OBVIOUS
  <2>2. Booked(A \cup {i}, s, p) =
          Booked(A, s, p) + (IF i.session = s /\ i.product = p THEN i.delta ELSE 0)
        /\ Booked(A, s, p) \in Int
    <3>1. A \in SUBSET Increments /\ IsFiniteSet(A) /\ i \notin A
      BY <1>1, <2>1 DEF Ledger, Posted
    <3>2. Booked(A, s, p) \in Int
      BY <3>1, BookType
    <3> QED
      BY <1>1, <3>1, <3>2, BookOne
  <2>3. cloud[<<s, p>>] = Booked(A, s, p) /\ cloud \in [(1..MaxSessions) \X Ids -> Int]
    BY <2>1 DEF Ledger, CloudSums, Local, Typed, TypedQueue
  <2>4. i.session \in 1..MaxSessions /\ i.product \in Ids /\ i.delta \in Int
    BY <1>1 DEF Increments
  <2>5. cloud'[<<s, p>>] =
          cloud[<<s, p>>] + (IF i.session = s /\ i.product = p THEN i.delta ELSE 0)
    BY <1>4, <2>2, <2>3, <2>4
  <2>6. applied' = A \cup {i}
    BY <1>4, <2>1
  <2> QED
    BY <2>2, <2>3, <2>5, <2>6
<1>8. Reach' /\ UndoReady' /\ OneRow'
  BY <1>4, <1>5 DEF Ledger, Reach, UndoReady, OneRow, HasKey
<1>9. LeftBehind' /\ RowsBalance' /\ (NetZero => NetZero')
  BY <1>4, <1>5 DEF Ledger, LeftBehind, RowsBalance, NetZero
<1> QED
  BY <1>6, <1>7, <1>8, <1>9 DEF Ledger

\* The pair j, k moves what j carries from k's product to j's.
Exchanged(A, j, k) ==
  /\ A = All /\ All' = A \cup {j, k} /\ A \in SUBSET Increments
  /\ \A s, q : /\ Booked(A, s, q) \in Int
               /\ Booked(A \cup {j, k}, s, q) =
                    Booked(A, s, q) + (IF s # session THEN 0
                                       ELSE IF j.product = q THEN j.delta
                                       ELSE IF k.product = q THEN k.delta ELSE 0)

LEMMA PairPosted ==
  ASSUME Typed, Ledger, NEW j \in Increments, NEW k \in Increments,
         queue' = queue \cup {j, k}, UNCHANGED remote,
         j.mark = <<MarkOf(j.key[1]), j.key[2]>>, k.mark = <<MarkOf(k.key[1]), k.key[2]>>,
         j.mark = k.mark, j.key # k.key, j.product # k.product,
         j.session = session, k.session = session, k.delta = -j.delta,
         j.key[1] # "scan", k.key[1] # "scan", \A i \in All : i.mark # j.mark
  PROVE  Posted' /\ CloudSums' /\ (NetZero => NetZero') /\ \E A : Exchanged(A, j, k)
<1>1. {j, k} \in SUBSET Increments /\ IsFiniteSet({j, k})
  <2>1. IsFiniteSet({j})
    BY FS_Singleton
  <2>2. IsFiniteSet({j} \cup {k}) /\ {j} \cup {k} = {j, k}
    BY <2>1, FS_AddElement
  <2> QED
    BY <2>2
<1>2. /\ Posted' /\ CloudSums' /\ All' = All \cup {j, k} /\ j \notin All /\ k \notin All
      /\ IsFiniteSet(All) /\ All \in SUBSET Increments
  BY <1>1, Posting DEF Ledger
<1>3. PICK A : A = All
  OBVIOUS
<1>4. A \in SUBSET Increments /\ IsFiniteSet(A) /\ j \notin A /\ k \notin A /\ All' = A \cup {j, k}
  BY <1>2, <1>3
<1>5. ASSUME NEW s, NEW q
      PROVE  /\ Booked(A, s, q) \in Int /\ Net(A \cup {j, k}, s) = Net(A, s)
             /\ Booked(A \cup {j, k}, s, q) =
                  Booked(A, s, q) + (IF j.session = s /\ j.product = q THEN j.delta
                                     ELSE IF j.session = s /\ k.product = q THEN k.delta ELSE 0)
  BY <1>4, BookPair, BookType
<1>6. Exchanged(A, j, k)
  <2>1. ASSUME NEW s, NEW q
        PROVE  /\ Booked(A, s, q) \in Int
               /\ Booked(A \cup {j, k}, s, q) =
                    Booked(A, s, q) + (IF s # session THEN 0
                                       ELSE IF j.product = q THEN j.delta
                                       ELSE IF k.product = q THEN k.delta ELSE 0)
    BY <1>5
  <2> QED
    BY <1>3, <1>4, <2>1 DEF Exchanged
<1>7. NetZero => NetZero'
  <2> SUFFICES ASSUME NetZero PROVE NetZero'
    OBVIOUS
  <2>1. ASSUME NEW s \in 1..MaxSessions PROVE Net(A \cup {j, k}, s) = 0
    BY <1>3, <1>5 DEF NetZero
  <2> QED
    BY <1>4, <2>1 DEF NetZero
<1> QED
  BY <1>2, <1>6, <1>7

LEMMA DeleteLedger ==
  ASSUME "redelete" \notin May, Local, Ledger, NEW p \in Ids, Delete(p)
  PROVE  Ledger' /\ (NetZero => NetZero')
<1>1. /\ session' = session /\ scans' = scans /\ UNCHANGED remote
      /\ queue' = queue \cup DeleteIncrements(p) /\ backup'.rows = RowsOf(p)
      /\ \A r \in RowsOf(p), i \in All : i.key # <<"delete-out", r.id>>
  BY DEF Delete, All
<1>2. rows' = (rows \ RowsOf(p)) \cup {[r EXCEPT !.product = Heir(p)] : r \in {x \in RowsOf(p) : Carries(p)}}
  BY DEF Delete, RowsAfterDelete
<1>3. CASE RowsOf(p) = {}
  <2>1. rows' = rows /\ queue' = queue /\ backup'.rows = {}
    BY <1>1, <1>2, <1>3 DEF DeleteIncrements
  <2>2. All' = All
    BY <1>1, <2>1 DEF All, remote
  <2>3. Posted' /\ CloudSums' /\ (NetZero => NetZero')
    BY <1>1, <2>1, <2>2 DEF Ledger, Posted, CloudSums, NetZero, remote
  <2>4. Reach' /\ UndoReady' /\ OneRow' /\ RowsBalance' /\ LeftBehind'
    BY <1>1, <2>1, <2>2 DEF Ledger, Reach, UndoReady, OneRow, RowsBalance, LeftBehind, HasKey
  <2> QED
    BY <2>3, <2>4 DEF Ledger
<1>4. CASE RowsOf(p) # {}
  <2>0. \A r \in RowsOf(p) : r \in rows /\ r.product = p /\ r.session = session
    BY <1>1 DEF RowsOf, HasKey, Ledger, OneRow
  <2>1. PICK r \in rows : r.product = p /\ RowsOf(p) = {r} /\ r.session = session
    BY <1>4, <2>0 DEF Ledger, OneRow
  <2>2. /\ r \in Rows /\ CountsItsScans(r) /\ r \in RowsOf(p)
        /\ \A x \in rows : x.product = p => x = r
    BY <2>1 DEF Local, Typed, TypedCounts, RowsCount, RowsOf
  <2>3. r.qty \in Nat /\ r.qty > 0 /\ r.id \in Nat
    <3>1. r.events \in SUBSET (1..MaxScans) /\ r.events # {} /\ r.qty = Cardinality(r.events)
      BY <2>2 DEF CountsItsScans, Rows
    <3>2. IsFiniteSet(r.events) /\ Cardinality(r.events) \in 0..MaxScans
      BY <3>1, ScansFinite
    <3>3. Cardinality(r.events) # 0
      BY <3>1, <3>2, FS_EmptySet
    <3>4. r.id \in Nat
      BY <2>2, Bounds DEF Rows
    <3> QED
      BY <3>1, <3>2, <3>3, <3>4, Bounds
  <2>4. PICK h : h = Heir(p)
    OBVIOUS
  <2>5. Carries(p) /\ h \in Ids /\ h \notin DOMAIN products /\ h # p
    BY <1>4, <2>4, CarriesRows, DeleteProducts DEF Local
  <2>6. PICK j, k : /\ j = Increment("delete-out", r.id, r.session, p, "delete", -r.qty)
                    /\ k = Increment("delete-in", r.id, r.session, h, "delete", r.qty)
    OBVIOUS
  <2>7. /\ j \in Increments /\ j.key = <<"delete-out", r.id>> /\ j.mark = <<"delete", r.id>>
        /\ j.session = session /\ j.product = p /\ j.delta = -r.qty
        /\ k \in Increments /\ k.key = <<"delete-in", r.id>> /\ k.mark = <<"delete", r.id>>
        /\ k.session = session /\ k.product = h /\ k.delta = r.qty
    <3>1. <<"delete-out", r.id>> \in Keys /\ <<"delete-in", r.id>> \in Keys
          /\ <<"delete", r.id>> \in Marks /\ session \in 1..MaxSessions
      BY <2>3 DEF Keys, Marks, Local, Typed, TypedCounts
    <3> QED
      BY <2>1, <2>2, <2>3, <2>5, <2>6, <3>1 DEF Increment, Increments
  <2>8. queue' = queue \cup {j, k}
    <3>1. {x \in RowsOf(p) : x.qty > 0} = {r}
      BY <2>1, <2>3
    <3>2. DeleteIncrements(p) = {j, k}
      BY <2>4, <2>6, <3>1 DEF DeleteIncrements
    <3> QED
      BY <1>1, <3>2
  <2>9. ~HasKey("delete-out", r.id)
    BY <1>1, <2>2 DEF HasKey
  <2>10. ASSUME NEW i \in All PROVE i.key # <<"undo-in", r.id>> /\ i.key # <<"undo-out", r.id>>
                                    /\ i.mark # j.mark
    <3>1. i.key[1] = "scan" \/ i.key[2] # r.id
      BY <2>9 DEF Ledger, Reach
    <3>2. i.mark = <<MarkOf(i.key[1]), i.key[2]>>
      BY DEF Ledger, Posted
    <3> QED
      BY <2>7, <3>1, <3>2 DEF MarkOf
  <2>11. Posted' /\ CloudSums' /\ (NetZero => NetZero') /\ \E A : Exchanged(A, j, k)
    <3>1. j.mark = <<MarkOf(j.key[1]), j.key[2]>> /\ k.mark = <<MarkOf(k.key[1]), k.key[2]>>
      BY <2>7 DEF MarkOf
    <3>2. /\ j.mark = k.mark /\ j.key # k.key /\ j.product # k.product
          /\ j.key[1] # "scan" /\ k.key[1] # "scan"
      BY <2>5, <2>7
    <3>3. k.delta = -j.delta
      BY <2>3, <2>7
    <3> QED
      BY <1>1, <2>7, <2>8, <2>10, <3>1, <3>2, <3>3, PairPosted DEF Local
  <2>12. PICK A : Exchanged(A, j, k)
    BY <2>11
  <2>13. /\ A = All /\ All' = A \cup {j, k}
         /\ \A s, q : /\ Booked(A, s, q) \in Int
                      /\ Booked(A \cup {j, k}, s, q) =
                           Booked(A, s, q) + (IF s # session THEN 0 ELSE IF p = q THEN -r.qty
                                              ELSE IF h = q THEN r.qty ELSE 0)
    BY <2>7, <2>12 DEF Exchanged
  <2>14. PICK n : n = [r EXCEPT !.product = h]
    OBVIOUS
  <2>15. /\ rows' = (rows \ {r}) \cup {n} /\ n.product = h /\ n.session = session
         /\ n.qty = r.qty /\ n.id = r.id
    BY <1>2, <2>1, <2>2, <2>4, <2>5, <2>14 DEF Rows
  <2>16. \A s \in rows : s.product # h /\ (s # r => s.product # p)
    BY <2>2, <2>5 DEF Local, Shop
  <2>17. Reach'
    <3>1. ASSUME NEW i \in All
          PROVE  /\ i.session <= session'
                 /\ i.key[1] = "scan" => i.delta = 1 /\ i.key[2] <= scans'
                 /\ i.key[1] # "scan" => \E x \in All' : x.key = <<"delete-out", i.key[2]>>
      BY <1>1, <2>13 DEF Ledger, Reach, HasKey
    <3>2. session \in Nat /\ j.key[2] = r.id /\ k.key[2] = r.id
          /\ j.key[1] # "scan" /\ k.key[1] # "scan"
      BY <2>7, Bounds DEF Local, Typed, TypedCounts
    <3>3. \E x \in All' : x.key = <<"delete-out", r.id>>
      BY <2>7, <2>13
    <3>4. \A i \in {j, k} : /\ i.session <= session' /\ i.key[1] # "scan"
                            /\ \E x \in All' : x.key = <<"delete-out", i.key[2]>>
      BY <1>1, <2>7, <3>2, <3>3
    <3> QED
      BY <2>13, <3>1, <3>4 DEF Reach, HasKey
  <2>18. UndoReady'
    <3>1. backup'.rows = {r}
      BY <1>1, <2>1
    <3>2. \E x \in All' : x.key = <<"delete-out", r.id>>
      BY <2>7, <2>13
    <3>3. \A x \in All' : x.key # <<"undo-in", r.id>> /\ x.key # <<"undo-out", r.id>>
      BY <2>7, <2>10, <2>13
    <3> QED
      BY <3>1, <3>2, <3>3 DEF UndoReady, HasKey
  <2>19. OneRow' /\ LeftBehind'
    <3>1. \A x, y \in rows' : x.session = y.session /\ x.product = y.product => x = y
      BY <2>15, <2>16 DEF Ledger, OneRow
    <3>2. ASSUME NEW x \in rows', x.session # session PROVE HasKey("delete-out", x.id)'
      <4>1. HasKey("delete-out", x.id)
        BY <2>15, <3>2 DEF Ledger, OneRow
      <4> QED
        BY <2>13, <4>1 DEF HasKey
    <3>3. LeftBehind'
      BY <1>1, <2>1 DEF LeftBehind
    <3> QED
      BY <1>1, <3>1, <3>2, <3>3 DEF OneRow
  <2>20. RowsBalance'
    <3>1. Booked(A, session, p) = r.qty /\ Booked(A, session, h) = 0
      BY <2>1, <2>5, <2>13, <2>16 DEF Ledger, RowsBalance
    <3>2. /\ Booked(A \cup {j, k}, session, p) = Booked(A, session, p) + (-r.qty)
          /\ Booked(A \cup {j, k}, session, h) = Booked(A, session, h) + r.qty
      BY <2>5, <2>13
    <3>3. Booked(A \cup {j, k}, session, p) = 0 /\ Booked(A \cup {j, k}, session, h) = r.qty
      BY <2>3, <3>1, <3>2
    <3>4. ASSUME NEW s, NEW q, s # session \/ (q # p /\ q # h)
          PROVE  Booked(A \cup {j, k}, s, q) = Booked(A, s, q)
      <4>1. Booked(A \cup {j, k}, s, q) = Booked(A, s, q) + 0
        BY <2>13, <3>4
      <4>2. Booked(A, s, q) \in Int
        BY <2>13
      <4> QED
        BY <4>1, <4>2
    <3>5. ASSUME NEW x \in rows' PROVE Booked(A \cup {j, k}, x.session, x.product) = x.qty
      <4>1. CASE x = n
        BY <2>15, <3>3, <4>1
      <4>2. CASE x # n
        <5>1. x \in rows /\ x.product # p /\ x.product # h
          BY <2>15, <2>16, <4>2
        <5>2. Booked(A, x.session, x.product) = x.qty
          BY <2>13, <5>1 DEF Ledger, RowsBalance
        <5> QED
          BY <3>4, <5>1, <5>2
      <4> QED
        BY <4>1, <4>2
    <3>6. ASSUME NEW q \in Ids, \A x \in rows' : x.session # session \/ x.product # q
          PROVE  Booked(A \cup {j, k}, session, q) = 0
      <4>1. q # h
        BY <2>15, <3>6
      <4>2. CASE q = p
        BY <3>3, <4>2
      <4>3. CASE q # p
        <5>1. \A x \in rows : x.session # session \/ x.product # q
          BY <2>1, <2>15, <3>6, <4>3
        <5>2. Booked(A, session, q) = 0
          BY <2>13, <5>1 DEF Ledger, RowsBalance
        <5> QED
          BY <3>4, <4>1, <4>3, <5>2
      <4> QED
        BY <4>2, <4>3
    <3> QED
      BY <1>1, <2>13, <3>5, <3>6 DEF RowsBalance
  <2> QED
    BY <2>11, <2>17, <2>18, <2>19, <2>20 DEF Ledger
<1> QED
  BY <1>3, <1>4

LEMMA UndoNowLedger ==
  ASSUME Local, Ledger, Undo, NEW b, backup.rows = {b}, b.session = session
  PROVE  Ledger' /\ (NetZero => NetZero')
<1>1. /\ session' = session /\ scans' = scans /\ backup' = None /\ UNCHANGED remote
      /\ queue' = queue \cup UndoIncrements /\ backup # None
  BY DEF Undo
<1>2. /\ \A y \in rows' : \/ Untouched(y) \/ y \in backup.rows
                          \/ \E x \in rows, c \in backup.rows : Carried(y, x, c)
      /\ \A r : Untouched(r) => r \in rows'
      /\ b \in rows'
      /\ \A x \in rows :
           x.id = b.id /\ x.events \ b.events # {} => \E y \in rows' : Carried(y, x, b)
      /\ \A y, z \in rows' : y.id > made /\ z.id > made => Apart(y, z)
  BY UndoRows
<1>3. UndoReady' /\ LeftBehind'
  BY <1>1 DEF UndoReady, LeftBehind
<1>4. /\ b \in Rows /\ CountsItsScans(b) /\ b.product = backup.of
      /\ \A y \in rows : LivesIn(b, y)
      /\ \E y \in rows : y.id = b.id
      /\ backup.of \in DOMAIN products /\ products[backup.of].status # "active"
      /\ backup.minted # backup.of
  BY <1>1 DEF Local, BackupKept, KeptProduct, KeptRows, Typed, TypedBackup, Backup
<1>5. PICK x \in rows : x.id = b.id
  BY <1>4
<1>6. PICK of, m : of = backup.of /\ m = backup.minted
  OBVIOUS
<1>7. /\ x \in Rows /\ CountsItsScans(x) /\ x.session = session /\ x.product = m
      /\ b.events \subseteq x.events /\ m # of /\ b.product = of /\ m \in Ids /\ of \in Ids
      /\ \A y \in rows : y.id = b.id => y = x
  BY <1>4, <1>5, <1>6 DEF LivesIn, Local, Typed, TypedCounts, RowsCount, Apart, Rows
<1>8. \A y \in rows : y.product # of /\ (y # x => y.product # m \/ y.session # session)
  BY <1>4, <1>6, <1>7 DEF Local, Shop, Ledger, OneRow
<1> DEFINE d == x.events \ b.events
<1>9. /\ b.qty \in Nat /\ b.qty > 0 /\ b.id \in Nat /\ x.qty \in Int
      /\ Cardinality(d) \in Int /\ x.qty = Cardinality(d) + b.qty
      /\ d = {} => Cardinality(d) = 0
  <2>1. /\ b.events \in SUBSET (1..MaxScans) /\ b.events # {} /\ b.qty = Cardinality(b.events)
        /\ x.events \in SUBSET (1..MaxScans) /\ x.qty = Cardinality(x.events)
    BY <1>4, <1>7 DEF CountsItsScans, Rows
  <2>2. d \in SUBSET (1..MaxScans) /\ d \cap b.events = {} /\ d \cup b.events = x.events
    BY <1>7, <2>1
  <2> HIDE DEF d
  <2>3. /\ IsFiniteSet(b.events) /\ Cardinality(b.events) \in 0..MaxScans
        /\ IsFiniteSet(d) /\ Cardinality(d) \in 0..MaxScans
    BY <2>1, <2>2, ScansFinite
  <2>4. Cardinality(b.events) # 0 /\ (d = {} => Cardinality(d) = 0)
    BY <2>1, <2>3, FS_EmptySet
  <2>5. Cardinality(x.events) = Cardinality(d) + Cardinality(b.events)
    BY <2>2, <2>3, CardinalityApart
  <2>6. b.id \in Nat
    BY <1>4, Bounds DEF Rows
  <2> QED
    BY <2>1, <2>3, <2>4, <2>5, <2>6, Bounds
<1> HIDE DEF d
<1>10. PICK j, k : /\ j = Increment("undo-in", b.id, b.session, b.product, "undo", b.qty)
                  /\ k = Increment("undo-out", b.id, b.session, x.product, "undo", -b.qty)
  OBVIOUS
<1>11. /\ j \in Increments /\ j.key = <<"undo-in", b.id>> /\ j.mark = <<"undo", b.id>>
      /\ j.session = session /\ j.product = of /\ j.delta = b.qty
      /\ k \in Increments /\ k.key = <<"undo-out", b.id>> /\ k.mark = <<"undo", b.id>>
      /\ k.session = session /\ k.product = m /\ k.delta = -b.qty
  <2>1. <<"undo-in", b.id>> \in Keys /\ <<"undo-out", b.id>> \in Keys
        /\ <<"undo", b.id>> \in Marks /\ session \in 1..MaxSessions
    BY <1>9 DEF Keys, Marks, Local, Typed, TypedCounts
  <2> QED
    BY <1>4, <1>7, <1>9, <1>10, <2>1 DEF Increment, Increments
<1>12. queue' = queue \cup {j, k}
  <2>1. {c \in backup.rows : c.qty > 0} = {b}
    BY <1>9
  <2>2. {y \in Live(b) : y.product # b.product} = {x}
    BY <1>5, <1>7 DEF Live
  <2>3. UndoIncrements = {j, k}
    BY <1>10, <2>1, <2>2 DEF UndoIncrements
  <2> QED
    BY <1>1, <2>3
<1>13. HasKey("delete-out", b.id) /\ ~HasKey("undo-in", b.id) /\ ~HasKey("undo-out", b.id)
  BY <1>1 DEF Ledger, UndoReady
<1>14. ASSUME NEW i \in All PROVE i.mark # j.mark
  <2> SUFFICES ASSUME i.mark = j.mark PROVE FALSE
    OBVIOUS
  <2>1. i.mark = <<MarkOf(i.key[1]), i.key[2]>>
    BY DEF Ledger, Posted
  <2>2. MarkOf(i.key[1]) = "undo" /\ i.key[2] = b.id
    BY <1>11, <2>1
  <2>3. i.key \in Keys
    BY DEF All, Local, Typed, TypedQueue, Increments
  <2>4. i.key = <<i.key[1], i.key[2]>>
        /\ i.key[1] \in {"scan", "delete-out", "delete-in", "undo-out", "undo-in"}
    BY <2>3 DEF Keys
  <2>5. i.key[1] \in {"undo-in", "undo-out"}
    BY <2>2, <2>4 DEF MarkOf
  <2> QED
    BY <1>13, <2>2, <2>4, <2>5 DEF HasKey
<1>15. Posted' /\ CloudSums' /\ (NetZero => NetZero') /\ \E A : Exchanged(A, j, k)
  <2>1. j.mark = <<MarkOf(j.key[1]), j.key[2]>> /\ k.mark = <<MarkOf(k.key[1]), k.key[2]>>
    BY <1>11 DEF MarkOf
  <2>2. /\ j.mark = k.mark /\ j.key # k.key /\ j.product # k.product
        /\ j.key[1] # "scan" /\ k.key[1] # "scan"
    BY <1>7, <1>11
  <2>3. k.delta = -j.delta
    BY <1>11
  <2> QED
    BY <1>1, <1>11, <1>12, <1>14, <2>1, <2>2, <2>3, PairPosted DEF Local
<1>16. PICK A : Exchanged(A, j, k)
  BY <1>15
<1>17. /\ A = All /\ All' = A \cup {j, k}
       /\ \A s, q : /\ Booked(A, s, q) \in Int
                    /\ Booked(A \cup {j, k}, s, q) =
                         Booked(A, s, q) + (IF s # session THEN 0 ELSE IF of = q THEN b.qty
                                            ELSE IF m = q THEN -b.qty ELSE 0)
  <2>1. j.product = of /\ j.delta = b.qty /\ k.product = m /\ k.delta = -b.qty
    BY <1>11
  <2>2. /\ A = All /\ All' = A \cup {j, k}
        /\ \A s, q : /\ Booked(A, s, q) \in Int
                     /\ Booked(A \cup {j, k}, s, q) =
                          Booked(A, s, q) + (IF s # session THEN 0
                                             ELSE IF j.product = q THEN j.delta
                                             ELSE IF k.product = q THEN k.delta ELSE 0)
    BY <1>16, Zenon DEF Exchanged
  <2> QED
    BY <2>1, <2>2
<1>18. Reach'
  <2>1. ASSUME NEW i \in All
        PROVE  /\ i.session <= session'
               /\ i.key[1] = "scan" => i.delta = 1 /\ i.key[2] <= scans'
               /\ i.key[1] # "scan" => \E y \in All' : y.key = <<"delete-out", i.key[2]>>
    BY <1>1, <1>17 DEF Ledger, Reach, HasKey
  <2>2. session \in Nat /\ j.key[2] = b.id /\ k.key[2] = b.id
        /\ j.key[1] # "scan" /\ k.key[1] # "scan"
    BY <1>11, Bounds DEF Local, Typed, TypedCounts
  <2>3. \E y \in All' : y.key = <<"delete-out", b.id>>
    BY <1>13, <1>17 DEF HasKey
  <2>4. \A i \in {j, k} : /\ i.session <= session' /\ i.key[1] # "scan"
                          /\ \E y \in All' : y.key = <<"delete-out", i.key[2]>>
    BY <1>1, <1>11, <2>2, <2>3
  <2> QED
    BY <1>17, <2>1, <2>4 DEF Reach, HasKey
<1>19. ASSUME NEW y \in rows'
       PROVE  \/ y \in rows /\ y.product # of /\ (y.product # m \/ y.session # session)
              \/ y = b
              \/ /\ y.id > made /\ y.session = session /\ y.product = m /\ y.events = d
                 /\ d # {} /\ y.qty = Cardinality(d)
  <2>1. CASE Untouched(y)
    <3>1. y \in rows /\ y # x
      BY <1>5, <2>1 DEF Untouched
    <3> QED
      BY <1>8, <3>1
  <2>2. CASE y \in backup.rows
    BY <2>2
  <2>3. CASE \E z \in rows, c \in backup.rows : Carried(y, z, c)
    <3>1. Carried(y, x, b)
      BY <1>7, <2>3 DEF Carried
    <3> QED
      BY <1>7, <3>1 DEF Carried, d
  <2> QED
    BY <1>2, <2>1, <2>2, <2>3
<1>20. OneRow'
  <2>1. ASSUME NEW y \in rows', y.session # session PROVE HasKey("delete-out", y.id)'
    <3>1. HasKey("delete-out", y.id)
      BY <1>19, <2>1 DEF Ledger, OneRow
    <3> QED
      BY <1>17, <3>1 DEF HasKey
  <2>2. ASSUME NEW y \in rows', NEW z \in rows', y.session = z.session, y.product = z.product
        PROVE  y = z
    <3>1. CASE y \in rows /\ y.product # of /\ (y.product # m \/ y.session # session)
      BY <1>7, <1>19, <2>2, <3>1 DEF Ledger, OneRow
    <3>2. CASE y = b
      BY <1>7, <1>8, <1>19, <2>2, <3>2
    <3>3. CASE /\ y.session = session /\ y.product = m /\ y.events = d /\ d # {}
               /\ y.id > made
      <4>1. z.id > made /\ z.events = d
        BY <1>7, <1>19, <2>2, <3>3
      <4>2. Apart(y, z)
        BY <1>2, <3>3, <4>1
      <4> QED
        BY <3>3, <4>1, <4>2 DEF Apart
    <3> QED
      BY <1>19, <3>1, <3>2, <3>3
  <2> QED
    BY <1>1, <2>1, <2>2 DEF OneRow
<1>21. RowsBalance'
  <2>1. Booked(A, session, of) = 0 /\ Booked(A, session, m) = x.qty
    BY <1>7, <1>8, <1>17 DEF Ledger, RowsBalance
  <2>2. /\ Booked(A \cup {j, k}, session, of) = Booked(A, session, of) + b.qty
        /\ Booked(A \cup {j, k}, session, m) = Booked(A, session, m) + (-b.qty)
    BY <1>7, <1>17
  <2>3. /\ Booked(A \cup {j, k}, session, of) = b.qty
        /\ Booked(A \cup {j, k}, session, m) = Cardinality(d)
    BY <1>9, <2>1, <2>2
  <2>4. ASSUME NEW s, NEW q, s # session \/ (q # of /\ q # m)
        PROVE  Booked(A \cup {j, k}, s, q) = Booked(A, s, q)
    <3>1. Booked(A \cup {j, k}, s, q) = Booked(A, s, q) + 0
      BY <1>17, <2>4
    <3>2. Booked(A, s, q) \in Int
      BY <1>17
    <3> QED
      BY <3>1, <3>2
  <2>5. ASSUME NEW y \in rows' PROVE Booked(A \cup {j, k}, y.session, y.product) = y.qty
    <3>1. CASE y = b
      BY <1>7, <2>3, <3>1
    <3>2. CASE y.session = session /\ y.product = m /\ y.qty = Cardinality(d)
      BY <2>3, <3>2
    <3>3. CASE y \in rows /\ y.product # of /\ (y.product # m \/ y.session # session)
      <4>1. Booked(A, y.session, y.product) = y.qty
        BY <1>17, <3>3 DEF Ledger, RowsBalance
      <4> QED
        BY <2>4, <3>3, <4>1
    <3> QED
      BY <1>19, <3>1, <3>2, <3>3
  <2>6. ASSUME NEW q \in Ids, \A y \in rows' : y.session # session \/ y.product # q
        PROVE  Booked(A \cup {j, k}, session, q) = 0
    <3>1. q # of
      BY <1>2, <1>7, <2>6
    <3>2. CASE q = m
      <4>1. ASSUME d # {} PROVE FALSE
        <5>1. \E y \in rows' : Carried(y, x, b)
          BY <1>2, <1>5, <4>1 DEF d
        <5> QED
          BY <1>7, <2>6, <3>2, <5>1 DEF Carried
      <4>2. Cardinality(d) = 0
        BY <1>9, <4>1
      <4> QED
        BY <2>3, <3>2, <4>2
    <3>3. CASE q # m
      <4>1. ASSUME NEW y \in rows PROVE y.session # session \/ y.product # q
        <5>1. CASE y = x
          BY <1>7, <3>3, <5>1
        <5>2. CASE y # x
          <6>1. Untouched(y)
            BY <1>7, <5>2 DEF Untouched
          <6> QED
            BY <1>2, <2>6, <6>1
        <5> QED
          BY <5>1, <5>2
      <4>2. Booked(A, session, q) = 0
        BY <1>17, <4>1 DEF Ledger, RowsBalance
      <4> QED
        BY <2>4, <3>1, <3>3, <4>2
    <3> QED
      BY <3>2, <3>3
  <2> QED
    BY <1>1, <1>17, <2>5, <2>6 DEF RowsBalance
<1> QED
  BY <1>3, <1>15, <1>18, <1>20, <1>21 DEF Ledger

\* Undone in a later session: the row comes back, and half a pair with it.
LEMMA UndoLateLedger ==
  ASSUME Local, Ledger, Undo, NEW b, backup.rows = {b}, b.session # session
  PROVE  Ledger'
<1>1. /\ session' = session /\ scans' = scans /\ backup' = None /\ UNCHANGED remote
      /\ queue' = queue \cup UndoIncrements /\ backup # None
  BY DEF Undo
<1>2. /\ b \in Rows /\ CountsItsScans(b) /\ b.product = backup.of
      /\ \A x \in rows : x.product # b.product
  BY <1>1 DEF Local, BackupKept, KeptProduct, KeptRows, Typed, TypedBackup, Backup, Shop
<1>3. /\ HasKey("delete-out", b.id) /\ ~HasKey("undo-in", b.id)
      /\ Booked(All, b.session, b.product) = 0 /\ \A x \in rows : x.id # b.id
  BY <1>1 DEF Ledger, UndoReady, LeftBehind
<1>4. rows' = rows \cup {b}
  <2>1. \A x \in rows : Untouched(x) /\ ~\E y : Carried(y, x, b)
    BY <1>3 DEF Untouched, Carried
  <2> QED
    BY <2>1, UndoRows DEF Untouched
<1>5. b.qty \in Nat /\ b.qty > 0 /\ b.id \in Nat
  <2>1. b.events \in SUBSET (1..MaxScans) /\ b.events # {} /\ b.qty = Cardinality(b.events)
    BY <1>2 DEF CountsItsScans, Rows
  <2>2. IsFiniteSet(b.events) /\ Cardinality(b.events) \in 0..MaxScans
    BY <2>1, ScansFinite
  <2>3. Cardinality(b.events) # 0
    BY <2>1, <2>2, FS_EmptySet
  <2>4. b.id \in Nat
    BY <1>2, Bounds DEF Rows
  <2> QED
    BY <2>1, <2>2, <2>3, <2>4, Bounds
<1>6. PICK j : j = Increment("undo-in", b.id, b.session, b.product, "undo", b.qty)
  OBVIOUS
<1>7. /\ j \in Increments /\ j.key = <<"undo-in", b.id>> /\ j.mark = <<"undo", b.id>>
      /\ j.session = b.session /\ j.product = b.product /\ j.delta = b.qty
  <2>1. <<"undo-in", b.id>> \in Keys /\ <<"undo", b.id>> \in Marks
    BY <1>5 DEF Keys, Marks
  <2> QED
    BY <1>2, <1>5, <1>6, <2>1 DEF Increment, Increments, Rows
<1>8. queue' = queue \cup {j}
  <2>1. {c \in backup.rows : c.qty > 0} = {b} /\ Live(b) = {}
    BY <1>3, <1>5 DEF Live
  <2>2. UndoIncrements = {j}
    BY <1>6, <2>1 DEF UndoIncrements
  <2> QED
    BY <1>1, <2>2
<1>9. ASSUME NEW i \in All PROVE i.mark # j.mark
  <2> SUFFICES ASSUME i.mark = j.mark PROVE FALSE
    OBVIOUS
  <2>1. ~HasKey("undo-out", b.id)
    BY <1>1 DEF Ledger, UndoReady
  <2>2. i.mark = <<MarkOf(i.key[1]), i.key[2]>>
    BY DEF Ledger, Posted
  <2>3. MarkOf(i.key[1]) = "undo" /\ i.key[2] = b.id
    BY <1>7, <2>2
  <2>4. i.key \in Keys
    BY DEF All, Local, Typed, TypedQueue, Increments
  <2>5. i.key = <<i.key[1], i.key[2]>>
        /\ i.key[1] \in {"scan", "delete-out", "delete-in", "undo-out", "undo-in"}
    BY <2>4 DEF Keys
  <2>6. i.key[1] \in {"undo-in", "undo-out"}
    BY <2>3, <2>5 DEF MarkOf
  <2> QED
    BY <1>3, <2>1, <2>3, <2>5, <2>6 DEF HasKey
<1>10. /\ Posted' /\ CloudSums' /\ All' = All \cup {j} /\ j \notin All
       /\ IsFiniteSet(All) /\ All \in SUBSET Increments
  <2>1. {j} \in SUBSET Increments /\ IsFiniteSet({j})
    BY <1>7, FS_Singleton
  <2>2. j.mark = <<MarkOf(j.key[1]), j.key[2]>>
    BY <1>7 DEF MarkOf
  <2> QED
    BY <1>1, <1>8, <1>9, <2>1, <2>2, Posting DEF Ledger, Local
<1>11. PICK A : A = All
  OBVIOUS
<1>12. All' = A \cup {j}
  BY <1>10, <1>11
<1>13. ASSUME NEW s, NEW q
       PROVE  /\ Booked(A, s, q) \in Int
              /\ Booked(A \cup {j}, s, q) =
                   Booked(A, s, q) + (IF s = b.session /\ q = b.product THEN b.qty ELSE 0)
  <2>1. A \in SUBSET Increments /\ IsFiniteSet(A) /\ j \notin A
    BY <1>10, <1>11
  <2>2. Booked(A, s, q) \in Int
    BY <2>1, BookType
  <2>3. Booked(A \cup {j}, s, q) =
          Booked(A, s, q) + (IF j.session = s /\ j.product = q THEN j.delta ELSE 0)
    BY <1>7, <2>1, BookOne
  <2> QED
    BY <1>7, <2>2, <2>3
<1>14. Reach'
  <2>1. ASSUME NEW i \in All
        PROVE  /\ i.session <= session'
               /\ i.key[1] = "scan" => i.delta = 1 /\ i.key[2] <= scans'
               /\ i.key[1] # "scan" => \E y \in All' : y.key = <<"delete-out", i.key[2]>>
    BY <1>1, <1>10 DEF Ledger, Reach, HasKey
  <2>2. /\ j.session <= session' /\ j.key[1] # "scan" /\ j.key[2] = b.id
        /\ \E y \in All' : y.key = <<"delete-out", b.id>>
    BY <1>1, <1>2, <1>3, <1>7, <1>10 DEF CountsItsScans, HasKey
  <2> QED
    BY <1>10, <2>1, <2>2 DEF Reach, HasKey
<1>15. UndoReady' /\ LeftBehind'
  BY <1>1 DEF UndoReady, LeftBehind
<1>16. OneRow'
  <2>1. \A x, y \in rows' : x.session = y.session /\ x.product = y.product => x = y
    BY <1>2, <1>4 DEF Ledger, OneRow
  <2>2. ASSUME NEW x \in rows', x.session # session PROVE HasKey("delete-out", x.id)'
    <3>1. HasKey("delete-out", x.id)
      BY <1>3, <1>4, <2>2 DEF Ledger, OneRow
    <3> QED
      BY <1>10, <3>1 DEF HasKey
  <2> QED
    BY <1>1, <2>1, <2>2 DEF OneRow
<1>17. RowsBalance'
  <2>1. ASSUME NEW x \in rows' PROVE Booked(A \cup {j}, x.session, x.product) = x.qty
    <3>1. CASE x = b
      <4>1. Booked(A \cup {j}, b.session, b.product) = Booked(A, b.session, b.product) + b.qty
        BY <1>13
      <4> QED
        BY <1>3, <1>5, <1>11, <3>1, <4>1
    <3>2. CASE x \in rows
      <4>1. Booked(A \cup {j}, x.session, x.product) = Booked(A, x.session, x.product) + 0
        BY <1>2, <1>13, <3>2
      <4>2. Booked(A, x.session, x.product) = x.qty /\ Booked(A, x.session, x.product) \in Int
        BY <1>11, <1>13, <3>2 DEF Ledger, RowsBalance
      <4> QED
        BY <4>1, <4>2
    <3> QED
      BY <1>4, <3>1, <3>2
  <2>2. ASSUME NEW q \in Ids, \A x \in rows' : x.session # session \/ x.product # q
        PROVE  Booked(A \cup {j}, session, q) = 0
    <3>1. Booked(A \cup {j}, session, q) = Booked(A, session, q) + 0
      BY <1>13
    <3>2. Booked(A, session, q) = 0
      BY <1>4, <1>11, <2>2 DEF Ledger, RowsBalance
    <3> QED
      BY <3>1, <3>2
  <2> QED
    BY <1>1, <1>12, <2>1, <2>2 DEF RowsBalance
<1> QED
  BY <1>10, <1>14, <1>15, <1>16, <1>17 DEF Ledger

LEMMA UndoLedger ==
  ASSUME Local, Ledger, Undo
  PROVE  Ledger' /\ (May = {} /\ NetZero => NetZero')
<1>1. /\ backup # None /\ \A b, c \in backup.rows : b = c
      /\ May = {} => \A b \in backup.rows : b.session = session
  BY DEF Undo, Ledger, UndoReady
<1>2. CASE backup.rows = {}
  <2>1. /\ UndoIncrements = {} /\ session' = session /\ scans' = scans /\ backup' = None
        /\ UNCHANGED remote /\ queue' = queue \cup UndoIncrements
    BY <1>2 DEF UndoIncrements, Undo
  <2>2. rows' = rows /\ queue' = queue
    BY <1>2, <2>1, UndoRows DEF Untouched
  <2>3. All' = All
    BY <2>1, <2>2 DEF All, remote
  <2>4. Posted' /\ CloudSums' /\ (NetZero => NetZero')
    BY <2>1, <2>2, <2>3 DEF Ledger, Posted, CloudSums, NetZero, remote
  <2>5. Reach' /\ OneRow' /\ RowsBalance' /\ UndoReady' /\ LeftBehind'
    BY <2>1, <2>2, <2>3 DEF Ledger, Reach, OneRow, RowsBalance, UndoReady, LeftBehind, HasKey
  <2> QED
    BY <2>4, <2>5 DEF Ledger
<1>3. CASE backup.rows # {}
  <2>1. PICK b : backup.rows = {b}
    BY <1>1, <1>3
  <2>2. CASE b.session = session
    BY <2>1, <2>2, UndoNowLedger
  <2>3. CASE b.session # session
    BY <1>1, <2>1, <2>3, UndoLateLedger
  <2> QED
    BY <2>2, <2>3
<1> QED
  BY <1>2, <1>3

LEMMA NextLedger ==
  ASSUME "redelete" \notin May, DistinctCodes, Local, Ledger, [Next]_vars
  PROVE  Ledger' /\ (May = {} /\ NetZero => NetZero')
<1>1. CASE UNCHANGED vars
  <2>1. All' = All
    BY <1>1 DEF vars, remote, All
  <2>2. /\ Posted' /\ Reach' /\ UndoReady' /\ OneRow'
    BY <1>1, <2>1 DEF vars, remote, Ledger, Posted, Reach, UndoReady, OneRow, HasKey
  <2>3. LeftBehind' /\ RowsBalance' /\ CloudSums' /\ (NetZero => NetZero')
    BY <1>1, <2>1 DEF vars, remote, Ledger, LeftBehind, RowsBalance, NetZero, CloudSums
  <2> QED
    BY <2>2, <2>3 DEF Ledger
<1>2. CASE Next
  BY <1>2, ScanLedger, DeleteLedger, UndoLedger, RotateLedger, DrainLedger DEF Next
<1> QED
  BY <1>1, <1>2

LEMMA LedgerAlways ==
  "redelete" \notin May /\ DistinctCodes => (Spec => [](Local /\ Ledger))
<1> SUFFICES ASSUME "redelete" \notin May, DistinctCodes PROVE Spec => [](Local /\ Ledger)
  OBVIOUS
<1>1. Local /\ Ledger /\ [Next]_vars => (Local /\ Ledger)'
  BY NextLocal, NextLedger
<1> QED
  BY <1>1, InitLocal, InitLedger, PTL DEF Spec

LEMMA NetAlways == May = {} /\ DistinctCodes => (Spec => [](Local /\ Ledger /\ NetZero))
<1> SUFFICES ASSUME May = {}, DistinctCodes PROVE Spec => [](Local /\ Ledger /\ NetZero)
  OBVIOUS
<1>1. Local /\ Ledger /\ NetZero /\ [Next]_vars => (Local /\ Ledger /\ NetZero)'
  BY NextLocal, NextLedger
<1> QED
  BY <1>1, InitLocal, InitLedger, PTL DEF Spec

-----------------------------------------------------------------------------
(* The cloud follows *)

\* The sum over disjoint parts is the sum of their sums.
LEMMA SumOfParts ==
  ASSUME NEW S, IsFiniteSet(S), NEW A, IsFiniteSet(A), NEW w, Weighs(w, A), NEW F, NEW v,
         \A p \in S : F[p] \in SUBSET A /\ v[p] = Sum(w, F[p]),
         \A p, q \in S : p # q => F[p] \cap F[q] = {}
  PROVE  Sum(v, S) = Sum(w, UNION {F[p] : p \in S})
<1> DEFINE U(T) == UNION {F[p] : p \in T}
           h == [T \in SUBSET S |-> Sum(w, U(T))]
<1>1. ASSUME NEW T, T \in SUBSET A
      PROVE  IsFiniteSet(T) /\ Weighs(w, T) /\ Sum(w, T) \in Int
  <2>1. IsFiniteSet(T) /\ Weighs(w, T)
    BY <1>1, FS_Subset DEF Weighs
  <2> QED
    BY <2>1, SumType
<1>2. ASSUME NEW T \in SUBSET S PROVE U(T) \in SUBSET A
  OBVIOUS
<1>3. ASSUME NEW T \in SUBSET S, NEW p \in T PROVE h[T] = v[p] + h[T \ {p}]
  <2>1. U(T) = U(T \ {p}) \cup F[p] /\ U(T \ {p}) \cap F[p] = {}
    <3>1. U(T) = U(T \ {p}) \cup F[p]
      OBVIOUS
    <3>2. \A q \in T \ {p} : F[q] \cap F[p] = {}
      OBVIOUS
    <3> QED
      BY <3>1, <3>2
  <2>2. T \ {p} \in SUBSET S /\ U(T \ {p}) \in SUBSET A /\ F[p] \in SUBSET A
    OBVIOUS
  <2> HIDE DEF U
  <2>3. PICK X, Y : X = U(T \ {p}) /\ Y = F[p]
    OBVIOUS
  <2>4. /\ IsFiniteSet(X) /\ Weighs(w, X) /\ Sum(w, X) \in Int
        /\ IsFiniteSet(Y) /\ Weighs(w, Y) /\ Sum(w, Y) \in Int /\ X \cap Y = {}
    BY <1>1, <2>1, <2>2, <2>3
  <2>5. Sum(w, X \cup Y) = Sum(w, X) + Sum(w, Y)
    BY <2>4, SumUnion
  <2>6. Sum(w, U(T)) = v[p] + Sum(w, U(T \ {p}))
    <3>1. U(T) = X \cup Y /\ v[p] = Sum(w, Y)
      BY <2>1, <2>3
    <3>2. Sum(w, U(T)) = Sum(w, Y) + Sum(w, X)
      BY <2>4, <2>5, <3>1
    <3> QED
      BY <2>3, <3>1, <3>2
  <2> QED
    BY <2>2, <2>6
<1>4. h \in [SUBSET S -> Int] /\ h[{}] = 0
  <2>1. U({}) = {} /\ {} \in SUBSET S
    OBVIOUS
  <2> HIDE DEF U
  <2>2. Sum(w, U({})) = 0 /\ \A T \in SUBSET S : Sum(w, U(T)) \in Int
    BY <1>1, <1>2, <2>1, SumEmpty
  <2> QED
    BY <2>1, <2>2
<1>5. h[S] = Sum(w, UNION {F[p] : p \in S})
  OBVIOUS
<1> HIDE DEF h
<1>6. Adds(h, S, v)
  BY <1>3, <1>4 DEF Adds
<1> QED
  BY <1>5, <1>6, SumExhibit

LEMMA CloudFollowsRows ==
  ASSUME Local, Ledger
  PROVE  CloudAgrees
<1> SUFFICES ASSUME queue = {}, NEW r \in rows
             PROVE  cloud[<<r.session, r.product>>] =
                      Total({x \in rows : x.session = r.session /\ x.product = r.product})
  BY DEF CloudAgrees
<1>1. {x \in rows : x.session = r.session /\ x.product = r.product} = {r}
  BY DEF Ledger, OneRow
<1>2. Total({r}) = Cardinality(UNION {x.events : x \in {r}})
  BY TotalCounts DEF Local
<1>3. UNION {x.events : x \in {r}} = r.events
  OBVIOUS
<1>4. r.qty = Cardinality(r.events) /\ r \in Rows
  BY DEF Local, RowsCount, CountsItsScans, Typed, TypedCounts
<1>5. r.product \in Ids /\ r.session \in 1..MaxSessions
  BY <1>4 DEF Rows
<1>6. All = applied
  BY DEF All
<1>7. cloud[<<r.session, r.product>>] = r.qty
  BY <1>5, <1>6 DEF Ledger, CloudSums, RowsBalance
<1> QED
  BY <1>1, <1>2, <1>3, <1>4, <1>7

LEMMA TransfersCancelOut ==
  ASSUME Local, Ledger, NetZero
  PROVE  TransfersNetZero
<1> SUFFICES ASSUME \A i \in queue : i.key[1] = "scan", NEW s \in 1..MaxSessions
             PROVE  MapThenSumSet(LAMBDA p : cloud[<<s, p>>], Ids) =
                      Cardinality({a \in applied : a.session = s /\ a.key[1] = "scan"})
  BY DEF TransfersNetZero
<1> DEFINE S == {i \in applied : i.session = s}
           Scans == {i \in applied : i.session = s /\ i.key[1] = "scan"}
           F == [p \in Ids |-> At(applied, s, p)]
<1>1. IsFiniteSet(Ids)
  BY Bounds, FS_Interval DEF Ids
<1>2. \A p \in Ids : cloud[<<s, p>>] \in Int /\ cloud[<<s, p>>] = Booked(applied, s, p)
  BY DEF Ledger, CloudSums, Local, Typed, TypedQueue
<1>3. MapThenSumSet(LAMBDA p : cloud[<<s, p>>], Ids) = Sum(Line(cloud, s, Ids), Ids)
  BY <1>1, <1>2, CloudIsSum
<1>4. /\ IsFiniteSet(applied) /\ applied \in SUBSET Increments
      /\ \A i \in Increments : Moves[i] = i.delta /\ i.delta \in Int /\ i.product \in Ids
  BY DEF Ledger, Posted, Local, Typed, TypedQueue, Moves, Increments
<1>5. /\ IsFiniteSet(S) /\ Weighs(Moves, S) /\ IsFiniteSet(Scans) /\ Weighs(Moves, Scans)
      /\ IsFiniteSet(Transfers(applied, s)) /\ Weighs(Moves, Transfers(applied, s))
  BY <1>4, FS_Subset DEF Weighs, Transfers
<1>6. \A p \in Ids : F[p] \in SUBSET S /\ Line(cloud, s, Ids)[p] = Sum(Moves, F[p])
  BY <1>2 DEF At, Line, Booked
<1>7. \A p, q \in Ids : p # q => F[p] \cap F[q] = {}
  BY DEF At
<1>8. UNION {F[p] : p \in Ids} = S
  BY <1>4 DEF At
<1> HIDE DEF F, S
<1>9. Sum(Line(cloud, s, Ids), Ids) = Sum(Moves, UNION {F[p] : p \in Ids})
  <2>1. PICK v, T : v = Line(cloud, s, Ids) /\ T = S
    OBVIOUS
  <2>2. \A p \in Ids : F[p] \in SUBSET T /\ v[p] = Sum(Moves, F[p])
    BY <1>6, <2>1
  <2>3. IsFiniteSet(T) /\ Weighs(Moves, T)
    BY <1>5, <2>1
  <2>4. Sum(v, Ids) = Sum(Moves, UNION {F[p] : p \in Ids})
    BY <1>1, <1>7, <2>2, <2>3, SumOfParts
  <2> QED
    BY <2>1, <2>4
<1>10. S = Scans \cup Transfers(applied, s) /\ Scans \cap Transfers(applied, s) = {}
  BY DEF Transfers, S
<1>11. Net(applied, s) = 0
  <2>1. Transfers(All, s) = Transfers(applied, s)
    BY DEF Transfers, All
  <2>2. Net(All, s) = 0
    BY DEF NetZero
  <2> QED
    BY <2>1, <2>2 DEF Net
<1>12. Sum(Moves, Scans) = Cardinality(Scans)
  <2>1. \A i \in Scans : Moves[i] = 1
    BY <1>4 DEF Ledger, Reach, All
  <2> HIDE DEF Scans
  <2> QED
    BY <1>5, <2>1, SumOnes
<1> HIDE DEF Scans
<1>13. Sum(Moves, Scans \cup Transfers(applied, s)) = Sum(Moves, Scans) + Net(applied, s)
  BY <1>5, <1>10, SumUnion DEF Net
<1>14. Cardinality(Scans) \in Nat
  BY <1>5, FS_CardinalityType
<1>15. Sum(Moves, S) = Cardinality(Scans)
  BY <1>10, <1>11, <1>12, <1>13, <1>14
<1>16. MapThenSumSet(LAMBDA p : cloud[<<s, p>>], Ids) = Cardinality(Scans)
  BY <1>3, <1>8, <1>9, <1>15
<1> QED
  BY <1>16 DEF Scans

\* Once the queue is drained, each row of the store has in the cloud exactly what
\* it has in the store, in whatever order the increments arrived: also the row of
\* an earlier session that a late undo brings back.  Of histories in which no
\* product is deleted twice over, which breaks it.
THEOREM CloudFollows ==
  "redelete" \notin May /\ DistinctCodes => (Spec => []CloudAgrees)
<1>1. Local /\ Ledger => CloudAgrees
  BY CloudFollowsRows
<1> QED
  BY <1>1, LedgerAlways, PTL

\* The two halves of every transfer cancel out: with none under way a session
\* adds up in the cloud to the scans that arrived.  Of histories without late
\* undos and repeated deletions, each of which breaks it.
THEOREM TransfersCancel == May = {} /\ DistinctCodes => (Spec => []TransfersNetZero)
<1>1. Local /\ Ledger /\ NetZero => TransfersNetZero
  BY TransfersCancelOut
<1> QED
  BY <1>1, NetAlways, PTL
=============================================================================
