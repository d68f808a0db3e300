-------------------------- MODULE DecodeLaneProofs --------------------------
(***************************************************************************)
(* The safety of the decode lane for every number of reviews, width, rate, *)
(* burst, threshold and limit: types, no stalled queue, the rate, the      *)
(* limit of calls that meet no other, and what closes an open breaker.     *)
(***************************************************************************)
EXTENDS DecodeLane, FiniteSetTheorems, TLAPS

\* A review is in the lane once: this makes its slots and its queue add up.
Distinct ==
  /\ \A i, j \in 1..Len(pending) : pending[i] = pending[j] => i = j
  /\ Waiting \cap Active = {}

\* What the bucket holds and what the lane has not paid for never exceed the burst.
Paid == level + Refilled <= Full

\* The count of the day covers the lookups that met no other call, and so does
\* the count every call has found.
Counted ==
  /\ alone <= daily /\ alone <= DailyLimit
  /\ \A r \in Active :
       /\ call[r].phase = "asking" => alone <= call[r].daily /\ call[r].daily < DailyLimit
       /\ call[r].alone => Active = {r}

\* A breaker that is not closed has failed Threshold times.
Tripped ==
  /\ breaker.state # "closed" => breaker.failures = Threshold
  /\ \A r \in Active :
       call[r].breaker.state # "closed" => call[r].breaker.failures = Threshold

Inv == TypeOK /\ Distinct /\ NoStall /\ Paid /\ Counted /\ Tripped

-----------------------------------------------------------------------------
(* Arithmetic *)

\* A whole number of tokens never exceeds what they are taken from.
LEMMA DivFacts ==
  ASSUME NEW a \in Nat, NEW b \in Nat, b > 0
  PROVE  /\ (a \div b) \in Nat
         /\ (a \div b) * b <= a
         /\ a - (a \div b) * b < b
  BY SMT

\* Multiplication keeps the order.
LEMMA MulMono ==
  ASSUME NEW a \in Nat, NEW b \in Nat, NEW c \in Nat, a <= b
  PROVE  a * c <= b * c
  BY SMT

\* The constants are positive, and so is the capacity in units.
LEMMA FullFacts == Full \in Nat /\ Rate <= Full /\ Rate \in Nat /\ Rate > 0 /\ Width \in Nat
  <1>1. Rate \in Nat /\ Rate > 0 /\ Burst \in Nat /\ 1 <= Burst /\ Width \in Nat
    BY LaneAssumption, SMT
  <1>2. 1 * Rate <= Burst * Rate
    BY <1>1, MulMono
  <1>3. Burst * Rate \in Nat
    BY <1>1, SMT
  <1> QED BY <1>1, <1>2, <1>3, SMT DEF Full

\* Least is the smaller of two numbers.
LEMMA LeastFacts ==
  ASSUME NEW a \in Int, NEW b \in Int
  PROVE  Least(a, b) \in {a, b} /\ Least(a, b) <= a /\ Least(a, b) <= b
  BY SMT DEF Least

-----------------------------------------------------------------------------
(* What one pass of the loop does *)

\* The bucket after a refill is within its capacity.
LEMMA RefilledFacts ==
  ASSUME TypeOK
  PROVE  Refilled \in 0..Full
  <1>1. tokens \in Nat /\ since \in Nat /\ Full \in Nat
    BY FullFacts, SMT DEF TypeOK
  <1> QED BY <1>1, SMT DEF Refilled, Least

\* Calls hold slots and are finitely many.
LEMMA ActiveFacts ==
  ASSUME NEW busy \in SUBSET Reviews
  PROVE  IsFiniteSet(busy) /\ Cardinality(busy) \in Nat
  BY FS_Subset, FS_CardinalityType, LaneAssumption

\* How many calls a pass starts: no more than the slots, the queue and the
\* tokens allow; and all the tokens allow if slots and reviews are left over.
LEMMA StartingFacts ==
  ASSUME TypeOK, NEW q \in Seq(Reviews), NEW busy \in SUBSET Reviews
  PROVE  LET n == Starting(q, busy)
         IN /\ n \in 0..Len(q)
            /\ n * Rate \in Nat
            /\ n * Rate <= Refilled
            /\ Room(q, busy) => Cardinality(busy) + n <= Width
            /\ ~Room(q, busy) => n = 0 /\ n * Rate = 0
            /\ Short(q, busy, n) => Room(q, busy) /\ Refilled - n * Rate < Rate
  <1> DEFINE n == Starting(q, busy)
             c == Cardinality(busy)
             d == Refilled \div Rate
  <1>1. c \in Nat /\ Len(q) \in Nat /\ Width \in Nat /\ Rate \in Nat /\ Rate > 0
    BY ActiveFacts, FullFacts
  <1>2. Refilled \in Nat
    BY RefilledFacts, FullFacts, SMT
  <1>3. d \in Nat /\ d * Rate <= Refilled /\ Refilled - d * Rate < Rate
    BY <1>1, <1>2, DivFacts
  <1>4. CASE Room(q, busy)
    <2>1. c < Width
      BY <1>4 DEF Room
    <2>2. n = Least(Least(Width - c, Len(q)), d)
      BY <1>4 DEF Starting
    <2> HIDE DEF d, c
    <2>3. n \in 0..Len(q) /\ n <= d /\ c + n <= Width
      BY <1>1, <1>3, <2>1, <2>2, SMT DEF Least
    <2>4. n < Len(q) /\ c + n < Width => n = d
      BY <1>1, <1>3, <2>1, <2>2, SMT DEF Least
    <2> HIDE DEF n
    <2>5. n * Rate <= d * Rate /\ n * Rate \in Nat
      BY <1>1, <1>3, <2>3, MulMono, SMT
    <2>6. d * Rate \in Nat
      BY <1>1, <1>3, SMT
    <2>7. n * Rate <= Refilled
      BY <1>2, <1>3, <2>5, <2>6, SMT
    <2>8. Short(q, busy, n) => n = d
      BY <2>4 DEF Short, c
    <2> QED BY <1>2, <1>3, <1>4, <2>3, <2>5, <2>7, <2>8 DEF n, c
  <1>5. CASE ~Room(q, busy)
    <2>1. n = 0
      BY <1>5 DEF Starting
    <2>2. ~Short(q, busy, 0)
      BY <1>1, <1>5, SMT DEF Short, Room
    <2> HIDE DEF n
    <2> QED BY <1>1, <1>2, <1>5, <2>1, <2>2, SMT DEF n
  <1> QED BY <1>4, <1>5

\* The first n reviews of a queue without repetitions are n reviews.
LEMMA FirstFacts ==
  ASSUME NEW q \in Seq(Reviews), NEW n \in 0..Len(q),
         \A i, j \in 1..Len(q) : q[i] = q[j] => i = j
  PROVE  LET first == First(q, n)
         IN /\ first \in SUBSET Members(q)
            /\ IsFiniteSet(first) /\ Cardinality(first) = n
  <1> DEFINE first == First(q, n)
             f == [i \in 1..n |-> q[i]]
  <1>1. 1..n \subseteq 1..Len(q) /\ n \in Nat
    BY SMT
  <1>2. f \in Bijection(1..n, first)
    BY <1>1 DEF First, Bijection, Injection, Surjection, IsInjective
  <1>3. IsFiniteSet(1..n) /\ Cardinality(1..n) = n
    BY <1>1, FS_Interval, SMT
  <1>4. IsFiniteSet(first) /\ Cardinality(first) = n
    BY <1>2, <1>3, FS_Bijection DEF ExistsBijection
  <1> QED BY <1>1, <1>4 DEF Members, First

\* What a pass keeps.  The queue q has no repetitions, the calls in busy are
\* running and not in q.
DrainAssumptions(q, busy, armed) ==
  /\ TypeOK /\ q \in Seq(Reviews) /\ busy \in SUBSET Active /\ armed \in 0..Rate \cup {None}
  /\ \A i, j \in 1..Len(q) : q[i] = q[j] => i = j
  /\ Members(q) \cap busy = {}

\* A call begins with types of its own.
LEMMA BegunType ==
  ASSUME TypeOK, NEW others
  PROVE  Begun(others) \in Calls
  <1>1. daily \in Nat /\ breaker \in Breakers /\ 0 \in 0..Cooldown /\ (others = {}) \in BOOLEAN
    BY LaneAssumption, SMT DEF TypeOK
  <1>2. CanRequest(breaker) \in Breakers
    BY <1>1 DEF CanRequest, Breakers
  <1>3. [CanRequest(breaker) EXCEPT !.age = 0] \in Breakers
    BY <1>1, <1>2 DEF Breakers
  <1> QED BY <1>1, <1>3 DEF Begun, Calls

\* What a call that begins holds.
LEMMA CallFields ==
  ASSUME NEW p, NEW b, NEW d, NEW a, NEW m
  PROVE  LET c == [phase |-> p, breaker |-> b, daily |-> d, age |-> a, alone |-> m]
         IN c.phase = p /\ c.breaker = b /\ c.daily = d /\ c.alone = m
  OBVIOUS

LEMMA BegunFields ==
  ASSUME NEW others
  PROVE  LET c == Begun(others)
         IN /\ c.phase = IF ~AtLimit(daily) /\ Allowed(breaker) THEN "asking" ELSE "done"
            /\ c.breaker = [CanRequest(breaker) EXCEPT !.age = 0]
            /\ c.daily = daily /\ c.alone = (others = {})
  BY CallFields, Zenon DEF Begun

\* After a pass the running calls are those that ran before, marked as met if
\* others start, and those that start.
LEMMA DrainCalls ==
  ASSUME NEW q, NEW busy, NEW armed, DrainAssumptions(q, busy, armed), Drain(q, busy, armed)
  PROVE  LET n == Starting(q, busy)
             first == First(q, n)
         IN /\ call' \in [Reviews -> Calls \cup {None}]
            /\ Active' = busy \cup first
            /\ first \in SUBSET Reviews /\ first \cap busy = {}
            /\ IsFiniteSet(first) /\ Cardinality(first) = n
            /\ \A r \in first : call'[r] = Begun(busy \cup (first \ {r}))
            /\ \A r \in busy : call'[r] = IF n > 0 THEN [call[r] EXCEPT !.alone = FALSE] ELSE call[r]
  <1> DEFINE n == Starting(q, busy)
             first == First(q, n)
  <1>1. TypeOK /\ q \in Seq(Reviews) /\ busy \in SUBSET Active /\ busy \in SUBSET Reviews
    BY DEF DrainAssumptions, Active
  <1>2. n \in 0..Len(q)
    BY <1>1, StartingFacts
  <1>3. /\ first \in SUBSET Members(q)
        /\ IsFiniteSet(first) /\ Cardinality(first) = n
    BY <1>1, <1>2, FirstFacts DEF DrainAssumptions
  <1>4. Members(q) \in SUBSET Reviews
    BY <1>1 DEF Members, First
  <1>5. first \cap busy = {}
    BY <1>3 DEF DrainAssumptions
  <1> HIDE DEF n
  <1>6. call' = [r \in Reviews |->
                   IF r \in first THEN Begun(busy \cup (first \ {r}))
                   ELSE IF r \notin busy THEN None
                   ELSE IF n > 0 THEN [call[r] EXCEPT !.alone = FALSE] ELSE call[r]]
    BY DEF Drain, n
  <1> HIDE DEF first
  <1>7. \A r \in busy : call[r] \in Calls /\ [call[r] EXCEPT !.alone = FALSE] \in Calls
    <2> TAKE r \in busy
    <2>1. call[r] \in Calls
      BY <1>1 DEF TypeOK, Active
    <2> QED BY <2>1 DEF Calls
  <1>8. \A r \in first : Begun(busy \cup (first \ {r})) \in Calls
    BY <1>1, BegunType
  <1>9. call' \in [Reviews -> Calls \cup {None}]
    BY <1>6, <1>7, <1>8
  <1>10. \A r \in Reviews : call'[r] # None <=> r \in busy \cup first
    BY <1>6, <1>7, <1>8, NoneAssumption
  <1>11. Active' = busy \cup first
    BY <1>1, <1>3, <1>4, <1>10 DEF Active
  <1>12. /\ \A r \in first : call'[r] = Begun(busy \cup (first \ {r}))
         /\ \A r \in busy : call'[r] = IF n > 0 THEN [call[r] EXCEPT !.alone = FALSE] ELSE call[r]
    BY <1>1, <1>3, <1>4, <1>5, <1>6
  <1> QED BY <1>3, <1>4, <1>5, <1>9, <1>11, <1>12 DEF n, first

\* What is left of the queue has no repetitions and none of the calls.
LEMMA DrainQueue ==
  ASSUME NEW q, NEW busy, NEW armed, DrainAssumptions(q, busy, armed), Drain(q, busy, armed)
  PROVE  /\ pending' \in Seq(Reviews) /\ Distinct'
         /\ Len(pending') = Len(q) - Starting(q, busy)
  <1> DEFINE n == Starting(q, busy)
             first == First(q, n)
  <1>1. q \in Seq(Reviews) /\ busy \in SUBSET Reviews /\ TypeOK
    BY DEF DrainAssumptions, Active
  <1>2. n \in 0..Len(q) /\ n \in Nat /\ Len(q) \in Nat
    BY <1>1, StartingFacts, SMT
  <1>3. pending' = SubSeq(q, n + 1, Len(q))
    BY DEF Drain
  <1>4. Active' = busy \cup first
    BY DrainCalls
  <1> HIDE DEF n
  <1>5. /\ pending' \in Seq(Reviews) /\ Len(pending') = Len(q) - n
        /\ \A i \in 1..Len(pending') : pending'[i] = q[i + n]
    BY <1>1, <1>2, <1>3, SMT
  <1>6. \A i \in 1..Len(pending') : i + n \in 1..Len(q) /\ i + n \notin 1..n
    BY <1>2, <1>5, SMT
  <1>7. \A i, j \in 1..Len(q) : q[i] = q[j] => i = j
    BY DEF DrainAssumptions
  <1>8. \A i, j \in 1..Len(pending') : pending'[i] = pending'[j] => i = j
    <2> TAKE i, j \in 1..Len(pending')
    <2> HAVE pending'[i] = pending'[j]
    <2>1. i + n = j + n
      BY <1>5, <1>6, <1>7
    <2> QED BY <1>2, <2>1, SMT
  <1>9. \A i \in 1..Len(pending') : pending'[i] \notin Active'
    <2> TAKE i \in 1..Len(pending')
    <2>1. pending'[i] = q[i + n] /\ i + n \in 1..Len(q) /\ i + n \notin 1..n
      BY <1>5, <1>6
    <2>2. q[i + n] \notin busy
      BY <2>1 DEF DrainAssumptions, Members, First
    <2>3. q[i + n] \notin first
      <3> SUFFICES ASSUME NEW k \in 1..n, q[i + n] = q[k] PROVE FALSE
        BY DEF First
      <3>1. k \in 1..Len(q)
        BY <1>2, SMT
      <3> QED BY <1>7, <2>1, <3>1
    <2> QED BY <1>4, <2>1, <2>2, <2>3
  <1>10. Waiting' \cap Active' = {}
    BY <1>9 DEF Waiting, Members, First
  <1> QED BY <1>5, <1>8, <1>10 DEF Distinct, n

\* The bucket, the resume and what is owed.
LEMMA DrainBucket ==
  ASSUME NEW q, NEW busy, NEW armed, DrainAssumptions(q, busy, armed), Drain(q, busy, armed)
  PROVE  /\ tokens' \in 0..Full /\ since' \in 0..Full /\ timer' \in 0..Rate \cup {None}
         /\ level' \in Nat
         /\ Paid => Paid'
         /\ armed # None \/ Short(q, busy, Starting(q, busy)) => timer' # None
  <1> DEFINE n == Starting(q, busy)
             m == n * Rate
             left == Refilled - m
  <1>1. TypeOK /\ q \in Seq(Reviews) /\ busy \in SUBSET Reviews /\ armed \in 0..Rate \cup {None}
    BY DEF DrainAssumptions, Active
  <1>2. /\ m \in Nat /\ m <= Refilled /\ (~Room(q, busy) => m = 0)
        /\ Short(q, busy, n) => Room(q, busy) /\ left < Rate
    BY <1>1, StartingFacts
  <1>3. Refilled \in 0..Full /\ Full \in Nat /\ Rate \in Nat
    BY <1>1, RefilledFacts, FullFacts
  <1>4. /\ IF Room(q, busy) THEN tokens' = left /\ since' = 0 ELSE UNCHANGED <<tokens, since>>
        /\ timer' = IF armed = None /\ Short(q, busy, n) THEN Rate - left ELSE armed
        /\ level' = level + m
    BY DEF Drain
  <1>5. tokens \in 0..Full /\ since \in 0..Full /\ level \in Nat
    BY <1>1 DEF TypeOK
  <1> HIDE DEF n, m
  <1>6. left \in 0..Full
    BY <1>2, <1>3, SMT
  <1>7. tokens' \in 0..Full /\ since' \in 0..Full /\ level' \in Nat
    BY <1>2, <1>3, <1>4, <1>5, <1>6, SMT
  <1>8. Short(q, busy, n) => Rate - left \in 0..Rate
    BY <1>2, <1>3, <1>6, SMT
  <1>9. timer' \in 0..Rate \cup {None} /\ (armed # None \/ Short(q, busy, n) => timer' # None)
    <2>1. None \notin 0..Rate
      BY NoneAssumption, SMT
    <2> QED BY <1>1, <1>4, <1>8, <2>1
  <1>10. Refilled' = IF Room(q, busy) THEN left ELSE Refilled
    <2>1. CASE Room(q, busy)
      BY <1>3, <1>4, <1>6, <2>1, SMT DEF Refilled, Least
    <2>2. CASE ~Room(q, busy)
      BY <1>4, <2>2 DEF Refilled
    <2> QED BY <2>1, <2>2
  <1>11. Paid => Paid'
    <2>1. Full' = Full
      BY DEF Full
    <2> QED BY <1>2, <1>3, <1>4, <1>5, <1>10, <2>1, SMT DEF Paid
  <1> QED BY <1>7, <1>9, <1>11 DEF n

\* After a pass no review waits for nothing.
LEMMA DrainNoStall ==
  ASSUME NEW q, NEW busy, NEW armed, DrainAssumptions(q, busy, armed), Drain(q, busy, armed)
  PROVE  NoStall'
  <1> DEFINE n == Starting(q, busy)
             first == First(q, n)
             c == Cardinality(busy)
  <1> SUFFICES ASSUME pending' # <<>>, Cardinality(Active') < Width
               PROVE  timer' # None
    BY DEF NoStall
  <1>1. busy \in SUBSET Reviews /\ IsFiniteSet(busy) /\ c \in Nat /\ Len(q) \in Nat /\ n \in Nat
    <2>1. TypeOK /\ q \in Seq(Reviews) /\ busy \in SUBSET Reviews
      BY DEF DrainAssumptions, Active
    <2>2. n \in 0..Len(q)
      BY <2>1, StartingFacts
    <2> QED BY <2>1, <2>2, ActiveFacts, SMT
  <1>2. /\ Active' = busy \cup first /\ first \cap busy = {}
        /\ IsFiniteSet(first) /\ Cardinality(first) = n
    BY DrainCalls
  <1>3. pending' \in Seq(Reviews) /\ Len(pending') = Len(q) - n
    BY DrainQueue
  <1> HIDE DEF first, n
  <1>4. Cardinality(Active') = c + n
    <2>1. busy \cap first = {} /\ Cardinality({}) = 0
      BY <1>2, FS_EmptySet
    <2>2. Cardinality(busy \cup first) = c + n - Cardinality(busy \cap first)
      BY <1>1, <1>2, FS_Union
    <2>3. Cardinality(Active') = Cardinality(busy \cup first) /\ Cardinality(busy \cap first) = 0
      BY <1>2, <2>1
    <2> HIDE DEF c
    <2> QED BY <1>1, <2>2, <2>3, SMT
  <1>5. n < Len(q)
    BY <1>1, <1>3, SMT
  <1>6. Short(q, busy, n)
    BY <1>4, <1>5 DEF Short
  <1> QED BY <1>6, DrainBucket DEF n

-----------------------------------------------------------------------------
(* The invariant *)

\* Every pass of the loop keeps the invariant, whoever calls it.
LEMMA DrainKeeps ==
  ASSUME NEW q, NEW busy, NEW armed, DrainAssumptions(q, busy, armed), Drain(q, busy, armed),
         Inv, UNCHANGED <<breaker, daily, alone>>, asks' \in Nat
  PROVE  Inv'
  <1> DEFINE n == Starting(q, busy)
             first == First(q, n)
  <1>1. TypeOK /\ q \in Seq(Reviews) /\ busy \in SUBSET Active /\ busy \in SUBSET Reviews
    BY DEF DrainAssumptions, Active
  <1>2. TypeOK'
    BY <1>1, DrainCalls, DrainQueue, DrainBucket DEF TypeOK
  <1>3. Distinct' /\ NoStall' /\ Paid'
    BY DrainQueue, DrainNoStall, DrainBucket DEF Inv
  <1>4. /\ Active' = busy \cup first
        /\ first \cap busy = {} /\ IsFiniteSet(first) /\ Cardinality(first) = n
        /\ \A r \in first : call'[r] = Begun(busy \cup (first \ {r}))
        /\ \A r \in busy : call'[r] = IF n > 0 THEN [call[r] EXCEPT !.alone = FALSE] ELSE call[r]
    BY DrainCalls
  <1>5. n \in Nat
    <2>1. n \in 0..Len(q)
      BY <1>1, StartingFacts
    <2>2. Len(q) \in Nat
      BY <1>1
    <2> QED BY <2>1, <2>2, SMT
  <1>6. \A r \in busy : call[r] \in Calls
    BY <1>1 DEF TypeOK, Active
  <1>7. breaker \in Breakers /\ daily \in Nat /\ alone \in Nat /\ DailyLimit \in Nat
    BY <1>1, LaneAssumption DEF TypeOK
  <1>8. Counted /\ Tripped
    BY DEF Inv
  <1> HIDE DEF first, n
  <1>9. n > 0 \/ first = {}
    BY <1>4, <1>5, FS_EmptySet, SMT
  <1>10. Counted'
    <2>1. ASSUME NEW r \in first
          PROVE  /\ call'[r].phase = "asking" => alone <= call'[r].daily /\ call'[r].daily < DailyLimit
                 /\ call'[r].alone => Active' = {r}
      <3>1. call'[r] = Begun(busy \cup (first \ {r}))
        BY <1>4
      <3>2. call'[r].daily = daily /\ call'[r].alone = (busy \cup (first \ {r}) = {})
        <4>1. PICK T : T = busy \cup (first \ {r})
          OBVIOUS
        <4>2. Begun(T).daily = daily /\ Begun(T).alone = (T = {})
          BY BegunFields, Zenon
        <4> QED
          BY <3>1, <4>1, <4>2, Zenon
      <3>3. call'[r].phase = "asking" => ~AtLimit(daily)
        BY <3>1, BegunFields
      <3>4. alone <= daily
        BY <1>8 DEF Counted
      <3>5. ~AtLimit(daily) => daily < DailyLimit
        BY <1>7, SMT DEF AtLimit
      <3>6. call'[r].alone => Active' = {r}
        BY <1>4, <3>2
      <3> QED BY <3>2, <3>3, <3>4, <3>5, <3>6
    <2>2. ASSUME NEW r \in busy
          PROVE  /\ call'[r].phase = "asking" => alone <= call'[r].daily /\ call'[r].daily < DailyLimit
                 /\ call'[r].alone => Active' = {r}
      <3>1. /\ call[r].phase = "asking" => alone <= call[r].daily /\ call[r].daily < DailyLimit
            /\ call[r].alone => Active = {r}
        BY <1>1, <1>8 DEF Counted
      <3>2. CASE n > 0
        <4>1. call'[r] = [call[r] EXCEPT !.alone = FALSE]
          BY <1>4, <3>2
        <4>2. call'[r].phase = call[r].phase /\ call'[r].daily = call[r].daily /\ ~call'[r].alone
          BY <1>6, <4>1 DEF Calls
        <4> QED BY <3>1, <4>2
      <3>3. CASE ~(n > 0)
        <4>1. call'[r] = call[r] /\ Active' = busy
          BY <1>4, <1>9, <3>3
        <4> QED BY <1>1, <3>1, <4>1
      <3> QED BY <3>2, <3>3
    <2>3. alone' = alone /\ daily' = daily
      OBVIOUS
    <2>4. alone' <= daily' /\ alone' <= DailyLimit
      BY <1>8, <2>3 DEF Counted
    <2>5. \A r \in Active' :
            /\ call'[r].phase = "asking" => alone' <= call'[r].daily /\ call'[r].daily < DailyLimit
            /\ call'[r].alone => Active' = {r}
      BY <1>4, <2>1, <2>2, <2>3
    <2> QED BY <2>4, <2>5 DEF Counted
  <1>11. Tripped'
    <2>1. ASSUME NEW r \in first
          PROVE  call'[r].breaker.state # "closed" => call'[r].breaker.failures = Threshold
      <3>1. call'[r].breaker = [CanRequest(breaker) EXCEPT !.age = 0]
        <4>1. call'[r] = Begun(busy \cup (first \ {r}))
          BY <1>4
        <4> QED BY <4>1, BegunFields, Zenon
      <3>2. CanRequest(breaker) \in Breakers
        BY <1>7 DEF CanRequest, Breakers
      <3>3. CanRequest(breaker).state # "closed" => CanRequest(breaker).failures = Threshold
        BY <1>7, <1>8 DEF CanRequest, Tripped, Breakers
      <3> QED BY <3>1, <3>2, <3>3 DEF Breakers
    <2>2. ASSUME NEW r \in busy
          PROVE  call'[r].breaker.state # "closed" => call'[r].breaker.failures = Threshold
      <3>1. call'[r].breaker = call[r].breaker
        <4>1. call[r] \in Calls
          BY <1>6
        <4>2. [call[r] EXCEPT !.alone = FALSE].breaker = call[r].breaker
          BY <4>1 DEF Calls
        <4>3. call'[r] = [call[r] EXCEPT !.alone = FALSE] \/ call'[r] = call[r]
          BY <1>4
        <4> QED BY <4>2, <4>3
      <3> QED BY <1>1, <1>8, <3>1 DEF Tripped
    <2> QED BY <1>4, <1>8, <2>1, <2>2 DEF Tripped
  <1> QED BY <1>2, <1>3, <1>10, <1>11 DEF Inv

\* The lane starts empty, with a full bucket.
LEMMA InitInv == Init => Inv
  <1> SUFFICES ASSUME Init PROVE Inv
    OBVIOUS
  <1> USE DEF Init
  <1>1. Active = {} /\ Waiting = {} /\ Len(pending) = 0
    BY SMT DEF Active, Waiting, Members, First
  <1>2. TypeOK
    <2>1. breaker \in Breakers
      BY LaneAssumption, SMT DEF Breakers
    <2>2. pending \in Seq(Reviews)
      OBVIOUS
    <2>3. tokens \in 0..Full /\ since \in 0..Full
      BY FullFacts, SMT
    <2> QED BY <2>1, <2>2, <2>3 DEF TypeOK
  <1>3. Distinct
    BY <1>1, SMT DEF Distinct
  <1>4. NoStall
    BY DEF NoStall
  <1>5. Paid
    BY FullFacts, SMT DEF Paid, Refilled, Least
  <1>6. Counted /\ Tripped
    BY <1>1, LaneAssumption, SMT DEF Counted, Tripped
  <1> QED BY <1>2, <1>3, <1>4, <1>5, <1>6 DEF Inv

LEMMA AskKeeps ==
  ASSUME Inv, NEW r \in Reviews, Ask(r)
  PROVE  Inv'
  <1> DEFINE q == Append(pending, r)
  <1>1. TypeOK /\ Distinct /\ pending \in Seq(Reviews)
    BY DEF Inv, TypeOK
  <1>2. q \in Seq(Reviews) /\ Len(q) = Len(pending) + 1 /\ Len(pending) \in Nat
        /\ q[Len(pending) + 1] = r /\ \A i \in 1..Len(pending) : q[i] = pending[i]
    BY <1>1
  <1> HIDE DEF q
  <1>3. \A i \in 1..Len(q) : i \in 1..Len(pending) \/ i = Len(pending) + 1
    BY <1>2, SMT
  <1>4. \A i \in 1..Len(pending) : pending[i] # r /\ pending[i] \notin Active
    BY <1>1 DEF Ask, Waiting, Members, First, Distinct
  <1>5. \A i, j \in 1..Len(q) : q[i] = q[j] => i = j
    BY <1>1, <1>2, <1>3, <1>4 DEF Distinct
  <1>6. Members(q) \cap Active = {}
    BY <1>2, <1>3, <1>4 DEF Ask, Members, First
  <1>7. timer \in 0..Rate \cup {None}
    BY <1>1 DEF TypeOK
  <1>8. DrainAssumptions(q, Active, timer)
    BY <1>1, <1>2, <1>5, <1>6, <1>7 DEF DrainAssumptions
  <1>9. Drain(q, Active, timer) /\ UNCHANGED <<breaker, daily, alone>>
    BY DEF Ask, q
  <1>10. asks' \in Nat
    BY <1>1, SMT DEF Ask, TypeOK
  <1> QED BY <1>8, <1>9, <1>10, DrainKeeps

LEMMA EndKeeps ==
  ASSUME Inv, NEW r \in Reviews, End(r)
  PROVE  Inv'
  <1>1. TypeOK /\ Distinct
    BY DEF Inv
  <1>2. DrainAssumptions(pending, Active \ {r}, timer)
    BY <1>1 DEF DrainAssumptions, TypeOK, Distinct, Waiting
  <1>3. Drain(pending, Active \ {r}, timer) /\ UNCHANGED <<breaker, daily, alone>> /\ asks' \in Nat
    BY <1>1 DEF End, TypeOK
  <1> QED BY <1>2, <1>3, DrainKeeps

LEMMA WakeKeeps ==
  ASSUME Inv, Wake
  PROVE  Inv'
  <1>1. TypeOK /\ Distinct
    BY DEF Inv
  <1>2. DrainAssumptions(pending, Active, None)
    BY <1>1 DEF DrainAssumptions, TypeOK, Distinct, Waiting
  <1>3. Drain(pending, Active, None) /\ UNCHANGED <<breaker, daily, alone>> /\ asks' \in Nat
    BY <1>1 DEF Wake, TypeOK
  <1> QED BY <1>2, <1>3, DrainKeeps

\* What the breaker becomes is again a breaker.
LEMMA RecordType ==
  ASSUME NEW b \in Breakers, NEW age \in 0..Cooldown
  PROVE  /\ RecordSuccess \in Breakers
         /\ RecordFailure(b, age) \in Breakers
         /\ RecordFailure(b, age).state # "closed" =>
              RecordFailure(b, age).failures = Threshold \/ b.state # "closed"
         /\ b.state # "closed" /\ b.failures = Threshold =>
              RecordFailure(b, age).state = "open" /\ RecordFailure(b, age).failures = Threshold
  <1>1. Threshold \in Nat /\ Threshold > 0 /\ Cooldown \in Nat
    BY LaneAssumption, SMT
  <1>2. b.failures \in 0..Threshold /\ b.state \in {"closed", "half_open", "open"} /\ b.age \in 0..Cooldown
    BY DEF Breakers
  <1>3. 0 \in 0..Cooldown /\ 0 \in 0..Threshold /\ Threshold \in 0..Threshold
    BY <1>1, SMT
  <1>4. ~(b.failures + 1 >= Threshold) => b.failures + 1 \in 0..Threshold
    BY <1>1, <1>2, SMT
  <1>5. b.failures = Threshold => b.failures + 1 >= Threshold
    BY <1>1, SMT
  <1>6. RecordSuccess \in Breakers
    BY <1>3 DEF RecordSuccess, Breakers
  <1>7. CASE b.failures + 1 >= Threshold
    <2>1. RecordFailure(b, age) = [state |-> "open", failures |-> Threshold, age |-> age]
      BY <1>7 DEF RecordFailure
    <2> QED BY <1>3, <1>6, <2>1 DEF Breakers
  <1>8. CASE ~(b.failures + 1 >= Threshold)
    <2>1. RecordFailure(b, age) =
            [state |-> IF b.state = "half_open" THEN "open" ELSE b.state,
             failures |-> b.failures + 1, age |-> IF b.state = "half_open" THEN age ELSE b.age]
      BY <1>8 DEF RecordFailure
    <2> QED BY <1>2, <1>4, <1>5, <1>6, <1>8, <2>1 DEF Breakers
  <1> QED BY <1>7, <1>8

\* A call that settles changes its phase only.
LEMMA SettleCalls ==
  ASSUME TypeOK, NEW r \in Reviews, Settle(r)
  PROVE  /\ call' \in [Reviews -> Calls \cup {None}] /\ Active' = Active /\ r \in Active
         /\ call[r] \in Calls /\ call'[r].phase = "done"
         /\ call'[r].breaker = call[r].breaker /\ call'[r].alone = call[r].alone
         /\ \A t \in Reviews : t # r => call'[t] = call[t]
  <1>1. call \in [Reviews -> Calls \cup {None}] /\ call[r] # None
    BY DEF TypeOK, Settle
  <1>2. call[r] \in Calls /\ call' = [call EXCEPT ![r].phase = "done"]
    BY <1>1 DEF Settle
  <1> DEFINE c == [call[r] EXCEPT !.phase = "done"]
  <1>3. c \in Calls /\ c.phase = "done" /\ c.breaker = call[r].breaker /\ c.alone = call[r].alone
    BY <1>2 DEF Calls
  <1>4. call' = [call EXCEPT ![r] = c]
    BY <1>2
  <1> HIDE DEF c
  <1>5. call'[r] = c /\ (\A t \in Reviews : t # r => call'[t] = call[t])
        /\ call' \in [Reviews -> Calls \cup {None}]
    BY <1>1, <1>3, <1>4
  <1>6. Active' = Active /\ r \in Active
    BY <1>1, <1>3, <1>5, NoneAssumption DEF Active
  <1> QED BY <1>2, <1>3, <1>5, <1>6

\* A call that settles leaves the queue alone and counts at most itself.
LEMMA SettleKeeps ==
  ASSUME Inv, NEW r \in Reviews, Settle(r)
  PROVE  Inv'
  <1>1. TypeOK /\ Distinct /\ NoStall /\ Paid /\ Counted /\ Tripped
    BY DEF Inv
  <1>2. /\ call' \in [Reviews -> Calls \cup {None}] /\ Active' = Active /\ r \in Active
        /\ call[r] \in Calls /\ call'[r].phase = "done"
        /\ call'[r].breaker = call[r].breaker /\ call'[r].alone = call[r].alone
        /\ \A t \in Reviews : t # r => call'[t] = call[t]
    BY <1>1, SettleCalls
  <1>3. UNCHANGED <<pending, tokens, since, timer, asks, level>> /\ call[r].phase = "asking"
    BY DEF Settle
  <1>4. call[r].breaker \in Breakers /\ call[r].daily \in Nat /\ call[r].age \in 0..Cooldown
    BY <1>2 DEF Calls
  <1>5. /\ alone <= call[r].daily /\ call[r].daily < DailyLimit
        /\ call[r].alone => Active = {r}
        /\ call[r].breaker.state # "closed" => call[r].breaker.failures = Threshold
        /\ alone <= daily /\ alone <= DailyLimit
    BY <1>1, <1>2, <1>3 DEF Counted, Tripped
  <1>6. alone \in Nat /\ daily \in Nat /\ DailyLimit \in Nat
    BY <1>1, LaneAssumption DEF TypeOK
  <1>7. \/ /\ breaker' = RecordSuccess /\ daily' = call[r].daily + 1
           /\ alone' = IF call[r].alone THEN alone + 1 ELSE alone
        \/ /\ breaker' = RecordFailure(call[r].breaker, call[r].age)
           /\ daily' = call[r].daily /\ alone' = alone
    BY DEF Settle
  <1>8. /\ breaker' \in Breakers
        /\ breaker'.state # "closed" => breaker'.failures = Threshold
    <2>1. RecordSuccess.state = "closed"
      BY DEF RecordSuccess
    <2> QED BY <1>4, <1>5, <1>7, <2>1, RecordType
  <1>9. /\ alone' \in Nat /\ daily' \in Nat /\ alone' <= daily' /\ alone' <= DailyLimit
        /\ alone' = alone \/ call[r].alone
    BY <1>4, <1>5, <1>6, <1>7, SMT
  <1>10. TypeOK'
    <2>1. Full' = Full
      BY DEF Full
    <2> QED BY <1>1, <1>2, <1>3, <1>8, <1>9, <2>1 DEF TypeOK
  <1>11. Distinct'
    BY <1>1, <1>2, <1>3 DEF Distinct, Waiting
  <1>12. NoStall'
    BY <1>1, <1>2, <1>3 DEF NoStall
  <1>13. Paid'
    BY <1>1, <1>3 DEF Paid, Refilled, Full
  <1>14. Counted'
    <2>1. ASSUME NEW t \in Active
          PROVE  /\ call'[t].phase = "asking" => alone' <= call'[t].daily /\ call'[t].daily < DailyLimit
                 /\ call'[t].alone => Active = {t}
      <3>1. CASE t = r
        BY <1>2, <1>5, <3>1
      <3>2. CASE t # r
        <4>1. t \in Reviews /\ call'[t] = call[t] /\ alone' = alone
          BY <1>2, <1>5, <1>9, <3>2 DEF Active
        <4> QED BY <1>1, <4>1 DEF Counted
      <3> QED BY <3>1, <3>2
    <2> QED BY <1>2, <1>9, <2>1 DEF Counted
  <1>15. Tripped'
    <2>1. ASSUME NEW t \in Active
          PROVE  call'[t].breaker.state # "closed" => call'[t].breaker.failures = Threshold
      <3>1. t \in Reviews /\ call'[t].breaker = call[t].breaker
        BY <1>2 DEF Active
      <3> QED BY <1>1, <3>1 DEF Tripped
    <2> QED BY <1>2, <1>8, <2>1 DEF Tripped
  <1> QED BY <1>10, <1>11, <1>12, <1>13, <1>14, <1>15 DEF Inv

\* Time pays for a dispatch what it gives to the bucket.
LEMMA TickKeeps ==
  ASSUME Inv, Tick
  PROVE  Inv'
  <1>1. TypeOK /\ Distinct /\ NoStall /\ Paid /\ Counted /\ Tripped
    BY DEF Inv
  <1>2. Full \in Nat /\ Cooldown \in Nat /\ Rate \in Nat
    BY FullFacts, LaneAssumption
  <1>3. /\ since' = Least(since + 1, Full)
        /\ timer' = IF timer = None \/ timer = 0 THEN timer ELSE timer - 1
        /\ level' = IF level = 0 THEN 0 ELSE level - 1
        /\ UNCHANGED <<pending, tokens, daily, asks, alone>>
    BY DEF Tick
  <1>4. tokens \in 0..Full /\ since \in 0..Full /\ level \in Nat /\ timer \in 0..Rate \cup {None}
    BY <1>1 DEF TypeOK
  <1>5. since' \in 0..Full /\ level' \in Nat
    BY <1>2, <1>3, <1>4, SMT DEF Least
  <1>6. timer' \in 0..Rate \cup {None} /\ (timer # None => timer' # None)
    <2>1. CASE timer = None \/ timer = 0
      BY <1>3, <1>4, <2>1
    <2>2. CASE timer # None /\ timer # 0
      <3>1. timer - 1 \in 0..Rate
        BY <1>2, <1>4, <2>2, SMT
      <3>2. None \notin 0..Rate
        BY NoneAssumption, SMT
      <3> QED BY <1>3, <2>2, <3>1, <3>2
    <2> QED BY <2>1, <2>2
  <1>7. Paid'
    <2>1. Full' = Full
      BY DEF Full
    <2> QED BY <1>1, <1>2, <1>3, <1>4, <1>5, <2>1, SMT DEF Paid, Refilled, Least
  <1>8. \A r \in Active : call[r] \in Calls
    BY <1>1 DEF TypeOK, Active
  <1>9. call' = [r \in Reviews |->
                   IF call[r] = None THEN None
                   ELSE [call[r] EXCEPT !.age = Least(@ + 1, Cooldown)]]
    BY DEF Tick
  <1>10. ASSUME NEW r \in Active
         PROVE  /\ call'[r] \in Calls /\ call'[r].phase = call[r].phase
                /\ call'[r].breaker = call[r].breaker /\ call'[r].daily = call[r].daily
                /\ call'[r].alone = call[r].alone
    <2>1. call[r] \in Calls /\ call[r].age \in 0..Cooldown
      BY <1>8 DEF Calls
    <2>2. Least(call[r].age + 1, Cooldown) \in 0..Cooldown
      BY <1>2, <2>1, SMT DEF Least
    <2>3. call'[r] = [call[r] EXCEPT !.age = Least(call[r].age + 1, Cooldown)]
      BY <1>9 DEF Active
    <2> QED BY <2>1, <2>2, <2>3 DEF Calls
  <1>11. call' \in [Reviews -> Calls \cup {None}] /\ Active' = Active
    <2>1. \A r \in Reviews : r \notin Active => call'[r] = None
      BY <1>9 DEF Active
    <2>2. \A r \in Reviews : call'[r] \in Calls \cup {None}
      BY <1>10, <2>1
    <2>3. \A r \in Reviews : call'[r] # None <=> r \in Active
      BY <1>10, <2>1, NoneAssumption
    <2>4. Active' = {r \in Reviews : call'[r] # None}
      BY DEF Active
    <2>5. Active \subseteq Reviews
      BY DEF Active
    <2>6. Active' = Active
      BY <2>3, <2>4, <2>5
    <2> QED BY <1>9, <2>2, <2>6
  <1>12. breaker' \in Breakers /\ breaker'.state = breaker.state /\ breaker'.failures = breaker.failures
    <2>1. breaker \in Breakers /\ breaker.age \in 0..Cooldown
      BY <1>1 DEF TypeOK, Breakers
    <2>2. Least(breaker.age + 1, Cooldown) \in 0..Cooldown
      BY <1>2, <2>1, SMT DEF Least
    <2>3. breaker' = IF breaker.state = "open"
                     THEN [breaker EXCEPT !.age = Least(breaker.age + 1, Cooldown)] ELSE breaker
      BY DEF Tick
    <2> QED BY <2>1, <2>2, <2>3 DEF Breakers
  <1>13. TypeOK'
    <2>1. Full' = Full
      BY DEF Full
    <2> QED BY <1>1, <1>3, <1>4, <1>5, <1>6, <1>11, <1>12, <2>1 DEF TypeOK
  <1>14. Distinct' /\ NoStall'
    BY <1>1, <1>3, <1>6, <1>11 DEF Distinct, Waiting, NoStall
  <1>15. Counted'
    BY <1>1, <1>3, <1>10, <1>11 DEF Counted
  <1>16. Tripped'
    BY <1>1, <1>10, <1>11, <1>12 DEF Tripped
  <1> QED BY <1>7, <1>13, <1>14, <1>15, <1>16 DEF Inv

\* The invariant holds of every state of the lane.
LEMMA InvHolds == Spec => []Inv
  <1>1. Inv /\ [Next]_vars => Inv'
    <2> SUFFICES ASSUME Inv, [Next]_vars PROVE Inv'
      OBVIOUS
    <2>1. ASSUME NEW r \in Reviews, Ask(r) PROVE Inv'
      BY <2>1, AskKeeps
    <2>2. ASSUME NEW r \in Reviews, Settle(r) PROVE Inv'
      BY <2>2, SettleKeeps
    <2>3. ASSUME NEW r \in Reviews, End(r) PROVE Inv'
      BY <2>3, EndKeeps
    <2>4. CASE Wake
      BY <2>4, WakeKeeps
    <2>5. CASE Tick
      BY <2>5, TickKeeps
    <2>6. CASE UNCHANGED vars
      BY <2>6 DEF Inv, vars, TypeOK, Distinct, NoStall, Paid, Counted, Tripped, Active, Waiting,
                  Refilled, Full
    <2> QED BY <2>1, <2>2, <2>3, <2>4, <2>5, <2>6 DEF Next
  <1> QED BY <1>1, InitInv, PTL DEF Spec

-----------------------------------------------------------------------------
(* Theorems *)

\* The variables keep their types: the bucket stays within its capacity and the
\* resume within a token's time (drainDecodeQueue).
THEOREM TypeCorrect == Spec => []TypeOK
  <1>1. Inv => TypeOK
    BY DEF Inv
  <1> QED BY <1>1, InvHolds, PTL

\* For every width, rate and burst, a review that waits while a slot is free has
\* a resume armed (drainDecodeQueue, enqueueDecode).
THEOREM NeverStalls == Spec => []NoStall
  <1>1. Inv => NoStall
    BY DEF Inv
  <1> QED BY <1>1, InvHolds, PTL

\* The lane never starts more than the burst and a token's worth of calls per
\* refill (GENERAL_DECODE_RATE_PER_SEC).
THEOREM KeepsTheRate == Spec => []RateKept
  <1>1. Inv => RateKept
    <2> SUFFICES ASSUME Inv PROVE RateKept
      OBVIOUS
    <2>1. TypeOK /\ Paid /\ level \in Nat
      BY DEF Inv, TypeOK
    <2>2. Refilled \in 0..Full /\ Full \in Nat
      BY <2>1, RefilledFacts, FullFacts
    <2> QED BY <2>1, <2>2, SMT DEF Paid, RateKept
  <1> QED BY <1>1, InvHolds, PTL

\* Lookups that no other one overlaps never pass the limit of the day.
THEOREM LimitHoldsAlone == Spec => []AloneWithinLimit
  <1>1. Inv => AloneWithinLimit
    BY DEF Inv, Counted, AloneWithinLimit
  <1> QED BY <1>1, InvHolds, PTL

\* No failed trial closes an open breaker, for every threshold and cooldown
\* (recordFailure, canRequest).
THEOREM OpenBreakerStands == Spec => OpenStands
  <1> DEFINE Closed == /\ breaker.state = "open" /\ breaker'.state # "open"
             Rightly == \/ breaker' = RecordSuccess
                        \/ \E r \in Active : /\ call[r].phase = "asking" /\ call'[r].phase = "done"
                                             /\ call[r].breaker.state = "closed"
  <1>1. Inv /\ [Next]_vars => [Closed => Rightly]_vars
    <2> SUFFICES ASSUME Inv, Next, Closed PROVE Rightly
      OBVIOUS
    <2>1. TypeOK /\ Tripped
      BY DEF Inv
    <2>2. PICK r \in Reviews : Settle(r)
      <3>1. ~Tick
        BY <2>1 DEF Tick, TypeOK, Breakers
      <3>2. ~Wake /\ \A r \in Reviews : ~Ask(r) /\ ~End(r)
        BY DEF Wake, Ask, End
      <3> QED BY <3>1, <3>2 DEF Next
    <2>3. call[r] \in Calls /\ r \in Active /\ call'[r].phase = "done"
      BY <2>1, <2>2, SettleCalls
    <2>4. call[r].breaker \in Breakers /\ call[r].age \in 0..Cooldown /\ call[r].phase = "asking"
      BY <2>2, <2>3 DEF Calls, Settle
    <2>5. call[r].breaker.state # "closed" => call[r].breaker.failures = Threshold
      BY <2>1, <2>3 DEF Tripped
    <2>6. breaker' = RecordSuccess \/ breaker' = RecordFailure(call[r].breaker, call[r].age)
      BY <2>2 DEF Settle
    <2>7. breaker' = RecordFailure(call[r].breaker, call[r].age) => call[r].breaker.state = "closed"
      BY <2>4, <2>5, RecordType
    <2> QED BY <2>3, <2>4, <2>6, <2>7
  <1> QED BY <1>1, InvHolds, PTL DEF Spec, OpenStands
=============================================================================
