-------------------------- MODULE SpendGuardProofs --------------------------
(***************************************************************************)
(* The limits on paid decodes for every number of requests, instances and  *)
(* days, and every limit and cost: types, the caps of calls, the counter   *)
(* that starves nobody, and the bound of the money a day can overshoot.    *)
(***************************************************************************)
EXTENDS SpendGuard, FiniteSetTheorems, TLAPS

\* A request holds a call of a day that has come, from its charge on.
Held ==
  \A r \in Requests :
    /\ charged[r] # None => charged[r] <= today
    /\ pc[r] \in {"new", "cache", "join", "budget", "global"} => charged[r] = None
    /\ pc[r] \in {"account", "refund"} => charged[r] # None
    /\ pc[r] = "refund" => ~ask[r].god

OfAccount(a, d) == {r \in Tenants(accounted, d) : Account(r) = a}

\* The counters cover the calls they have granted.
Covered ==
  \A d \in Days :
    /\ Cardinality(Tenants(charged, d)) <= used[d] + strayed[d]
    /\ \A a \in Accounts : Cardinality(OfAccount(a, d)) <= usedBy[a][d]

\* A bill has a date from its call until it is settled, and no later than today.
Dated ==
  \A r \in Requests :
    /\ pc[r] \in {"record", "again"} <=> dated[r] # None
    /\ dated[r] # None => dated[r] <= today

\* What a day has recorded, and at worst will have by the calls that may still
\* be billed to it, is within what it may cost; a day to come has nothing.
Ahead ==
  \A d \in Days :
    /\ spent[d] + WorstCase * Cardinality(Owing(d)) <= BudgetCap + WorstCase * beside + excused
    /\ d > today => spent[d] = 0

Inv ==
  TypeOK /\ Held /\ Dated /\ Covered /\ CapsKept /\ NothingStarved /\ Ahead /\ OvershootBounded

-----------------------------------------------------------------------------
(* Constants *)

LEMMA Limits ==
  /\ DailyLimit \in Nat /\ Backstop \in Nat /\ AccountLimit \in Nat /\ BudgetCap \in Nat
  /\ WorstCase \in Nat /\ LastDay \in Nat /\ MaxFaults \in Nat
  BY LimitsAssumption

LEMMA CostsFacts == \A c \in Costs \cup {0} : c \in Nat /\ c <= WorstCase
  BY Limits, CostsAssumption, SMT

LEMMA DaysFacts == 0 \in Days /\ Days \subseteq Nat /\ None \notin Days
  BY Limits, NoneAssumption, SMT DEF Days

\* The larger of two numbers.
LEMMA MaxFacts ==
  ASSUME NEW a \in Nat, NEW b \in Nat
  PROVE  Max({a, b}) \in Nat /\ a <= Max({a, b}) /\ b <= Max({a, b})
  <1>1. \E x \in {a, b} : \A y \in {a, b} : x >= y
    <2>1. CASE a >= b
      BY <2>1, SMT
    <2>2. CASE ~(a >= b)
      BY <2>2, SMT
    <2> QED BY <2>1, <2>2
  <1>2. Max({a, b}) \in {a, b} /\ \A y \in {a, b} : Max({a, b}) >= y
    BY <1>1 DEF Max
  <1> QED BY <1>2, SMT

LEMMA Some ==
  ASSUME NEW S \in SUBSET Requests
  PROVE  IsFiniteSet(S) /\ Cardinality(S) \in Nat
  BY RequestsAssumption, FS_Subset, FS_CardinalityType

\* Fewer requests are no more.
LEMMA Fewer ==
  ASSUME NEW S \in SUBSET Requests, NEW T \in SUBSET S
  PROVE  Cardinality(T) <= Cardinality(S)
  BY Some, FS_Subset

-----------------------------------------------------------------------------
(* Types *)

\* What a request asks does not change.
LEMMA AskFacts ==
  ASSUME TypeOK, NEW r \in Requests
  PROVE  /\ At(r) \in Instances /\ Code(r) \in Codes
         /\ ask[r].god \in BOOLEAN /\ ask \in Mixes
  BY MixesAssumption DEF TypeOK, At, Code, Instances, Codes

LEMMA FaultyType ==
  ASSUME TypeOK, NEW trip, Faulty(trip)
  PROVE  faults' \in 0..MaxFaults
  BY Limits, SMT DEF TypeOK, Faulty

\* The outcome of a computation reaches those who wait; all of them end.
LEMMA SettlesFacts ==
  ASSUME TypeOK, NEW r \in Requests, NEW how \in Outcomes, Settles(r, how)
  PROVE  /\ pc' \in [Requests -> Places] /\ out' \in [Requests -> Outcomes]
         /\ running' \in [Instances -> [Codes -> Requests \cup {None}]]
         /\ \A q \in Requests : pc'[q] = pc[q] \/ pc'[q] \in {"end", "keep"}
         /\ pc'[r] \in {"end", "keep"}
         /\ \A q \in Requests : q = r \/ pc'[q] = pc[q] \/ (pc[q] = "join" /\ pc'[q] = "end")
  <1>1. pc' \in [Requests -> Places]
    BY DEF Settles, Places, TypeOK
  <1>2. out' \in [Requests -> Outcomes]
    BY DEF Settles, TypeOK
  <1>3. At(r) \in Instances /\ Code(r) \in Codes
    BY AskFacts
  <1>4. running' \in [Instances -> [Codes -> Requests \cup {None}]]
    BY <1>3 DEF Settles, TypeOK
  <1>5. \A q \in Requests : pc'[q] = pc[q] \/ pc'[q] \in {"end", "keep"}
    BY DEF Settles
  <1>6. pc'[r] \in {"end", "keep"}
    BY DEF Settles
  <1>7. \A q \in Requests : q = r \/ pc'[q] = pc[q] \/ (pc[q] = "join" /\ pc'[q] = "end")
    BY DEF Settles, Joined
  <1> QED BY <1>1, <1>2, <1>4, <1>5, <1>6, <1>7

LEMMA ToType ==
  ASSUME TypeOK, NEW r \in Requests, NEW place \in Places, To(r, place)
  PROVE  pc' \in [Requests -> Places]
  BY DEF TypeOK, To

LEMMA InitInv == Init => Inv
  <1> SUFFICES ASSUME Init PROVE Inv
    OBVIOUS
  <1>1. TypeOK
    BY DaysFacts, Limits, SMT DEF Init, TypeOK, Places, Outcomes
  <1>2. Held
    BY SMT DEF Init, Held
  <1>3. \A d \in Days : Tenants(charged, d) = {} /\ Tenants(accounted, d) = {}
    BY DaysFacts DEF Init, Tenants
  <1>4. \A d \in Days : Owing(d) = {}
    BY DEF Init, Owing, UnderWay
  <1>5. Cardinality({}) = 0
    BY FS_EmptySet
  <1>6. \A d \in Days : used[d] = 0 /\ strayed[d] = 0 /\ spent[d] = 0
    BY DEF Init
  <1>7. \A d \in Days : \A a \in Accounts : OfAccount(a, d) = {} /\ usedBy[a][d] = 0
    BY <1>3 DEF Init, OfAccount
  <1>8. Covered
    <2>1. \A d \in Days : Cardinality(Tenants(charged, d)) <= used[d] + strayed[d]
      BY <1>3, <1>5, <1>6, SMT
    <2>2. \A d \in Days : \A a \in Accounts : Cardinality(OfAccount(a, d)) <= usedBy[a][d]
      BY <1>5, <1>7, SMT
    <2> QED BY <2>1, <2>2 DEF Covered
  <1>9. CapsKept
    <2>1. \A a : \A d \in Days : {r \in Tenants(accounted, d) : Account(r) = a} = {}
      BY <1>3
    <2>2. \A m \in Nat : 0 <= m + 0
      BY SMT
    <2> DEFINE m == Max({Backstop, DailyLimit})
    <2>5. 0 <= m + 0
      BY <2>2, Limits, MaxFacts
    <2>3. \A d \in Days :
            Cardinality(Tenants(charged, d)) <= Max({Backstop, DailyLimit}) + strayed[d]
      BY <1>3, <1>5, <1>6, <2>5, Zenon
    <2>4. \A d \in Days : \A a \in Accounts :
            Cardinality({r \in Tenants(accounted, d) : Account(r) = a}) <= AccountLimit
      BY <1>5, <2>1, Limits, SMT
    <2> QED BY <2>3, <2>4 DEF CapsKept
  <1>10. NothingStarved
    <2>1. {r \in Requests : charged[r] = 0} = {}
      BY DaysFacts DEF Init
    <2> QED BY <1>5, <1>6, <2>1, DaysFacts DEF NothingStarved
  <1>11. beside = 0 /\ excused = 0
    BY DEF Init
  <1>12. Ahead
    <2>1. WorstCase * 0 = 0 /\ 0 + WorstCase * 0 <= BudgetCap + WorstCase * 0 + 0
      BY Limits, SMT
    <2>2. \A d \in Days : Cardinality(Owing(d)) = 0
      BY <1>4, <1>5
    <2> QED BY <1>6, <1>11, <2>1, <2>2 DEF Ahead
  <1>13. OvershootBounded
    BY <1>6, <1>11, Limits, SMT DEF OvershootBounded
  <1>14. Dated
    BY DEF Init, Dated
  <1> QED BY <1>1, <1>2, <1>14, <1>8, <1>9, <1>10, <1>12, <1>13 DEF Inv

-----------------------------------------------------------------------------
(* What a step leaves alone *)

\* The owner and the accounts stay who they are.
LEMMA SameTenants ==
  ASSUME UNCHANGED ask
  PROVE  /\ \A r : Account(r)' = Account(r)
         /\ UNCHANGED charged => \A d : Tenants(charged, d)' = Tenants(charged, d)
         /\ UNCHANGED accounted => \A d : Tenants(accounted, d)' = Tenants(accounted, d)
         /\ UNCHANGED accounted => \A a, d : OfAccount(a, d)' = OfAccount(a, d)
  <1>1. \A r : Account(r)' = Account(r)
    BY DEF Account
  <1>2. UNCHANGED charged => \A d : Tenants(charged, d)' = Tenants(charged, d)
    BY DEF Tenants
  <1>3. UNCHANGED accounted => \A d : Tenants(accounted, d)' = Tenants(accounted, d)
    BY DEF Tenants
  <1>4. UNCHANGED accounted => \A a, d : OfAccount(a, d)' = OfAccount(a, d)
    BY <1>1, <1>3 DEF OfAccount
  <1> QED BY <1>1, <1>2, <1>3, <1>4

\* The accounts' side of the invariant.
AccountsCovered ==
  \A d \in Days : \A a \in Accounts : Cardinality(OfAccount(a, d)) <= usedBy[a][d]
AccountsCapped ==
  \A d \in Days : \A a \in Accounts : Cardinality(OfAccount(a, d)) <= AccountLimit

\* The day's side.
DayCovered == \A d \in Days : Cardinality(Tenants(charged, d)) <= used[d] + strayed[d]
DayCapped ==
  \A d \in Days : Cardinality(Tenants(charged, d)) <= Max({Backstop, DailyLimit}) + strayed[d]

LEMMA Sides ==
  /\ Covered <=> DayCovered /\ AccountsCovered
  /\ CapsKept <=> DayCapped /\ AccountsCapped
  BY DEF Covered, CapsKept, DayCovered, AccountsCovered, DayCapped, AccountsCapped, OfAccount

LEMMA SidesNext ==
  /\ Covered' <=> DayCovered' /\ AccountsCovered'
  /\ CapsKept' <=> DayCapped' /\ AccountsCapped'
  BY DEF Covered, CapsKept, DayCovered, AccountsCovered, DayCapped, AccountsCapped, OfAccount

LEMMA SameAccounts ==
  ASSUME AccountsCovered, AccountsCapped, UNCHANGED <<ask, accounted, usedBy>>
  PROVE  AccountsCovered' /\ AccountsCapped'
  <1>1. \A a, d : OfAccount(a, d)' = OfAccount(a, d)
    BY SameTenants
  <1> QED BY <1>1 DEF AccountsCovered, AccountsCapped

LEMMA SameDay ==
  ASSUME DayCovered, DayCapped, UNCHANGED <<ask, charged, used, strayed>>
  PROVE  DayCovered' /\ DayCapped'
  <1>1. \A d : Tenants(charged, d)' = Tenants(charged, d)
    BY SameTenants
  <1> QED BY <1>1 DEF DayCovered, DayCapped

LEMMA SameStarved ==
  ASSUME TypeOK, TypeOK', NothingStarved, UNCHANGED <<charged, used>>,
         faults' = faults \/ faults' = faults + 1, today' = today \/ today' = today + 1
  PROVE  NothingStarved'
  <1>1. faults \in Nat /\ today \in Nat
    BY Limits, DaysFacts, SMT DEF TypeOK
  <1>2. faults' = 0 /\ today' = 0 => faults = 0 /\ today = 0
    BY <1>1, SMT
  <1> QED BY <1>2 DEF NothingStarved

\* Nothing is charged.
LEMMA SameCharges ==
  ASSUME Inv, TypeOK', UNCHANGED <<ask, charged, accounted, used, usedBy, strayed>>,
         faults' = faults \/ faults' = faults + 1, today' = today \/ today' = today + 1
  PROVE  Covered' /\ CapsKept' /\ NothingStarved'
  BY Sides, SidesNext, SameAccounts, SameDay, SameStarved DEF Inv

\* A request that moves on without charging or refunding.
LEMMA SameHolds ==
  ASSUME Inv, UNCHANGED <<ask, charged>>, today' = today \/ today' = today + 1,
         \A q \in Requests : \/ pc'[q] = pc[q]
                             \/ pc'[q] \in {"end", "keep", "call", "record", "again"}
                             \/ (charged[q] = None /\ pc'[q] \notin {"account", "refund"})
                             \/ (pc[q] = "account" /\ pc'[q] = "refund" /\ ~ask[q].god)
  PROVE  Held'
  <1> SUFFICES ASSUME NEW q \in Requests
               PROVE  /\ charged'[q] # None => charged'[q] <= today'
                      /\ pc'[q] \in {"new", "cache", "join", "budget", "global"}
                           => charged'[q] = None
                      /\ pc'[q] \in {"account", "refund"} => charged'[q] # None
                      /\ pc'[q] = "refund" => ~ask'[q].god
    BY DEF Held
  <1>1. /\ charged[q] # None => charged[q] <= today
        /\ pc[q] \in {"new", "cache", "join", "budget", "global"} => charged[q] = None
        /\ pc[q] \in {"account", "refund"} => charged[q] # None
        /\ pc[q] = "refund" => ~ask[q].god
    BY DEF Inv, Held
  <1>2. charged'[q] # None => charged'[q] <= today'
    <2>1. today \in Nat /\ charged[q] \in Nat \cup {None}
      BY DaysFacts DEF Inv, TypeOK
    <2> QED BY <1>1, <2>1, SMT
  <1> QED BY <1>1, <1>2

LEMMA MulMono ==
  ASSUME NEW a \in Nat, NEW b \in Nat, NEW c \in Nat, b <= c
  PROVE  a * b \in Nat /\ a * c \in Nat /\ a * b <= a * c
  BY SMT

LEMMA MulOne ==
  ASSUME NEW a \in Nat, NEW b \in Nat
  PROVE  a * (b + 1) = a * b + a /\ a * b \in Nat
  BY SMT

LEMMA MoneyTypes ==
  ASSUME Inv
  PROVE  beside \in Nat /\ excused \in Nat /\ beside <= beside /\ excused <= excused
  <1>1. beside \in Nat /\ excused \in Nat
    BY DEF Inv, TypeOK
  <1> QED BY <1>1, SMT

\* The bill that a request has, or has not, stays the same.
LEMMA SameDated ==
  ASSUME Inv, UNCHANGED dated, today' = today \/ today' = today + 1,
         \A q \in Requests :
           pc'[q] \in {"record", "again"} <=> pc[q] \in {"record", "again"}
  PROVE  Dated'
  <1> SUFFICES ASSUME NEW q \in Requests
               PROVE  /\ pc'[q] \in {"record", "again"} <=> dated[q] # None
                      /\ dated[q] # None => dated[q] <= today'
    BY DEF Dated
  <1>1. /\ pc[q] \in {"record", "again"} <=> dated[q] # None
        /\ dated[q] # None => dated[q] <= today
    BY DEF Inv, Dated
  <1>2. today \in Nat /\ dated[q] \in Nat \cup {None}
    BY DaysFacts DEF Inv, TypeOK
  <1>3. dated[q] # None => dated[q] <= today'
    BY <1>1, <1>2, SMT
  <1> QED BY <1>1, <1>3

LEMMA OwingRequests == \A d : Owing(d) \subseteq Requests /\ Owing(d)' \subseteq Requests
  BY DEF Owing

\* Nothing is recorded and no more may be billed to any day.
LEMMA FewerOwing ==
  ASSUME Inv, TypeOK', UNCHANGED spent,
         beside <= beside', excused <= excused',
         today' = today \/ today' = today + 1,
         \A d \in Days : Owing(d)' \subseteq Owing(d)
  PROVE  Ahead' /\ OvershootBounded'
  <1>1. beside \in Nat /\ excused \in Nat /\ today \in Nat /\ beside' \in Nat /\ excused' \in Nat
    BY DaysFacts DEF Inv, TypeOK
  <1>2. WorstCase * beside \in Nat /\ WorstCase * beside' \in Nat
        /\ WorstCase * beside <= WorstCase * beside'
    BY <1>1, MulMono, Limits
  <1>3. ASSUME NEW d \in Days
        PROVE  /\ spent[d] + WorstCase * Cardinality(Owing(d)')
                    <= BudgetCap + WorstCase * beside' + excused'
               /\ d > today' => spent[d] = 0
               /\ spent[d] <= BudgetCap + WorstCase * beside' + excused'
    <2>1. Cardinality(Owing(d)') \in Nat /\ Cardinality(Owing(d)) \in Nat
          /\ Cardinality(Owing(d)') <= Cardinality(Owing(d))
      BY OwingRequests, Some, Fewer
    <2>2. WorstCase * Cardinality(Owing(d)') <= WorstCase * Cardinality(Owing(d))
          /\ WorstCase * Cardinality(Owing(d)') \in Nat /\ WorstCase * Cardinality(Owing(d)) \in Nat
      BY <2>1, MulMono, Limits
    <2>3. d \in Nat /\ spent[d] \in Nat
      BY DaysFacts DEF Inv, TypeOK
    <2>4. /\ spent[d] + WorstCase * Cardinality(Owing(d))
               <= BudgetCap + WorstCase * beside + excused
          /\ d > today => spent[d] = 0
      BY DEF Inv, Ahead
    <2>5. d > today' => d > today
      BY <1>1, <2>3, SMT
    <2>6. PICK b \in Nat, a \in Nat :
            /\ b = WorstCase * Cardinality(Owing(d)) /\ a = WorstCase * Cardinality(Owing(d)')
            /\ a <= b
      BY <2>2
    <2>7. PICK v \in Nat, w \in Nat : v = WorstCase * beside /\ w = WorstCase * beside' /\ v <= w
      BY <1>2
    <2>8. spent[d] + b <= BudgetCap + v + excused
      BY <2>4, <2>6, <2>7
    <2>9. spent[d] + a <= BudgetCap + w + excused' /\ spent[d] <= BudgetCap + w + excused'
      BY <1>1, <2>3, <2>6, <2>7, <2>8, Limits, SMT
    <2> QED BY <2>4, <2>5, <2>6, <2>7, <2>9
  <1>4. Ahead'
    BY <1>3 DEF Ahead
  <1>5. OvershootBounded'
    BY <1>3 DEF OvershootBounded
  <1> QED BY <1>4, <1>5

\* Nothing is recorded, no bill comes and no call that owes one starts.
LEMMA SameMoney ==
  ASSUME Inv, TypeOK', UNCHANGED <<ask, spent, dated>>, unseen \subseteq unseen',
         beside <= beside', excused <= excused',
         today' = today \/ today' = today + 1,
         \A q \in Requests : UnderWay(q)' /\ ~Unweighed(q)' => UnderWay(q)
  PROVE  Ahead' /\ OvershootBounded'
  <1>1. \A q \in Requests : Unweighed(q) => Unweighed(q)'
    BY DEF Unweighed
  <1>2. \A d \in Days : today' <= d => today <= d
    <2>1. today \in Nat /\ \A d \in Days : d \in Nat
      BY DaysFacts DEF Inv, TypeOK
    <2> QED BY <2>1, SMT
  <1>3. \A d \in Days : Owing(d)' \subseteq Owing(d)
    BY <1>1, <1>2 DEF Owing
  <1> QED BY <1>3, FewerOwing

-----------------------------------------------------------------------------
(* The steps that neither charge nor record *)

LEMMA ArriveInv ==
  ASSUME Inv, NEW r \in Requests, Arrive(r)
  PROVE  Inv'
  <1> USE DEF Arrive, Shared, Notes
  <1>1. TypeOK
    BY DEF Inv
  <1>0. /\ \/ UNCHANGED faults
           \/ \E trip \in {"ok", "refused"} : Faulty(trip)
        /\ \/ Ends(r, "cached")
           \/ To(r, "cache") /\ UNCHANGED out
    OBVIOUS
  <1>2. pc' \in [Requests -> Places] /\ out' \in [Requests -> Outcomes]
    BY <1>0, <1>1 DEF TypeOK, Ends, To, Places, Outcomes
  <1>8. faults' \in 0..MaxFaults /\ (faults' = faults \/ faults' = faults + 1)
    BY <1>0, <1>1, FaultyType DEF TypeOK, Faulty
  <1>3. TypeOK'
    BY <1>1, <1>2, <1>8 DEF TypeOK
  <1>4. \A q \in Requests : pc'[q] = pc[q] \/ (q = r /\ pc'[q] \in {"end", "cache"})
    BY <1>0, <1>1 DEF TypeOK, Ends, To
  <1>5. charged[r] = None
    BY DEF Inv, Held
  <1>6. Held'
    BY <1>4, <1>5, SameHolds
  <1>7. Ahead' /\ OvershootBounded'
    BY <1>3, <1>4, SameMoney, MoneyTypes DEF UnderWay
  <1>9. Dated'
    BY <1>4, SameDated
  <1>10. Covered' /\ CapsKept' /\ NothingStarved'
    BY <1>3, <1>8, SameCharges
  <1> QED BY <1>3, <1>6, <1>7, <1>9, <1>10 DEF Inv

LEMMA EnterInv ==
  ASSUME Inv, NEW r \in Requests, Enter(r)
  PROVE  Inv'
  <1> USE DEF Enter, Notes
  <1>1. TypeOK
    BY DEF Inv
  <1>2. pc' \in [Requests -> Places] /\ out' \in [Requests -> Outcomes]
    BY <1>1 DEF TypeOK, Ends, To, Places, Outcomes
  <1>3. running' \in [Instances -> [Codes -> Requests \cup {None}]]
    <2>1. At(r) \in Instances /\ Code(r) \in Codes
      BY <1>1, AskFacts
    <2>2. \/ running' = running
          \/ running' = [running EXCEPT ![At(r)][Code(r)] = r]
      OBVIOUS
    <2>3. running \in [Instances -> [Codes -> Requests \cup {None}]]
      BY <1>1 DEF TypeOK
    <2>4. [running[At(r)] EXCEPT ![Code(r)] = r] \in [Codes -> Requests \cup {None}]
      BY <2>1, <2>3
    <2> QED BY <2>1, <2>2, <2>3, <2>4
  <1>4. TypeOK'
    BY <1>1, <1>2, <1>3 DEF TypeOK
  <1>5. \A q \in Requests : pc'[q] = pc[q] \/ (q = r /\ pc'[q] \in {"end", "budget", "join"})
    BY <1>1 DEF TypeOK, Ends, To
  <1>6. charged[r] = None
    BY DEF Inv, Held
  <1>7. Held'
    BY <1>5, <1>6, SameHolds
  <1>8. Ahead' /\ OvershootBounded'
    BY <1>4, <1>5, SameMoney, MoneyTypes DEF UnderWay
  <1>9. Dated'
    BY <1>5, SameDated
  <1> QED BY <1>4, <1>7, <1>8, <1>9, SameCharges DEF Inv

LEMMA CallInv ==
  ASSUME Inv, NEW r \in Requests, Call(r)
  PROVE  Inv'
  <1> USE DEF Call, Shared, Notes
  <1>1. TypeOK
    BY DEF Inv
  <1>2. /\ pc' \in [Requests -> Places] /\ out' \in [Requests -> Outcomes]
        /\ bill' \in [Requests -> Costs \cup {0}]
        /\ dated' \in [Requests -> Days \cup {None}]
    BY <1>1 DEF TypeOK, To, Places, Outcomes
  <1>3. TypeOK'
    BY <1>1, <1>2 DEF TypeOK
  <1>4. \A q \in Requests : IF q = r THEN pc'[q] = "record" /\ dated'[q] = today
                           ELSE pc'[q] = pc[q] /\ dated'[q] = dated[q]
    BY <1>1 DEF TypeOK, To
  <1>5. Held'
    BY <1>4, SameHolds
  <1>6. today \in Days /\ today \in Nat /\ today <= today /\ today # None
    <2>1. today \in Days /\ today \in Nat /\ today # None
      BY <1>1, DaysFacts DEF TypeOK
    <2> QED BY <2>1, SMT
  <1>7. Dated'
    BY <1>4, <1>6 DEF Dated, Inv
  <1>8. \A d \in Days : Owing(d)' \subseteq Owing(d)
    <2>1. dated[r] = None /\ pc[r] = "call"
      BY DEF Inv, Dated
    <2> SUFFICES ASSUME NEW d \in Days, NEW q \in Owing(d)' PROVE q \in Owing(d)
      OBVIOUS
    <2>2. q \in Requests /\ Unweighed(q)' = Unweighed(q)
      BY DEF Owing, Unweighed
    <2>3. CASE q = r
      <3>1. d = today
        BY <1>4, <1>6, <2>3 DEF Owing
      <3> QED BY <1>6, <2>1, <2>2, <2>3, <3>1 DEF Owing, UnderWay
    <2>4. CASE q # r
      BY <1>4, <2>2, <2>4 DEF Owing, UnderWay
    <2> QED BY <2>3, <2>4
  <1>9. Ahead' /\ OvershootBounded'
    BY <1>3, <1>8, FewerOwing, MoneyTypes
  <1> QED BY <1>3, <1>5, <1>7, <1>9, SameCharges DEF Inv

LEMMA KeepInv ==
  ASSUME Inv, NEW r \in Requests, Keep(r)
  PROVE  Inv'
  <1> USE DEF Notes
  <1>1. TypeOK
    BY DEF Inv
  <1>0. PICK trip \in Trip :
          Faulty(trip) /\ kept' = IF Applied(trip) THEN kept \cup {Code(r)} ELSE kept
    BY DEF Keep
  <1>6. /\ pc[r] = "keep" /\ To(r, "end")
        /\ UNCHANGED <<ask, out, bill, dated, today, used, usedBy, spent, memory, cached,
                       running, Notes>>
    BY DEF Keep
  <1>7. faults' \in 0..MaxFaults /\ (faults' = faults \/ faults' = faults + 1)
    BY <1>0, <1>1, FaultyType DEF Faulty
  <1>2. pc' \in [Requests -> Places] /\ Code(r) \in Codes
    BY <1>1, <1>6, AskFacts DEF TypeOK, To, Places
  <1>3. TypeOK'
    BY <1>0, <1>1, <1>2, <1>6, <1>7 DEF TypeOK
  <1>4. \A q \in Requests : pc'[q] = pc[q] \/ (q = r /\ pc'[q] = "end")
    BY <1>1, <1>6 DEF TypeOK, To
  <1>5. Held'
    BY <1>4, <1>6, SameHolds
  <1>8. Ahead' /\ OvershootBounded'
    BY <1>3, <1>4, <1>6, SameMoney, MoneyTypes DEF UnderWay
  <1>9. Dated'
    BY <1>4, <1>6, SameDated
  <1>10. Covered' /\ CapsKept' /\ NothingStarved'
    BY <1>3, <1>6, <1>7, SameCharges
  <1> QED BY <1>3, <1>5, <1>8, <1>9, <1>10 DEF Inv

LEMMA MidnightInv ==
  ASSUME Inv, Midnight
  PROVE  Inv'
  <1> USE DEF Midnight, Shared, Notes
  <1>1. TypeOK
    BY DEF Inv
  <1>2. today' \in Days
    BY <1>1, Limits, SMT DEF TypeOK, Days
  <1>3. TypeOK'
    BY <1>1, <1>2 DEF TypeOK
  <1>4. Held'
    BY SameHolds
  <1>5. Ahead' /\ OvershootBounded'
    BY <1>3, SameMoney, MoneyTypes DEF UnderWay
  <1>6. Dated'
    BY SameDated
  <1> QED BY <1>3, <1>4, <1>5, <1>6, SameCharges DEF Inv

LEMMA StutterInv ==
  ASSUME Inv, UNCHANGED vars
  PROVE  Inv'
  <1> USE DEF vars, Shared, Notes
  <1>1. TypeOK'
    BY DEF Inv, TypeOK
  <1>2. Held'
    BY SameHolds
  <1>3. Ahead' /\ OvershootBounded'
    BY <1>1, SameMoney, MoneyTypes DEF UnderWay
  <1>4. Dated'
    BY SameDated
  <1> QED BY <1>1, <1>2, <1>3, <1>4, SameCharges DEF Inv

-----------------------------------------------------------------------------
(* The budget *)

\* Of the requests a day's or an account's calls are held by, no step adds more
\* than the one that takes it.
LEMMA OneMore ==
  ASSUME NEW S \in SUBSET Requests, NEW r \in Requests, NEW T \in SUBSET (S \cup {r})
  PROVE  Cardinality(T) \in Nat /\ Cardinality(T) <= Cardinality(S) + 1
  <1>1. IsFiniteSet(S) /\ Cardinality(S) \in Nat
    BY Some
  <1>2. Cardinality(S \cup {r}) <= Cardinality(S) + 1
    <2>1. Cardinality(S \cup {r}) \in {Cardinality(S), Cardinality(S) + 1}
      BY <1>1, FS_AddElement
    <2>2. \A c \in Nat : c <= c + 1 /\ c + 1 <= c + 1
      BY SMT
    <2> QED BY <1>1, <2>1, <2>2, Zenon
  <1>3. Cardinality(T) <= Cardinality(S \cup {r}) /\ Cardinality(T) \in Nat
        /\ Cardinality(S \cup {r}) \in Nat
    BY Some, Fewer
  <1> QED BY <1>1, <1>2, <1>3, SMT

LEMMA CheckBudgetInv ==
  ASSUME Inv, NEW r \in Requests, CheckBudget(r)
  PROVE  Inv'
  <1>0. TypeOK /\ pc[r] = "budget"
    BY DEF Inv, CheckBudget
  <1> DEFINE k == Cardinality(Owing(today))
             money(trip) == IF trip = "ok" THEN spent[today] ELSE memory[At(r)][today]
  <1>1. PICK trip \in {"ok", "refused"} :
          /\ ask[r].god => trip = "ok" \/ Settles(r, "unavailable")
          /\ Faulty(trip)
          /\ \/ /\ ask[r].god \/ Affordable(money(trip))
                /\ To(r, "global")
                /\ unseen' = IF trip = "ok" THEN unseen ELSE unseen \cup {r}
                /\ beside' = IF ask[r].god \/ trip # "ok" THEN beside ELSE Max({beside, k})
                /\ UNCHANGED <<out, running>>
             \/ Settles(r, "unavailable") /\ UNCHANGED <<unseen, beside>>
    BY AskFacts, <1>0 DEF CheckBudget
  <1>2. UNCHANGED <<bill, dated, ask, today, used, usedBy, spent, memory, cached, kept,
                    charged, accounted, strayed, excused>>
    BY DEF CheckBudget
  <1>3. faults' \in 0..MaxFaults
    BY <1>0, <1>1, FaultyType
  <1>4. faults' = faults \/ faults' = faults + 1
    BY <1>1 DEF Faulty
  <1>5. charged[r] = None
    BY <1>0 DEF Inv, Held
  <1>6. beside \in Nat /\ excused \in Nat /\ today \in Days /\ spent[today] \in Nat
        /\ excused <= excused' /\ beside <= beside
    BY <1>0, <1>2, MoneyTypes DEF TypeOK
  <1>7. CASE /\ ask[r].god \/ Affordable(money(trip))
             /\ To(r, "global")
             /\ unseen' = IF trip = "ok" THEN unseen ELSE unseen \cup {r}
             /\ beside' = IF ask[r].god \/ trip # "ok" THEN beside ELSE Max({beside, k})
             /\ UNCHANGED <<out, running>>
    <2>1. k \in Nat
      BY OwingRequests, Some
    <2> HIDE DEF k
    <2>2. beside' \in Nat /\ beside <= beside' /\ (~ask[r].god /\ trip = "ok" => k <= beside')
      BY <1>6, <1>7, <2>1, MaxFacts
    <2>3. unseen' \subseteq Requests /\ unseen \subseteq unseen'
      BY <1>0, <1>7 DEF TypeOK
    <2>4. pc' \in [Requests -> Places]
      BY <1>0, <1>7, ToType DEF Places
    <2>5. TypeOK'
      BY <1>0, <1>2, <1>3, <1>7, <2>2, <2>3, <2>4 DEF TypeOK
    <2>6. \A q \in Requests : pc'[q] = pc[q] \/ (q = r /\ pc'[q] = "global")
      BY <1>0, <1>7 DEF TypeOK, To
    <2>7. Held' /\ Dated'
      BY <1>0, <1>2, <1>5, <2>6, SameHolds, SameDated
    <2>8. Ahead' /\ OvershootBounded'
      <3>1. CASE ask[r].god \/ trip # "ok"
        <4>1. Unweighed(r)'
          BY <1>1, <1>2, <1>7, <3>1 DEF Unweighed
        <4>2. \A q \in Requests : UnderWay(q)' /\ ~Unweighed(q)' => UnderWay(q)
          BY <2>6, <4>1 DEF UnderWay
        <4> QED BY <1>2, <1>6, <2>2, <2>3, <2>5, <4>2, SameMoney
      <3>2. CASE ~(ask[r].god \/ trip # "ok")
        <4>1. spent[today] + WorstCase <= BudgetCap
          BY <1>7, <3>2 DEF Affordable
        <4>2. k <= beside' /\ unseen' = unseen
          BY <1>7, <2>2, <3>2
        <4>3. ASSUME NEW d \in Days
              PROVE  d < today => Owing(d)' \subseteq Owing(d)
          <5>1. \A q \in Requests : Unweighed(q)' = Unweighed(q)
            BY <1>2, <4>2 DEF Unweighed
          <5>2. dated[r] = None
            BY <1>0 DEF Inv, Dated
          <5>3. today \in Nat /\ d \in Nat /\ d # None
            BY <1>6, DaysFacts
          <5>4. d < today => ~(today <= d)
            BY <5>3, SMT
          <5> QED BY <1>2, <2>6, <5>1, <5>2, <5>3, <5>4 DEF Owing, UnderWay
        <4>4. ASSUME NEW d \in Days, ~(d < today)
              PROVE  Owing(d)' \subseteq Owing(today) \cup {r}
          <5>1. \A q \in Requests : Unweighed(q)' = Unweighed(q)
            BY <1>2, <4>2 DEF Unweighed
          <5>2. today \in Nat /\ d \in Nat /\ today <= today
            BY <1>6, DaysFacts, SMT
          <5>3. \A q \in Requests : dated[q] = d => d = today
            <6> SUFFICES ASSUME NEW q \in Requests, dated[q] = d PROVE d = today
              OBVIOUS
            <6>1. d <= today
              BY DaysFacts DEF Inv, Dated
            <6> QED BY <4>4, <5>2, <6>1, SMT
          <5> QED BY <1>2, <2>6, <5>1, <5>2, <5>3 DEF Owing, UnderWay
        <4>5. ASSUME NEW d \in Days, ~(d < today)
              PROVE  /\ WorstCase * Cardinality(Owing(d)') \in Nat
                     /\ WorstCase * beside' \in Nat
                     /\ WorstCase * Cardinality(Owing(d)') <= WorstCase * beside' + WorstCase
          <5>1. Cardinality(Owing(d)') \in Nat /\ Cardinality(Owing(d)') <= k + 1
            BY <4>4, <4>5, OwingRequests, OneMore DEF k
          <5>2. \A a, b, c \in Nat : a <= b + 1 /\ b <= c => a <= c + 1 /\ c + 1 \in Nat
            BY SMT
          <5>3. Cardinality(Owing(d)') <= beside' + 1 /\ beside' + 1 \in Nat
            BY <2>1, <2>2, <4>2, <5>1, <5>2, Zenon
          <5>4. WorstCase * Cardinality(Owing(d)') <= WorstCase * (beside' + 1)
                /\ WorstCase * Cardinality(Owing(d)') \in Nat
            BY <5>1, <5>3, MulMono, Limits
          <5> QED BY <2>2, <5>4, MulOne, Limits
        <4>6. ASSUME NEW d \in Days
              PROVE  /\ spent[d] + WorstCase * Cardinality(Owing(d)')
                          <= BudgetCap + WorstCase * beside' + excused'
                     /\ d > today => spent[d] = 0
                     /\ spent[d] <= BudgetCap + WorstCase * beside' + excused'
          <5>1. /\ spent[d] + WorstCase * Cardinality(Owing(d))
                     <= BudgetCap + WorstCase * beside + excused
                /\ d > today => spent[d] = 0
            BY DEF Inv, Ahead
          <5>2. d \in Nat /\ today \in Nat /\ spent[d] \in Nat
            BY <1>0, <1>6, DaysFacts DEF TypeOK
          <5>3. CASE d < today
            <6>1. /\ Cardinality(Owing(d)') \in Nat /\ Cardinality(Owing(d)) \in Nat
                  /\ Cardinality(Owing(d)') <= Cardinality(Owing(d))
              BY <4>3, <5>3, OwingRequests, Some, Fewer
            <6>2. /\ WorstCase * Cardinality(Owing(d)') <= WorstCase * Cardinality(Owing(d))
                  /\ WorstCase * Cardinality(Owing(d)') \in Nat
                  /\ WorstCase * Cardinality(Owing(d)) \in Nat
              BY <6>1, MulMono, Limits
            <6>3. WorstCase * beside \in Nat /\ WorstCase * beside' \in Nat
                  /\ WorstCase * beside <= WorstCase * beside'
              BY <1>6, <2>2, MulMono, Limits
            <6> QED BY <1>2, <1>6, <5>1, <5>2, <6>2, <6>3, Limits, SMT
          <5>4. CASE d = today
            <6>1. ~(d < today)
              BY <5>2, <5>4, SMT
            <6>2. /\ WorstCase * Cardinality(Owing(d)') \in Nat
                  /\ WorstCase * beside' \in Nat
                  /\ WorstCase * Cardinality(Owing(d)') <= WorstCase * beside' + WorstCase
              BY <4>5, <6>1
            <6> QED BY <1>2, <1>6, <4>1, <5>1, <5>2, <5>4, <6>2, Limits, SMT
          <5>5. CASE d > today
            <6>1. ~(d < today)
              BY <5>2, <5>5, SMT
            <6>2. /\ WorstCase * Cardinality(Owing(d)') \in Nat
                  /\ WorstCase * beside' \in Nat
                  /\ WorstCase * Cardinality(Owing(d)') <= WorstCase * beside' + WorstCase
              BY <4>5, <6>1
            <6> QED BY <1>2, <1>6, <4>1, <5>1, <5>2, <5>5, <6>2, Limits, SMT
          <5> QED BY <5>2, <5>3, <5>4, <5>5, SMT
        <4>7. Ahead'
          BY <1>2, <4>6 DEF Ahead
        <4>8. OvershootBounded'
          BY <1>2, <4>6 DEF OvershootBounded
        <4> QED BY <4>7, <4>8
      <3> QED BY <3>1, <3>2
    <2> QED BY <1>2, <1>4, <2>5, <2>7, <2>8, SameCharges DEF Inv
  <1>8. CASE Settles(r, "unavailable") /\ UNCHANGED <<unseen, beside>>
    <2>1. "unavailable" \in Outcomes
      BY DEF Outcomes
    <2>2. /\ pc' \in [Requests -> Places] /\ out' \in [Requests -> Outcomes]
          /\ running' \in [Instances -> [Codes -> Requests \cup {None}]]
          /\ \A q \in Requests : pc'[q] = pc[q] \/ pc'[q] \in {"end", "keep"}
          /\ pc'[r] \in {"end", "keep"}
          /\ \A q \in Requests : q = r \/ pc'[q] = pc[q] \/ (pc[q] = "join" /\ pc'[q] = "end")
      BY <1>0, <1>8, <2>1, SettlesFacts
    <2>3. TypeOK'
      BY <1>0, <1>2, <1>3, <1>8, <2>2 DEF TypeOK
    <2>4. Held'
      BY <1>2, <2>2, SameHolds
    <2>5. Dated'
      BY <1>0, <1>2, <2>2, SameDated
    <2>6. Ahead' /\ OvershootBounded'
      BY <1>2, <1>6, <1>8, <2>2, <2>3, SameMoney DEF UnderWay
    <2> QED BY <1>2, <1>4, <2>3, <2>4, <2>5, <2>6, SameCharges DEF Inv
  <1> QED BY <1>1, <1>7, <1>8

-----------------------------------------------------------------------------
(* The charges *)

LEMMA FaultyFacts ==
  ASSUME TypeOK, NEW trip, Faulty(trip)
  PROVE  /\ faults' \in 0..MaxFaults
         /\ faults' = faults \/ faults' = faults + 1
         /\ faults' = 0 => trip = "ok" /\ faults = 0
  <1>1. faults \in Nat
    BY Limits, SMT DEF TypeOK
  <1> QED BY <1>1, FaultyType, SMT DEF Faulty

LEMMA LimitFacts ==
  ASSUME NEW r
  PROVE  Limit(r) \in Nat /\ Max({Backstop, DailyLimit}) \in Nat
         /\ Limit(r) <= Max({Backstop, DailyLimit})
  BY Limits, MaxFacts DEF Limit

LEMMA ChargeGlobalInv ==
  ASSUME Inv, NEW r \in Requests, ChargeGlobal(r)
  PROVE  Inv'
  <1>0. TypeOK /\ pc[r] = "global" /\ charged[r] = None
    BY DEF Inv, Held, ChargeGlobal
  <1> DEFINE granted == ask[r].god \/ Below(used[today], Limit(r))
             next == IF Account(r) = None THEN "call" ELSE "account"
  <1>1. PICK trip \in Trip :
          /\ Faulty(trip)
          /\ used' = IF granted /\ Applied(trip) THEN [used EXCEPT ![today] = @ + 1] ELSE used
          /\ charged' = IF granted /\ trip = "ok" THEN [charged EXCEPT ![r] = today] ELSE charged
          /\ IF trip # "ok" THEN Settles(r, "unavailable")
             ELSE IF ~granted THEN Settles(r, "blocked")
             ELSE To(r, next) /\ UNCHANGED <<out, running>>
    BY DEF ChargeGlobal
  <1>2. UNCHANGED <<bill, dated, ask, today, usedBy, spent, memory, cached, kept, accounted,
                    strayed, unseen, beside, excused>>
    BY DEF ChargeGlobal
  <1>3. /\ faults' \in 0..MaxFaults
        /\ faults' = faults \/ faults' = faults + 1
        /\ faults' = 0 => trip = "ok" /\ faults = 0
    BY <1>0, <1>1, FaultyFacts
  <1>4. today \in Days /\ today \in Nat /\ used \in [Days -> Int]
        /\ charged \in [Requests -> Days \cup {None}] /\ strayed \in [Days -> Nat]
    BY <1>0, DaysFacts DEF TypeOK
  <1>5. /\ pc' \in [Requests -> Places] /\ out' \in [Requests -> Outcomes]
        /\ running' \in [Instances -> [Codes -> Requests \cup {None}]]
        /\ \A q \in Requests : \/ pc'[q] = pc[q]
                               \/ pc'[q] \in {"end", "keep"}
                               \/ (q = r /\ pc'[q] = next /\ granted /\ trip = "ok")
        /\ \A q \in Requests : \/ q = r /\ pc'[q] \in {"end", "keep", next}
                               \/ pc'[q] = pc[q]
                               \/ pc[q] = "join" /\ pc'[q] = "end"
    <2>1. {"unavailable", "blocked"} \subseteq Outcomes
      BY DEF Outcomes
    <2>2. CASE Settles(r, "unavailable") \/ Settles(r, "blocked")
      BY <1>0, <2>1, <2>2, SettlesFacts
    <2>3. CASE trip = "ok" /\ granted /\ To(r, next) /\ UNCHANGED <<out, running>>
      <3>1. next \in Places
        BY DEF Places
      <3>2. \A q \in Requests : pc'[q] = pc[q] \/ (q = r /\ pc'[q] = next)
        BY <1>0, <2>3 DEF TypeOK, To
      <3>3. pc' \in [Requests -> Places]
        BY <1>0, <2>3, <3>1, ToType
      <3> HIDE DEF next, granted
      <3> QED BY <1>0, <2>3, <3>2, <3>3 DEF TypeOK
    <2> HIDE DEF next, granted
    <2> QED BY <1>1, <2>2, <2>3
  <1>6. used' \in [Days -> Int] /\ charged' \in [Requests -> Days \cup {None}]
    <2>1. used[today] + 1 \in Int
      BY <1>4, SMT
    <2> HIDE DEF granted
    <2> QED BY <1>1, <1>4, <2>1
  <1>7. TypeOK'
    BY <1>0, <1>2, <1>3, <1>5, <1>6 DEF TypeOK
  <1>8. /\ charged' = charged \/ (granted /\ trip = "ok")
        /\ \A q \in Requests : charged'[q] = charged[q] \/ (q = r /\ charged'[q] = today)
    BY <1>1, <1>4
  <1>9. Held'
    <2> SUFFICES ASSUME NEW q \in Requests
                 PROVE  /\ charged'[q] # None => charged'[q] <= today
                        /\ pc'[q] \in {"new", "cache", "join", "budget", "global"}
                             => charged'[q] = None
                        /\ pc'[q] \in {"account", "refund"} => charged'[q] # None
                        /\ pc'[q] = "refund" => ~ask[q].god
      BY <1>2 DEF Held
    <2>1. /\ charged[q] # None => charged[q] <= today
          /\ pc[q] \in {"new", "cache", "join", "budget", "global"} => charged[q] = None
          /\ pc[q] \in {"account", "refund"} => charged[q] # None
          /\ pc[q] = "refund" => ~ask[q].god
      BY DEF Inv, Held
    <2>2. charged'[q] # None => charged'[q] <= today
      BY <1>4, <1>8, <2>1, SMT
    <2>3. CASE q = r /\ granted /\ trip = "ok"
      <3>1. charged'[q] = today /\ today # None
        BY <1>1, <1>4, <2>3, DaysFacts
      <3>2. pc'[q] = next
        BY <1>0, <1>1, <2>3 DEF To, TypeOK
      <3> QED BY <2>2, <3>1, <3>2
    <2>4. CASE ~(q = r /\ granted /\ trip = "ok")
      <3>1. charged'[q] = charged[q]
        BY <1>1, <1>4, <2>4
      <3>2. pc'[q] = pc[q] \/ pc'[q] \in {"end", "keep"}
        BY <1>5, <2>4
      <3> QED BY <2>1, <2>2, <3>1, <3>2
    <2> QED BY <2>3, <2>4
  <1>10. Ahead' /\ OvershootBounded'
    <2>1. \A q \in Requests : UnderWay(q)' => UnderWay(q)
      BY <1>0, <1>5 DEF UnderWay
    <2> QED BY <1>2, <1>7, <2>1, SameMoney, MoneyTypes
  <1>11. AccountsCovered' /\ AccountsCapped'
    BY <1>2, Sides, SameAccounts DEF Inv
  <1>12. DayCovered' /\ DayCapped'
    <2> SUFFICES ASSUME NEW d \in Days
                 PROVE  /\ Cardinality(Tenants(charged, d)') <= used'[d] + strayed[d]
                        /\ Cardinality(Tenants(charged, d)')
                             <= Max({Backstop, DailyLimit}) + strayed[d]
      BY <1>2 DEF DayCovered, DayCapped
    <2> DEFINE old == Tenants(charged, d)
               new == Tenants(charged, d)'
               cap == Max({Backstop, DailyLimit})
    <2>1. old \in SUBSET Requests /\ new \in SUBSET Requests
      BY <1>2 DEF Tenants
    <2>2. Cardinality(old) \in Nat /\ Cardinality(new) \in Nat
      BY <2>1, Some
    <2>3. Cardinality(old) <= used[d] + strayed[d] /\ Cardinality(old) <= cap + strayed[d]
      BY Sides DEF Inv, DayCovered, DayCapped
    <2>4. used[d] \in Int /\ used'[d] \in Int /\ strayed[d] \in Nat /\ cap \in Nat
      BY <1>4, <1>6, LimitFacts
    <2>5. used[d] <= used'[d]
      BY <1>1, <1>4, SMT
    <2>6. CASE granted /\ trip = "ok" /\ d = today /\ ~ask[r].god
      <3>1. new \subseteq old \cup {r}
        BY <1>2, <1>8 DEF Tenants
      <3>2. Cardinality(new) <= Cardinality(old) + 1
        BY <2>1, <3>1, OneMore
      <3>3. used'[d] = used[d] + 1
        BY <1>1, <1>4, <2>6 DEF Applied
      <3>4. used[d] < Limit(r) /\ Limit(r) \in Nat /\ Limit(r) <= cap
        BY <2>6, LimitFacts DEF Below
      <3> HIDE DEF old, new, cap
      <3>5. Cardinality(new) <= used'[d] + strayed[d]
        BY <2>2, <2>3, <2>4, <3>2, <3>3, SMT
      <3>6. Cardinality(new) <= cap + strayed[d]
        BY <2>2, <2>3, <2>4, <3>2, <3>4, SMT
      <3> QED BY <3>5, <3>6 DEF new, cap
    <2>7. CASE ~(granted /\ trip = "ok" /\ d = today /\ ~ask[r].god)
      <3>1. new \subseteq old
        BY <1>2, <1>8, <2>7 DEF Tenants
      <3>2. Cardinality(new) <= Cardinality(old)
        BY <2>1, <3>1, Fewer
      <3> HIDE DEF old, new, cap
      <3>3. Cardinality(new) <= used'[d] + strayed[d] /\ Cardinality(new) <= cap + strayed[d]
        BY <2>2, <2>3, <2>4, <2>5, <3>2, SMT
      <3> QED BY <3>3 DEF new, cap
    <2> QED BY <2>6, <2>7
  <1>13. NothingStarved'
    <2> SUFFICES ASSUME faults' = 0, today = 0
                 PROVE  used'[0] = Cardinality({q \in Requests : charged'[q] = 0})
      BY <1>2 DEF NothingStarved
    <2> DEFINE old == {q \in Requests : charged[q] = 0}
               new == {q \in Requests : charged'[q] = 0}
    <2>1. used[0] = Cardinality(old) /\ trip = "ok"
      BY <1>3 DEF Inv, NothingStarved
    <2>2. CASE granted
      <3>1. new = old \cup {r} /\ r \notin old
        BY <1>0, <1>1, <1>4, <2>1, <2>2, DaysFacts
      <3>2. IsFiniteSet(old)
        BY Some
      <3>3. Cardinality(new) = Cardinality(old) + 1
        BY <3>1, <3>2, FS_AddElement
      <3>4. used'[0] = used[0] + 1
        BY <1>1, <1>4, <2>1, <2>2 DEF Applied
      <3> QED BY <2>1, <3>3, <3>4
    <2>3. CASE ~granted
      <3>1. used' = used /\ charged' = charged
        BY <1>1, <2>3
      <3> QED BY <2>1, <3>1
    <2> QED BY <2>2, <2>3
  <1>14. Dated'
    BY <1>0, <1>2, <1>5, SameDated
  <1> QED BY <1>7, <1>9, <1>14, <1>10, <1>11, <1>12, <1>13, SidesNext DEF Inv

LEMMA ChargeAccountInv ==
  ASSUME Inv, NEW r \in Requests, ChargeAccount(r)
  PROVE  Inv'
  <1>0. TypeOK /\ pc[r] = "account"
    BY DEF Inv, ChargeAccount
  <1> DEFINE granted == ask[r].god \/ Below(usedBy[Account(r)][today], AccountLimit)
  <1>1. PICK trip \in Trip :
          /\ Faulty(trip)
          /\ usedBy' = IF granted /\ Applied(trip)
                       THEN [usedBy EXCEPT ![Account(r)][today] = @ + 1] ELSE usedBy
          /\ \/ /\ ask[r].god \/ (granted /\ trip = "ok")
                /\ To(r, "call") /\ UNCHANGED out
                /\ accounted' = IF granted /\ trip = "ok"
                                THEN [accounted EXCEPT ![r] = today] ELSE accounted
             \/ /\ ~ask[r].god /\ To(r, "refund") /\ UNCHANGED accounted
                /\ out' = [out EXCEPT ![r] = IF trip = "ok" THEN "blocked" ELSE "unavailable"]
    BY <1>0, AskFacts DEF ChargeAccount
  <1>2. UNCHANGED <<bill, dated, ask, today, used, spent, memory, cached, kept, running,
                    charged, strayed, unseen, beside, excused>>
    BY DEF ChargeAccount
  <1>3. faults' \in 0..MaxFaults /\ (faults' = faults \/ faults' = faults + 1)
    BY <1>0, <1>1, FaultyFacts
  <1>4. today \in Days /\ today \in Nat /\ usedBy \in [Accounts -> [Days -> Nat]]
        /\ accounted \in [Requests -> Days \cup {None}]
    BY <1>0, DaysFacts DEF TypeOK
  <1>5. pc' \in [Requests -> Places] /\ out' \in [Requests -> Outcomes]
    <2>1. To(r, "call") \/ To(r, "refund")
      BY <1>1
    <2>2. {"call", "refund"} \subseteq Places /\ {"blocked", "unavailable"} \subseteq Outcomes
      BY DEF Places, Outcomes
    <2>3. pc' \in [Requests -> Places]
      BY <1>0, <2>1, <2>2, ToType
    <2>4. out' = out \/ \E o \in Outcomes : out' = [out EXCEPT ![r] = o]
      BY <1>1, <2>2
    <2> QED BY <1>0, <2>3, <2>4 DEF TypeOK
  <1>6. usedBy' \in [Accounts -> [Days -> Nat]] /\ accounted' \in [Requests -> Days \cup {None}]
        /\ \A a \in Accounts : \A d \in Days : usedBy[a][d] <= usedBy'[a][d]
    <2>1. \A n \in Nat : n <= n /\ n <= n + 1 /\ n + 1 \in Nat
      BY SMT
    <2>2. \/ usedBy' = usedBy
          \/ usedBy' = [usedBy EXCEPT ![Account(r)][today] = @ + 1]
      BY <1>1
    <2>3. \A a \in Accounts : [usedBy[a] EXCEPT ![today] = @ + 1] \in [Days -> Nat]
      BY <1>4, <2>1
    <2>4. usedBy' \in [Accounts -> [Days -> Nat]]
      BY <1>4, <2>2, <2>3
    <2>5. \A a \in Accounts : \A d \in Days : usedBy'[a][d] \in {usedBy[a][d], usedBy[a][d] + 1}
      BY <1>4, <2>2
    <2>6. \A a \in Accounts : \A d \in Days : usedBy[a][d] \in Nat
      BY <1>4
    <2>7. \A a \in Accounts : \A d \in Days : usedBy[a][d] <= usedBy'[a][d]
      BY <2>1, <2>5, <2>6, Zenon
    <2>8. accounted' = accounted \/ accounted' = [accounted EXCEPT ![r] = today]
      BY <1>1
    <2> QED BY <1>4, <2>4, <2>7, <2>8
  <1>7. TypeOK'
    BY <1>0, <1>2, <1>3, <1>5, <1>6 DEF TypeOK
  <1>8. \A q \in Requests :
          pc'[q] = pc[q] \/ (q = r /\ (pc'[q] = "call" \/ (pc'[q] = "refund" /\ ~ask[q].god)))
    BY <1>0, <1>1 DEF TypeOK, To
  <1>9. Held'
    BY <1>0, <1>2, <1>8, SameHolds
  <1>10. Ahead' /\ OvershootBounded'
    <2>1. \A q \in Requests : UnderWay(q)' => UnderWay(q)
      BY <1>0, <1>8 DEF UnderWay
    <2> QED BY <1>2, <1>7, <2>1, SameMoney, MoneyTypes
  <1>11. DayCovered' /\ DayCapped'
    BY <1>2, Sides, SameDay DEF Inv
  <1>12. NothingStarved'
    BY <1>0, <1>2, <1>3, <1>7, SameStarved DEF Inv
  <1>13. AccountsCovered' /\ AccountsCapped'
    <2> SUFFICES ASSUME NEW a \in Accounts, NEW d \in Days
                 PROVE  /\ Cardinality(OfAccount(a, d)') <= usedBy'[a][d]
                        /\ Cardinality(OfAccount(a, d)') <= AccountLimit
      BY <1>2 DEF AccountsCovered, AccountsCapped
    <2> DEFINE old == OfAccount(a, d)
               new == OfAccount(a, d)'
    <2>0. \A q : Account(q)' = Account(q)
      BY <1>2, SameTenants
    <2>1. old \in SUBSET Requests /\ new \in SUBSET Requests
      BY <1>2 DEF OfAccount, Tenants
    <2>2. Cardinality(old) \in Nat /\ Cardinality(new) \in Nat
      BY <2>1, Some
    <2>3. Cardinality(old) <= usedBy[a][d] /\ Cardinality(old) <= AccountLimit
      BY Sides DEF Inv, AccountsCovered, AccountsCapped
    <2>4. usedBy[a][d] \in Nat /\ usedBy'[a][d] \in Nat /\ usedBy[a][d] <= usedBy'[a][d]
      BY <1>4, <1>6
    <2>5. \A q \in Requests : \/ accounted'[q] = accounted[q]
                              \/ (q = r /\ accounted'[q] = today /\ granted /\ trip = "ok")
      BY <1>1, <1>4
    <2>6. CASE granted /\ trip = "ok" /\ d = today /\ ~ask[r].god /\ Account(r) = a
      <3>1. new \subseteq old \cup {r}
        BY <1>2, <2>0, <2>5 DEF OfAccount, Tenants
      <3>2. Cardinality(new) <= Cardinality(old) + 1
        BY <2>1, <3>1, OneMore
      <3>3. usedBy'[a][d] = usedBy[a][d] + 1
        BY <1>1, <1>4, <2>6 DEF Applied
      <3>4. usedBy[a][d] < AccountLimit
        BY <2>6 DEF Below
      <3> HIDE DEF old, new
      <3>5. Cardinality(new) <= usedBy'[a][d] /\ Cardinality(new) <= AccountLimit
        BY <2>2, <2>3, <2>4, <3>2, <3>3, <3>4, Limits, SMT
      <3> QED BY <3>5 DEF new
    <2>7. CASE ~(granted /\ trip = "ok" /\ d = today /\ ~ask[r].god /\ Account(r) = a)
      <3>1. new \subseteq old
        BY <1>2, <2>0, <2>5, <2>7 DEF OfAccount, Tenants
      <3>2. Cardinality(new) <= Cardinality(old)
        BY <2>1, <3>1, Fewer
      <3> HIDE DEF old, new
      <3>3. Cardinality(new) <= usedBy'[a][d] /\ Cardinality(new) <= AccountLimit
        BY <2>2, <2>3, <2>4, <3>2, Limits, SMT
      <3> QED BY <3>3 DEF new
    <2> QED BY <2>6, <2>7
  <1>14. Dated'
    BY <1>0, <1>2, <1>8, SameDated
  <1> QED BY <1>7, <1>9, <1>14, <1>10, <1>11, <1>12, <1>13, SidesNext DEF Inv

LEMMA RefundInv ==
  ASSUME Inv, NEW r \in Requests, Refund(r)
  PROVE  Inv'
  <1>0. /\ TypeOK /\ pc[r] = "refund"
        /\ charged[r] # None /\ ~ask[r].god
    BY DEF Inv, Held, Refund
  <1>1. PICK trip \in Trip :
          /\ Faulty(trip)
          /\ used' = IF Applied(trip) THEN [used EXCEPT ![today] = @ - 1] ELSE used
          /\ strayed' = IF Applied(trip) /\ charged[r] # today
                        THEN [strayed EXCEPT ![today] = @ + 1] ELSE strayed
    BY DEF Refund, Refunded
  <1>2. /\ charged' = [charged EXCEPT ![r] = None]
        /\ UNCHANGED <<bill, dated, ask, today, usedBy, spent, memory, cached, kept, accounted,
                       unseen, beside, excused>>
    BY DEF Refund
  <1>3. /\ faults' \in 0..MaxFaults
        /\ faults' = faults \/ faults' = faults + 1
        /\ faults' = 0 => trip = "ok" /\ faults = 0
    BY <1>0, <1>1, FaultyFacts
  <1>4. today \in Days /\ today \in Nat /\ used \in [Days -> Int]
        /\ charged \in [Requests -> Days \cup {None}] /\ strayed \in [Days -> Nat]
    BY <1>0, DaysFacts DEF TypeOK
  <1>5. /\ pc' \in [Requests -> Places] /\ out' \in [Requests -> Outcomes]
        /\ running' \in [Instances -> [Codes -> Requests \cup {None}]]
        /\ \A q \in Requests : pc'[q] = pc[q] \/ pc'[q] \in {"end", "keep"}
        /\ pc'[r] \in {"end", "keep"}
        /\ \A q \in Requests : q = r \/ pc'[q] = pc[q] \/ (pc[q] = "join" /\ pc'[q] = "end")
    <2>1. out[r] \in Outcomes /\ Settles(r, out[r])
      BY <1>0 DEF TypeOK, Refund
    <2> QED BY <1>0, <2>1, SettlesFacts
  <1>6. /\ used' \in [Days -> Int] /\ strayed' \in [Days -> Nat]
        /\ charged' \in [Requests -> Days \cup {None}]
    <2>1. used[today] - 1 \in Int /\ strayed[today] + 1 \in Nat
      BY <1>4, SMT
    <2> QED BY <1>1, <1>2, <1>4, <2>1
  <1>7. TypeOK'
    BY <1>0, <1>2, <1>3, <1>5, <1>6 DEF TypeOK
  <1>8. Held'
    <2> SUFFICES ASSUME NEW q \in Requests
                 PROVE  /\ charged'[q] # None => charged'[q] <= today
                        /\ pc'[q] \in {"new", "cache", "join", "budget", "global"}
                             => charged'[q] = None
                        /\ pc'[q] \in {"account", "refund"} => charged'[q] # None
                        /\ pc'[q] = "refund" => ~ask[q].god
      BY <1>2 DEF Held
    <2>1. q = r => charged'[q] = None
      BY <1>2, <1>4
    <2>2. q # r => charged'[q] = charged[q]
      BY <1>2, <1>4
    <2> QED BY <1>5, <2>1, <2>2 DEF Inv, Held
  <1>9. Ahead' /\ OvershootBounded'
    <2>1. \A q \in Requests : UnderWay(q)' => UnderWay(q)
      BY <1>5 DEF UnderWay
    <2> QED BY <1>2, <1>7, <2>1, SameMoney, MoneyTypes
  <1>10. AccountsCovered' /\ AccountsCapped'
    BY <1>2, Sides, SameAccounts DEF Inv
  <1>11. DayCovered' /\ DayCapped'
    <2> SUFFICES ASSUME NEW d \in Days
                 PROVE  /\ Cardinality(Tenants(charged, d)') <= used'[d] + strayed'[d]
                        /\ Cardinality(Tenants(charged, d)')
                             <= Max({Backstop, DailyLimit}) + strayed'[d]
      BY DEF DayCovered, DayCapped
    <2> DEFINE old == Tenants(charged, d)
               new == Tenants(charged, d)'
               cap == Max({Backstop, DailyLimit})
    <2>1. old \in SUBSET Requests /\ new = old \ {r}
      BY <1>2, <1>4, DaysFacts DEF Tenants
    <2>2. IsFiniteSet(old) /\ Cardinality(old) \in Nat /\ Cardinality(new) \in Nat
      BY <2>1, Some
    <2>3. Cardinality(old) <= used[d] + strayed[d] /\ Cardinality(old) <= cap + strayed[d]
      BY Sides DEF Inv, DayCovered, DayCapped
    <2>4. used[d] \in Int /\ strayed[d] \in Nat /\ cap \in Nat
      BY <1>4, LimitFacts
    <2>5. Cardinality(new) = IF charged[r] = d THEN Cardinality(old) - 1 ELSE Cardinality(old)
      BY <1>0, <2>1, <2>2, FS_RemoveElement DEF Tenants
    <2>6. /\ used'[d] = IF Applied(trip) /\ d = today THEN used[d] - 1 ELSE used[d]
          /\ strayed'[d] = IF Applied(trip) /\ d = today /\ charged[r] # today
                           THEN strayed[d] + 1 ELSE strayed[d]
      BY <1>1, <1>4
    <2> HIDE DEF old, new, cap
    <2>7. Cardinality(new) <= used'[d] + strayed'[d] /\ Cardinality(new) <= cap + strayed'[d]
      BY <2>2, <2>3, <2>4, <2>5, <2>6, SMT
    <2> QED BY <2>7 DEF new, cap
  <1>12. NothingStarved'
    <2> SUFFICES ASSUME faults' = 0, today = 0
                 PROVE  used'[0] = Cardinality({q \in Requests : charged'[q] = 0})
      BY <1>2 DEF NothingStarved
    <2> DEFINE old == {q \in Requests : charged[q] = 0}
               new == {q \in Requests : charged'[q] = 0}
    <2>1. used[0] = Cardinality(old) /\ trip = "ok"
      BY <1>3 DEF Inv, NothingStarved
    <2>2. charged[r] = 0
      <3>1. charged[r] <= 0 /\ charged[r] \in Nat
        BY <1>0, <1>4, DaysFacts DEF Inv, Held
      <3> QED BY <3>1, SMT
    <2>3. new = old \ {r} /\ r \in old
      BY <1>2, <1>4, <2>2, DaysFacts
    <2>4. IsFiniteSet(old)
      BY Some
    <2>5. Cardinality(new) = Cardinality(old) - 1
      BY <2>3, <2>4, FS_RemoveElement
    <2>6. used'[0] = used[0] - 1
      BY <1>1, <1>4, <2>1 DEF Applied
    <2> QED BY <2>1, <2>5, <2>6
  <1>13. Dated'
    BY <1>0, <1>2, <1>5, SameDated
  <1> QED BY <1>7, <1>8, <1>13, <1>9, <1>10, <1>11, <1>12, SidesNext DEF Inv

-----------------------------------------------------------------------------
(* The bill *)

LEMMA RecordInv ==
  ASSUME Inv, NEW r \in Requests, Record(r)
  PROVE  Inv'
  <1>0. TypeOK /\ pc[r] \in {"record", "again"}
    BY DEF Inv, Record
  <1>1. PICK trip \in Trip :
          /\ Faulty(trip)
          /\ spent' = IF Applied(trip) THEN [spent EXCEPT ![dated[r]] = @ + bill[r]] ELSE spent
          /\ excused' = IF Applied(trip) /\ (Unweighed(r) \/ (trip = "unheard" /\ pc[r] = "record"))
                        THEN excused + bill[r] ELSE excused
          /\ \/ /\ trip # "ok" /\ pc[r] = "record" /\ To(r, "again")
                /\ UNCHANGED <<out, bill, dated, memory, cached, running>>
             \/ /\ trip = "ok" \/ pc[r] = "again"
                /\ Returns(r)
                /\ memory' = IF trip = "ok" THEN memory
                             ELSE [memory EXCEPT ![At(r)][dated[r]] = @ + bill[r]]
    BY <1>0 DEF Record, BillDay
  <1>2. UNCHANGED <<ask, today, used, usedBy, kept, charged, accounted, strayed, unseen, beside>>
    BY DEF Record
  <1>17. PICK day \in Days : day = dated[r]
    <2>1. dated[r] # None /\ dated[r] \in Days \cup {None}
      BY <1>0 DEF Inv, TypeOK, Dated
    <2> QED BY <2>1
  <1>3. faults' \in 0..MaxFaults /\ (faults' = faults \/ faults' = faults + 1)
    BY <1>0, <1>1, FaultyFacts
  <1>4. /\ today \in Days /\ today \in Nat /\ day \in Nat /\ day <= today /\ spent \in [Days -> Nat]
        /\ bill[r] \in Nat /\ bill[r] <= WorstCase /\ bill[r] \in Costs \cup {0}
        /\ At(r) \in Instances /\ Code(r) \in Codes /\ out[r] \in Outcomes
        /\ beside \in Nat /\ excused \in Nat
    <2>1. day <= today
      BY <1>17, DaysFacts DEF Inv, Dated
    <2> QED BY <1>0, <2>1, DaysFacts, CostsFacts, AskFacts DEF TypeOK
  <1>5. spent' \in [Days -> Nat] /\ excused' \in Nat /\ excused <= excused'
    <2>1. spent[day] + bill[r] \in Nat
      BY <1>4, SMT
    <2>2. spent' \in [Days -> Nat]
      BY <1>1, <1>4, <1>17, <2>1
    <2>3. excused' \in Nat /\ excused <= excused'
      BY <1>1, <1>4, SMT
    <2> QED BY <2>2, <2>3
  <1>6. /\ pc' \in [Requests -> Places] /\ out' \in [Requests -> Outcomes]
        /\ running' \in [Instances -> [Codes -> Requests \cup {None}]]
        /\ bill' \in [Requests -> Costs \cup {0}]
        /\ dated' \in [Requests -> Days \cup {None}]
        /\ memory' \in [Instances -> [Days -> Nat]]
        /\ cached' \in [Instances -> SUBSET Codes]
        /\ \A q \in Requests : pc'[q] = pc[q] \/ pc'[q] \in {"end", "keep"}
                               \/ (q = r /\ pc'[q] = "again" /\ trip # "ok")
        /\ trip = "ok" \/ pc[r] = "again" => pc'[r] \in {"end", "keep"}
        /\ \A q \in Requests : q # r => pc'[q] \in {pc[q], "end", "keep"} /\ dated'[q] = dated[q]
        /\ \A q \in Requests : q # r => pc'[q] = pc[q] \/ pc[q] = "join"
        /\ \/ pc'[r] \in {"end", "keep"} /\ dated'[r] = None
           \/ pc'[r] = "again" /\ dated'[r] = day
    <2>1. CASE /\ trip # "ok" /\ pc[r] = "record" /\ To(r, "again")
               /\ UNCHANGED <<out, bill, dated, memory, cached, running>>
      <3>1. pc' \in [Requests -> Places]
        BY <1>0, <2>1, ToType DEF Places
      <3>2. \A q \in Requests : pc'[q] = pc[q] \/ (q = r /\ pc'[q] = "again")
        BY <1>0, <2>1 DEF TypeOK, To
      <3>3. pc'[r] = "again"
        BY <1>0, <2>1 DEF TypeOK, To
      <3> QED BY <1>0, <1>17, <2>1, <3>1, <3>2, <3>3 DEF TypeOK
    <2>2. CASE Returns(r) /\ memory' = IF trip = "ok" THEN memory
                                      ELSE [memory EXCEPT ![At(r)][dated[r]] = @ + bill[r]]
      <3>1. Settles(r, out[r])
        BY <2>2 DEF Returns
      <3>2. /\ pc' \in [Requests -> Places] /\ out' \in [Requests -> Outcomes]
            /\ running' \in [Instances -> [Codes -> Requests \cup {None}]]
            /\ \A q \in Requests : pc'[q] = pc[q] \/ pc'[q] \in {"end", "keep"}
            /\ pc'[r] \in {"end", "keep"}
            /\ \A q \in Requests : q = r \/ pc'[q] = pc[q] \/ (pc[q] = "join" /\ pc'[q] = "end")
        BY <1>0, <1>4, <3>1, SettlesFacts
      <3>6. /\ dated' \in [Requests -> Days \cup {None}] /\ dated'[r] = None
            /\ \A q \in Requests : q # r => dated'[q] = dated[q]
        BY <1>0, <2>2 DEF Returns, TypeOK
      <3>3. bill' \in [Requests -> Costs \cup {0}]
        BY <1>0, <2>2 DEF Returns, TypeOK
      <3>4. cached' \in [Instances -> SUBSET Codes]
        BY <1>0, <1>4, <2>2 DEF Returns, TypeOK
      <3>5. memory' \in [Instances -> [Days -> Nat]]
        <4>1. memory \in [Instances -> [Days -> Nat]]
          BY <1>0 DEF TypeOK
        <4>2. memory[At(r)][day] + bill[r] \in Nat
          BY <1>4, <4>1, SMT
        <4>3. [memory[At(r)] EXCEPT ![day] = @ + bill[r]] \in [Days -> Nat]
          BY <1>4, <4>1, <4>2
        <4> QED BY <1>4, <1>17, <2>2, <4>1, <4>3
      <3> QED BY <3>2, <3>3, <3>4, <3>5, <3>6
    <2> QED BY <1>1, <2>1, <2>2
  <1>7. TypeOK'
    BY <1>0, <1>2, <1>3, <1>5, <1>6 DEF TypeOK
  <1>8. Held'
    BY <1>2, <1>6, SameHolds
  <1>18. Dated'
    <2>1. \A q \in Requests : /\ pc[q] \in {"record", "again"} <=> dated[q] # None
                              /\ dated[q] # None => dated[q] <= today
      BY DEF Inv, Dated
    <2>2. day # None
      BY DaysFacts
    <2> SUFFICES ASSUME NEW q \in Requests
                 PROVE  /\ pc'[q] \in {"record", "again"} <=> dated'[q] # None
                        /\ dated'[q] # None => dated'[q] <= today
      BY <1>2 DEF Dated
    <2>3. CASE q = r
      BY <1>4, <1>6, <2>2, <2>3
    <2>4. CASE q # r
      <3>1. /\ dated'[q] = dated[q]
            /\ pc'[q] = pc[q] \/ (pc[q] = "join" /\ pc'[q] \in {"join", "end", "keep"})
        BY <1>6, <2>4
      <3>2. pc'[q] \in {"record", "again"} <=> pc[q] \in {"record", "again"}
        BY <3>1
      <3> QED BY <2>1, <3>1, <3>2
    <2> QED BY <2>3, <2>4
  \* r owes its bill to one day, and to none once it has left.
  <1> DEFINE left == (trip = "ok" \/ pc[r] = "again") /\ ~Unweighed(r)
  <1>9. ASSUME NEW d \in Days
        PROVE  /\ Owing(d)' \subseteq Owing(d) /\ Owing(d) \in SUBSET Requests
               /\ (d = day /\ left => r \in Owing(d) /\ r \notin Owing(d)')
    <2>1. \A q \in Requests : Unweighed(q)' = Unweighed(q)
      BY <1>2 DEF Unweighed
    <2>2. Owing(d)' \subseteq Owing(d)
      BY <1>0, <1>2, <1>6, <1>17, <2>1 DEF Owing, UnderWay
    <2>3. d = day /\ left => r \in Owing(d) /\ r \notin Owing(d)'
      BY <1>0, <1>6, <1>17 DEF Owing, UnderWay
    <2> QED BY <2>2, <2>3, OwingRequests
  <1>10. ASSUME NEW d \in Days
         PROVE  /\ WorstCase * Cardinality(Owing(d)) \in Nat
                /\ WorstCase * Cardinality(Owing(d)') \in Nat
                /\ WorstCase * Cardinality(Owing(d)') <= WorstCase * Cardinality(Owing(d))
                /\ d = day /\ left => WorstCase * Cardinality(Owing(d)') + WorstCase
                                        <= WorstCase * Cardinality(Owing(d))
    <2>1. PICK before \in Nat : before = Cardinality(Owing(d))
      BY OwingRequests, Some
    <2>2. PICK after \in Nat : after = Cardinality(Owing(d)')
      BY OwingRequests, Some
    <2>3. after <= before
      BY <1>9, <2>1, <2>2, Fewer
    <2>4. WorstCase * after <= WorstCase * before
          /\ WorstCase * after \in Nat /\ WorstCase * before \in Nat
      BY <2>3, MulMono, Limits
    <2>5. ASSUME d = day, left PROVE WorstCase * after + WorstCase <= WorstCase * before
      <3>1. Owing(d)' \in SUBSET (Owing(d) \ {r}) /\ Owing(d) \in SUBSET Requests /\ r \in Owing(d)
        BY <1>9, <2>5
      <3>2. IsFiniteSet(Owing(d))
        BY <3>1, Some
      <3>3. Cardinality(Owing(d) \ {r}) = before - 1
        BY <2>1, <3>1, <3>2, FS_RemoveElement
      <3>4. Owing(d) \ {r} \in SUBSET Requests
        BY <3>1
      <3>5. after <= Cardinality(Owing(d) \ {r})
        BY <2>2, <3>1, <3>4, Fewer
      <3>6. after + 1 \in Nat /\ after + 1 <= before
        BY <3>3, <3>5, SMT
      <3>7. WorstCase * (after + 1) <= WorstCase * before
        BY <3>6, MulMono, Limits
      <3>8. WorstCase * (after + 1) = WorstCase * after + WorstCase
        BY MulOne, Limits
      <3> QED BY <3>7, <3>8
    <2> QED BY <2>1, <2>2, <2>4, <2>5
  <1> HIDE DEF left
  <1>11. WorstCase * beside \in Nat
    BY <1>4, MulOne, Limits
  <1>12. \A d \in Days : /\ d # day => spent'[d] = spent[d]
                         /\ d = day => spent'[d] = IF Applied(trip) THEN spent[d] + bill[r]
                                                   ELSE spent[d]
    BY <1>1, <1>4, <1>17
  <1>13. ASSUME NEW d \in Days
         PROVE  /\ spent'[d] + WorstCase * Cardinality(Owing(d)')
                     <= BudgetCap + WorstCase * beside + excused'
                /\ d > today => spent'[d] = 0
                /\ spent'[d] <= BudgetCap + WorstCase * beside + excused'
    <2>1. d \in Nat /\ spent[d] \in Nat /\ spent'[d] \in Nat
      BY <1>4, <1>5, DaysFacts
    <2>2. /\ spent[d] + WorstCase * Cardinality(Owing(d))
               <= BudgetCap + WorstCase * beside + excused
          /\ d > today => spent[d] = 0
      BY DEF Inv, Ahead
    <2>3. PICK b \in Nat, a \in Nat :
            /\ b = WorstCase * Cardinality(Owing(d)) /\ a = WorstCase * Cardinality(Owing(d)')
            /\ a <= b
            /\ d = day /\ left => a + WorstCase <= b
      BY <1>10
    <2>4. PICK w \in Nat : w = WorstCase * beside
      BY <1>11
    <2>5. spent[d] + b <= BudgetCap + w + excused
      BY <2>2, <2>3, <2>4
    <2>6. CASE d # day \/ ~Applied(trip)
      <3>1. spent'[d] = spent[d]
        BY <1>12, <2>6
      <3> QED BY <1>4, <1>5, <2>1, <2>2, <2>3, <2>4, <2>5, <3>1, Limits, SMT
    <2>7. CASE d = day /\ Applied(trip)
      <3>1. spent'[d] = spent[d] + bill[r]
        BY <1>12, <2>7
      <3>2. CASE Unweighed(r) \/ (trip = "unheard" /\ pc[r] = "record")
        <4>1. excused' = excused + bill[r]
          BY <1>1, <2>7, <3>2
        <4> QED BY <1>4, <1>5, <2>1, <2>2, <2>3, <2>4, <2>5, <2>7, <3>1, <4>1, Limits, SMT
      <3>3. CASE ~(Unweighed(r) \/ (trip = "unheard" /\ pc[r] = "record"))
        <4>1. left
          BY <1>0, <2>7, <3>3 DEF left, Applied, Trip
        <4>2. excused' = excused
          BY <1>1, <3>3
        <4> QED BY <1>4, <1>5, <2>1, <2>2, <2>3, <2>4, <2>5, <2>7, <3>1, <4>1, <4>2, Limits, SMT
      <3> QED BY <3>2, <3>3
    <2> QED BY <2>6, <2>7
  <1>14. Ahead'
    BY <1>2, <1>13 DEF Ahead
  <1>15. OvershootBounded'
    BY <1>2, <1>13 DEF OvershootBounded
  <1>16. Covered' /\ CapsKept' /\ NothingStarved'
    BY <1>2, <1>3, <1>7, SameCharges
  <1> QED BY <1>7, <1>8, <1>18, <1>14, <1>15, <1>16 DEF Inv

-----------------------------------------------------------------------------
(* The end of an instance *)

LEMMA DieInv ==
  ASSUME Inv, NEW i \in Instances, Die(i)
  PROVE  Inv'
  <1>0. TypeOK
    BY DEF Inv
  <1> DEFINE gone == {r \in Requests : At(r) = i /\ pc[r] \notin {"new", "end"}}
  <1>1. /\ faults < MaxFaults /\ faults' = faults + 1
        /\ pc' = [r \in Requests |-> IF r \in gone THEN "end" ELSE pc[r]]
        /\ out' = [r \in Requests |-> IF r \in gone THEN "lost" ELSE out[r]]
        /\ bill' = [r \in Requests |-> IF r \in gone THEN 0 ELSE bill[r]]
        /\ dated' = [r \in Requests |-> IF r \in gone THEN None ELSE dated[r]]
        /\ charged' = [r \in Requests |->
                         IF r \in gone /\ pc[r] = "refund" THEN None ELSE charged[r]]
        /\ memory' = [memory EXCEPT ![i] = [d \in Days |-> 0]]
        /\ cached' = [cached EXCEPT ![i] = {}]
        /\ running' = [running EXCEPT ![i] = [c \in Codes |-> None]]
        /\ UNCHANGED <<ask, today, used, usedBy, spent, kept, accounted, strayed,
                       unseen, beside, excused>>
    BY DEF Die
  <1> HIDE DEF gone
  <1>2. faults \in Nat /\ faults' \in 0..MaxFaults /\ faults' # 0
    BY <1>0, <1>1, Limits, SMT DEF TypeOK
  <1>3. /\ pc' \in [Requests -> Places] /\ out' \in [Requests -> Outcomes]
        /\ bill' \in [Requests -> Costs \cup {0}]
        /\ charged' \in [Requests -> Days \cup {None}]
        /\ dated' \in [Requests -> Days \cup {None}]
    BY <1>0, <1>1 DEF TypeOK, Places, Outcomes
  <1>4. /\ memory' \in [Instances -> [Days -> Nat]]
        /\ cached' \in [Instances -> SUBSET Codes]
        /\ running' \in [Instances -> [Codes -> Requests \cup {None}]]
    BY <1>0, <1>1 DEF TypeOK
  <1>5. TypeOK'
    BY <1>0, <1>1, <1>2, <1>3, <1>4 DEF TypeOK
  <1>6. \A q \in Requests : /\ pc'[q] = pc[q] \/ pc'[q] = "end"
                            /\ charged'[q] = charged[q] \/ (charged'[q] = None /\ pc'[q] = "end")
    BY <1>1
  <1>7. Held'
    BY <1>1, <1>6 DEF Inv, Held
  <1>12. \A q \in Requests : \/ (pc'[q] = "end" /\ dated'[q] = None)
                             \/ (pc'[q] = pc[q] /\ dated'[q] = dated[q])
    BY <1>1
  <1>13. Dated'
    BY <1>1, <1>12 DEF Inv, Dated
  <1>8. Ahead' /\ OvershootBounded'
    <2>1. \A q \in Requests : Unweighed(q)' = Unweighed(q)
      BY <1>1 DEF Unweighed
    <2>2. \A d \in Days : Owing(d)' \subseteq Owing(d)
      BY <1>1, <1>12, <2>1 DEF Owing, UnderWay
    <2> QED BY <1>1, <1>5, <2>2, FewerOwing, MoneyTypes
  <1>9. AccountsCovered' /\ AccountsCapped'
    BY <1>1, Sides, SameAccounts DEF Inv
  <1>10. DayCovered' /\ DayCapped'
    <2> SUFFICES ASSUME NEW d \in Days
                 PROVE  /\ Cardinality(Tenants(charged, d)') <= used[d] + strayed[d]
                        /\ Cardinality(Tenants(charged, d)')
                             <= Max({Backstop, DailyLimit}) + strayed[d]
      BY <1>1 DEF DayCovered, DayCapped
    <2> DEFINE old == Tenants(charged, d)
               new == Tenants(charged, d)'
               cap == Max({Backstop, DailyLimit})
    <2>1. new \in SUBSET old /\ old \in SUBSET Requests
      BY <1>1, <1>6, DaysFacts DEF Tenants
    <2>2. Cardinality(old) \in Nat /\ Cardinality(new) \in Nat
          /\ Cardinality(new) <= Cardinality(old)
      BY <2>1, Some, Fewer
    <2>3. Cardinality(old) <= used[d] + strayed[d] /\ Cardinality(old) <= cap + strayed[d]
      BY Sides DEF Inv, DayCovered, DayCapped
    <2>4. used[d] \in Int /\ strayed[d] \in Nat /\ cap \in Nat
      BY <1>0, LimitFacts DEF TypeOK
    <2> HIDE DEF old, new, cap
    <2>5. Cardinality(new) <= used[d] + strayed[d] /\ Cardinality(new) <= cap + strayed[d]
      BY <2>2, <2>3, <2>4, SMT
    <2> QED BY <2>5 DEF new, cap
  <1>11. NothingStarved'
    BY <1>2 DEF NothingStarved
  <1> QED BY <1>5, <1>7, <1>13, <1>8, <1>9, <1>10, <1>11, SidesNext DEF Inv

-----------------------------------------------------------------------------
(* Theorems *)

LEMMA NextInv == Inv /\ [Next]_vars => Inv'
  <1> SUFFICES ASSUME Inv, [Next]_vars PROVE Inv'
    OBVIOUS
  <1>1. CASE Midnight
    BY <1>1, MidnightInv
  <1>2. ASSUME NEW r \in Requests, Step(r) PROVE Inv'
    BY <1>2, ArriveInv, EnterInv, CheckBudgetInv, ChargeGlobalInv, ChargeAccountInv,
       RefundInv, CallInv, RecordInv, KeepInv DEF Step
  <1>3. ASSUME NEW i \in Instances, Die(i) PROVE Inv'
    BY <1>3, DieInv
  <1>4. CASE UNCHANGED vars
    BY <1>4, StutterInv
  <1> QED BY <1>1, <1>2, <1>3, <1>4 DEF Next

LEMMA SpecInv == Spec => []Inv
  BY InitInv, NextInv, PTL DEF Spec

\* Every state has the types TypeOK gives it: in particular no request ends with
\* an outcome the pipeline does not have, whatever storage and instances do.
THEOREM TypeCorrect == Spec => []TypeOK
  <1>1. Inv => TypeOK
    BY DEF Inv
  <1> QED BY <1>1, SpecInv, PTL

\* No day grants more calls than its limit and no account more than its own,
\* but for refunds that strayed into the day (incrementIfBelow and
\* chargeDailySlotConditional of aiSpendGuard.ts): for any number of instances
\* racing, any faults and any midnights.
THEOREM LimitsHold == Spec => []CapsKept
  <1>1. Inv => CapsKept
    BY DEF Inv
  <1> QED BY <1>1, SpecInv, PTL

\* Without faults and midnights a refused request leaves the shared counter as
\* it was (refundDailySlot), whatever requests come between its charge and its
\* refund.
THEOREM RefusalsCostNothing == Spec => []NothingStarved
  <1>1. Inv => NothingStarved
    BY DEF Inv
  <1> QED BY <1>1, SpecInv, PTL

\* The money of a day passes its cap by no more than the worst case of the calls
\* that were under way when a check passed, the owner's, those let through when
\* the budget could not be read, and the records made twice (the budget check of
\* pipeline.ts, checkGptDecodeBudget and recordGptDecodeSpend).
THEOREM BudgetHolds == Spec => []OvershootBounded
  <1>1. Inv => OvershootBounded
    BY DEF Inv
  <1> QED BY <1>1, SpecInv, PTL

=============================================================================
