----------------------------- MODULE SpendGuard -----------------------------
(***************************************************************************)
(* What a paid decode costs and who may ask for one.  Serverless instances *)
(* share durable counters: calls of the day, calls of the day per account, *)
(* money of the day.  A request reads the budget, charges the day, charges *)
(* its account (refunding the day if refused), calls the provider and      *)
(* records the bill, each in a round trip of its own; the clock may pass   *)
(* midnight and the instance may die between any two of them.              *)
(*                                                                         *)
(* Requests that a catalogue answers for free never come this far, nor do  *)
(* those the rate limiter of the route turns away.                         *)
(***************************************************************************)
EXTENDS Integers, FiniteSets, FiniteSetsExt

CONSTANTS
  Requests,      \* requests, each sent once
  Mixes,         \* what may be asked, for each request: code, account (None if
                 \* anonymous), at (instance), god (the platform's owner), force
  DailyLimit,    \* calls of a day, for those without an account
  Backstop,      \* calls of a day, for those with one
  AccountLimit,  \* calls of a day of one account
  BudgetCap,     \* money of a day
  WorstCase,     \* what the budget check allows for one call
  Costs,         \* what a call may cost
  LastDay, MaxFaults,   \* bounds: midnights, storage faults and dead instances
  None

ASSUME LimitsAssumption ==
  {DailyLimit, Backstop, AccountLimit, BudgetCap, WorstCase, LastDay, MaxFaults} \subseteq Nat
ASSUME CostsAssumption == Costs \subseteq 1..WorstCase
ASSUME RequestsAssumption == IsFiniteSet(Requests)
ASSUME MixesAssumption == \A m \in Mixes : \A r \in Requests : m[r].god \in BOOLEAN
ASSUME NoneAssumption == None \notin Nat

VARIABLES
  ask,       \* what each request asks, one of Mixes
  pc,        \* where each request is
  out,       \* how it ended, or will end when its refund is through
  bill,      \* what its call has cost and nobody has recorded
  dated,     \* the day that bill is for, None before the call has returned
  today,
  used,      \* calls charged, per day
  usedBy,    \* calls charged, per account and day
  spent,     \* money recorded, per day
  memory,    \* money an instance recorded for itself when the storage failed
  cached,    \* codes each instance has an answer for
  kept,      \* codes with an answer in the storage
  running,   \* the request computing a code on an instance, for others to join
  faults,    \* faults so far
  charged,   \* the day each request holds a call of, None without one
  accounted, \* the day its account was charged
  strayed,   \* refunds each day took for a charge of the day before
  unseen,    \* requests let through although the budget could not be read
  beside,    \* the most other calls a passing check of the budget did not see
  excused    \* money recorded for the owner, for the unseen, or for the first of two
             \* records when its answer was lost

Shared == <<used, usedBy, spent, memory, cached, kept, running>>
Notes == <<charged, accounted, strayed, unseen, beside, excused>>
vars == <<ask, pc, out, bill, dated, today, Shared, faults, Notes>>

Instances == {m[r].at : m \in Mixes, r \in Requests}
Codes == {m[r].code : m \in Mixes, r \in Requests}
Accounts == {m[r].account : m \in Mixes, r \in Requests} \ {None}
Days == 0..LastDay

Places == {"new", "cache", "join", "budget", "global", "account", "refund", "call",
           "record", "again", "keep", "end"}
Outcomes == {None, "cached", "blocked", "unavailable", "answered", "missed", "lost"}

TypeOK ==
  /\ ask \in Mixes /\ pc \in [Requests -> Places] /\ out \in [Requests -> Outcomes]
  /\ bill \in [Requests -> Costs \cup {0}] /\ today \in Days
  /\ used \in [Days -> Int] /\ usedBy \in [Accounts -> [Days -> Nat]]
  /\ spent \in [Days -> Nat] /\ memory \in [Instances -> [Days -> Nat]]
  /\ cached \in [Instances -> SUBSET Codes] /\ kept \subseteq Codes
  /\ running \in [Instances -> [Codes -> Requests \cup {None}]]
  /\ faults \in 0..MaxFaults
  /\ {dated, charged, accounted} \subseteq [Requests -> Days \cup {None}]
  /\ strayed \in [Days -> Nat] /\ unseen \subseteq Requests /\ {beside, excused} \subseteq Nat

Init ==
  /\ ask \in Mixes /\ pc = [r \in Requests |-> "new"] /\ out = [r \in Requests |-> None]
  /\ bill = [r \in Requests |-> 0] /\ today = 0
  /\ used = [d \in Days |-> 0] /\ usedBy = [a \in Accounts |-> used] /\ spent = used
  /\ memory = [i \in Instances |-> used]
  /\ cached = [i \in Instances |-> {}] /\ kept = {}
  /\ running = [i \in Instances |-> [c \in Codes |-> None]]
  /\ faults = 0 /\ charged = [r \in Requests |-> None] /\ accounted = charged
  /\ dated = charged /\ strayed = used /\ unseen = {} /\ beside = 0 /\ excused = 0

At(r) == ask[r].at
Code(r) == ask[r].code
Account(r) == ask[r].account

\* A call to the storage works, fails before it is applied, or is applied and
\* its answer is lost.
Trip == {"ok", "refused", "unheard"}
Faulty(trip) ==
  IF trip = "ok" THEN UNCHANGED faults ELSE faults < MaxFaults /\ faults' = faults + 1
Applied(trip) == trip # "refused"

-----------------------------------------------------------------------------
(* runDecodePipeline up to compute, and withDecodeCache *)

To(r, place) == pc' = [pc EXCEPT ![r] = place]
Ends(r, how) == To(r, "end") /\ out' = [out EXCEPT ![r] = how]

\* The stored answer is looked for unless the instance has one of its own; a read
\* that fails is a miss.
Arrive(r) ==
  /\ pc[r] = "new"
  /\ IF ask[r].force \/ Code(r) \in cached[At(r)]
     THEN To(r, "cache") /\ UNCHANGED <<out, faults>>
     ELSE \E trip \in {"ok", "refused"} :
            /\ Faulty(trip)
            /\ IF trip = "ok" /\ Code(r) \in kept THEN Ends(r, "cached")
               ELSE To(r, "cache") /\ UNCHANGED out
  /\ UNCHANGED <<bill, dated, ask, today, Shared, Notes>>

\* A forced retry neither reads the cache nor joins, and nobody joins it.
Enter(r) ==
  /\ pc[r] = "cache"
  /\ IF ask[r].force THEN To(r, "budget") /\ UNCHANGED <<out, running>>
     ELSE IF Code(r) \in cached[At(r)] THEN Ends(r, "cached") /\ UNCHANGED running
     ELSE IF running[At(r)][Code(r)] # None
     THEN To(r, "join") /\ UNCHANGED <<out, running>>
     ELSE /\ To(r, "budget") /\ running' = [running EXCEPT ![At(r)][Code(r)] = r]
          /\ UNCHANGED out
  /\ UNCHANGED <<bill, dated, ask, today, used, usedBy, spent, memory, cached, kept, faults, Notes>>

\* Mutant: only an answer releases those who wait.
JoinedIfAnswered(r) ==
  {q \in Requests : pc[q] = "join" /\ At(q) = At(r) /\ Code(q) = Code(r) /\ pc[r] = "record"}

\* The requests that learn what r learns: those that have joined it.
Joined(r) ==
  {q \in Requests : pc[q] = "join" /\ At(q) = At(r) /\ Code(q) = Code(r)
                    /\ running[At(r)][Code(r)] = r}

\* compute returns or throws: the code is free again and every waiter has the
\* outcome; only a request of its own with an answer has something to keep.
Settles(r, how) ==
  /\ pc' = [q \in Requests |-> IF q = r /\ how = "answered" THEN "keep"
                               ELSE IF q = r \/ q \in Joined(r) THEN "end" ELSE pc[q]]
  /\ out' = [q \in Requests |-> IF q = r \/ q \in Joined(r) THEN how ELSE out[q]]
  /\ running' = IF running[At(r)][Code(r)] = r
                THEN [running EXCEPT ![At(r)][Code(r)] = None] ELSE running

-----------------------------------------------------------------------------
(* compute *)

UnderWay(r) == pc[r] \in {"global", "account", "call", "record", "again"}
\* No check has weighed its bill: the owner's, or one let through unseen.
Unweighed(r) == ask[r].god \/ r \in unseen
\* The calls under way whose bill may yet be recorded for the day.
Owing(d) ==
  {r \in Requests : UnderWay(r) /\ ~Unweighed(r)
                    /\ (dated[r] = d \/ (dated[r] = None /\ today <= d))}

\* Mutant: the call about to be made is left out.
AffordableNow(money) == money <= BudgetCap

\* The worst a call may cost has to fit beside what the day has recorded.
Affordable(money) == money + WorstCase <= BudgetCap

\* The budget is weighed by the money the storage has for the day, or by the
\* instance's own if that cannot be read; the owner's is not looked at.  Without
\* a storage at all nothing is called.
CheckBudget(r) ==
  /\ pc[r] = "budget"
  /\ \/ \E trip \in IF ask[r].god THEN {"ok"} ELSE {"ok", "refused"} :
          /\ Faulty(trip)
          /\ IF ask[r].god \/ Affordable(IF trip = "ok" THEN spent[today] ELSE memory[At(r)][today])
             THEN /\ To(r, "global")
                  /\ unseen' = IF trip = "ok" THEN unseen ELSE unseen \cup {r}
                  /\ beside' = IF ask[r].god \/ trip # "ok" THEN beside
                               ELSE Max({beside, Cardinality(Owing(today))})
                  /\ UNCHANGED <<out, running>>
             ELSE Settles(r, "unavailable") /\ UNCHANGED <<unseen, beside>>
     \/ Faulty("refused") /\ Settles(r, "unavailable") /\ UNCHANGED <<unseen, beside>>
  /\ UNCHANGED <<bill, dated, ask, today, used, usedBy, spent, memory, cached, kept,
                 charged, accounted, strayed, excused>>

Limit(r) == IF Account(r) = None THEN DailyLimit ELSE Backstop
\* Mutant: the limit itself is granted too.
UpTo(n, limit) == n <= limit
\* incrementIfBelow, in one statement.
Below(n, limit) == n < limit

\* chargeDailySlotConditional; for the platform's owner, chargeDailySlot.
ChargeGlobal(r) ==
  /\ pc[r] = "global"
  /\ \E trip \in Trip :
       LET granted == ask[r].god \/ Below(used[today], Limit(r))
       IN /\ Faulty(trip)
          /\ used' = IF granted /\ Applied(trip) THEN [used EXCEPT ![today] = @ + 1] ELSE used
          /\ charged' = IF granted /\ trip = "ok" THEN [charged EXCEPT ![r] = today] ELSE charged
          /\ IF trip # "ok" THEN Settles(r, "unavailable")
             ELSE IF ~granted THEN Settles(r, "blocked")
             ELSE To(r, IF Account(r) = None THEN "call" ELSE "account") /\ UNCHANGED <<out, running>>
  /\ UNCHANGED <<bill, dated, ask, today, usedBy, spent, memory, cached, kept, accounted, strayed, unseen, beside, excused>>

\* The account's charge; refused or failed, the day's is to be refunded, except
\* for the owner, who goes on.
ChargeAccount(r) ==
  /\ pc[r] = "account"
  /\ \E trip \in Trip :
       LET granted == ask[r].god \/ Below(usedBy[Account(r)][today], AccountLimit)
       IN /\ Faulty(trip)
          /\ usedBy' = IF granted /\ Applied(trip)
                       THEN [usedBy EXCEPT ![Account(r)][today] = @ + 1] ELSE usedBy
          /\ IF ask[r].god \/ (granted /\ trip = "ok")
             THEN /\ To(r, "call") /\ UNCHANGED out
                  /\ accounted' = IF granted /\ trip = "ok"
                                  THEN [accounted EXCEPT ![r] = today] ELSE accounted
             ELSE /\ To(r, "refund") /\ UNCHANGED accounted
                  /\ out' = [out EXCEPT ![r] = IF trip = "ok" THEN "blocked" ELSE "unavailable"]
  /\ UNCHANGED <<bill, dated, ask, today, used, spent, memory, cached, kept, running,
                 charged, strayed, unseen, beside, excused>>

\* Mutant: the refund is forgotten.
NotRefunded == used
\* refundDailySlot takes one from the counter of today, whichever day was charged.
Refunded == [used EXCEPT ![today] = @ - 1]

Refund(r) ==
  /\ pc[r] = "refund"
  /\ \E trip \in Trip :
       /\ Faulty(trip)
       /\ used' = IF Applied(trip) THEN Refunded ELSE used
       /\ strayed' = IF Applied(trip) /\ charged[r] # today
                     THEN [strayed EXCEPT ![today] = @ + 1] ELSE strayed
  /\ charged' = [charged EXCEPT ![r] = None]
  /\ Settles(r, out[r])
  /\ UNCHANGED <<bill, dated, ask, today, usedBy, spent, memory, cached, kept, accounted, unseen, beside, excused>>

\* The provider answers or not, and costs money either way; the bill is for the
\* day it comes on, however long its record takes.
Call(r) ==
  /\ pc[r] = "call" /\ To(r, "record") /\ dated' = [dated EXCEPT ![r] = today]
  /\ \E cost \in Costs, how \in {"answered", "missed"} :
       bill' = [bill EXCEPT ![r] = cost] /\ out' = [out EXCEPT ![r] = how]
  /\ UNCHANGED <<ask, today, Shared, faults, Notes>>

\* The answer is stored by the instance and shared; the bill is settled.
Returns(r) ==
  /\ Settles(r, out[r])
  /\ bill' = [bill EXCEPT ![r] = 0] /\ dated' = [dated EXCEPT ![r] = None]
  /\ cached' = IF out[r] = "answered"
               THEN [cached EXCEPT ![At(r)] = @ \cup {Code(r)}] ELSE cached

\* Mutant: the record is for the day it is made on.
RecordedOn(r) == today
BillDay(r) == dated[r]

\* recordGptDecodeSpend: a failure is tried once more, whether or not it was
\* applied, and a second one is left with the instance.
Record(r) ==
  /\ pc[r] \in {"record", "again"}
  /\ \E trip \in Trip :
       /\ Faulty(trip)
       /\ spent' = IF Applied(trip) THEN [spent EXCEPT ![BillDay(r)] = @ + bill[r]] ELSE spent
       /\ excused' = IF Applied(trip) /\ (Unweighed(r) \/ (trip = "unheard" /\ pc[r] = "record"))
                     THEN excused + bill[r] ELSE excused
       /\ IF trip # "ok" /\ pc[r] = "record"
          THEN To(r, "again") /\ UNCHANGED <<out, bill, dated, memory, cached, running>>
          ELSE /\ Returns(r)
               /\ memory' = IF trip = "ok" THEN memory
                            ELSE [memory EXCEPT ![At(r)][BillDay(r)] = @ + bill[r]]
  /\ UNCHANGED <<ask, today, used, usedBy, kept, charged, accounted, strayed, unseen, beside>>

\* persistDecode, by the request that computed the answer; a failure is left at that.
Keep(r) ==
  /\ pc[r] = "keep" /\ To(r, "end")
  /\ \E trip \in Trip :
       Faulty(trip) /\ kept' = IF Applied(trip) THEN kept \cup {Code(r)} ELSE kept
  /\ UNCHANGED <<ask, out, bill, dated, today, used, usedBy, spent, memory, cached, running, Notes>>

-----------------------------------------------------------------------------
(* What nobody asked for *)

\* An instance dies with its requests, its cache and its memory.
Die(i) ==
  LET gone == {r \in Requests : At(r) = i /\ pc[r] \notin {"new", "end"}}
  IN /\ faults < MaxFaults /\ faults' = faults + 1 /\ gone # {}
     /\ pc' = [r \in Requests |-> IF r \in gone THEN "end" ELSE pc[r]]
     /\ out' = [r \in Requests |-> IF r \in gone THEN "lost" ELSE out[r]]
     /\ bill' = [r \in Requests |-> IF r \in gone THEN 0 ELSE bill[r]]
     /\ dated' = [r \in Requests |-> IF r \in gone THEN None ELSE dated[r]]
     /\ charged' = [r \in Requests |->
                      IF r \in gone /\ pc[r] = "refund" THEN None ELSE charged[r]]
     /\ memory' = [memory EXCEPT ![i] = [d \in Days |-> 0]]
     /\ cached' = [cached EXCEPT ![i] = {}]
     /\ running' = [running EXCEPT ![i] = [c \in Codes |-> None]]
     /\ UNCHANGED <<ask, today, used, usedBy, spent, kept, accounted, strayed, unseen, beside, excused>>

Midnight ==
  /\ today < LastDay /\ today' = today + 1
  /\ UNCHANGED <<ask, pc, out, bill, dated, Shared, faults, Notes>>

Step(r) ==
  Arrive(r) \/ Enter(r) \/ CheckBudget(r) \/ ChargeGlobal(r) \/ ChargeAccount(r) \/ Refund(r)
  \/ Call(r) \/ Record(r) \/ Keep(r)

Next == Midnight \/ (\E r \in Requests : Step(r)) \/ \E i \in Instances : Die(i)

Spec == Init /\ [][Next]_vars

\* An instance that lives runs on; the storage and the provider answer in time.
FairSpec == Spec /\ \A r \in Requests : WF_vars(Step(r))

-----------------------------------------------------------------------------
(* Properties *)

Tenants(held, d) == {r \in Requests : held[r] = d /\ ~ask[r].god}

\* However many instances race at the boundary, a day grants no more calls than
\* its limit and an account no more than its own ("never overshoot",
\* aiSpendGuard.ts 205-209); but for refunds that strayed into the day.
CapsKept ==
  \A d \in Days :
    /\ Cardinality(Tenants(charged, d)) <= Max({Backstop, DailyLimit}) + strayed[d]
    /\ \A a \in Accounts :
         Cardinality({r \in Tenants(accounted, d) : Account(r) = a}) <= AccountLimit

\* A refused request leaves nothing on the counter everybody shares ("could
\* starve other tenants", aiSpendGuard.ts 231-236): without faults and midnights
\* the counter is the calls granted.
NothingStarved ==
  faults = 0 /\ today = 0 => used[0] = Cardinality({r \in Requests : charged[r] = 0})

\* The check of the budget and the record of the bill are far apart: the money
\* of a day passes its cap by no more than the worst case of the calls that were
\* under way beside one another, whatever instance they ran on; but for the
\* owner's calls, those let through when the budget could not be read (the check
\* fails open, aiSpendGuard.ts 348-351), and records made twice because the first
\* was not heard of (391-396).
OvershootBounded ==
  \A d \in Days : spent[d] <= BudgetCap + WorstCase * beside + excused

\* Whoever joins the computation of another gets its outcome: an answer, a
\* refusal, a failure or the end of the instance.
JoinersEnd == \A r \in Requests : pc[r] = "join" ~> pc[r] = "end"
=============================================================================
