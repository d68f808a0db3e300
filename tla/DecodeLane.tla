----------------------------- MODULE DecodeLane -----------------------------
(***************************************************************************)
(* The general lane of the decode queue (decodePacer.ts) with the gate     *)
(* every call passes when it starts and the two counters it writes when it *)
(* settles: the circuit breaker and the day's lookups.  A call decides on  *)
(* the counters it found when it started and writes them back when it      *)
(* settles, whatever other calls have written since.                       *)
(*                                                                         *)
(* One tick of time is the time a token takes to come back, divided by     *)
(* Rate.  The lane of the trusted exact probes has neither pacer nor gate; *)
(* one calendar day, online, AI enabled, not the platform's owner.         *)
(***************************************************************************)
EXTENDS Integers, Sequences, FiniteSets

CONSTANTS
  Reviews,
  Width,       \* MAX_CONCURRENT_DECODES
  Rate,        \* ticks per token, 1 / refillPerMs
  Burst,       \* capacity of the bucket, in tokens
  Threshold,   \* FAILURE_THRESHOLD
  Cooldown,    \* COOLDOWN_MS, in ticks
  DailyLimit,
  MaxAsks,     \* bound: times a decode is asked for
  None

Breakers == [state : {"closed", "half_open", "open"}, failures : 0..Threshold, age : 0..Cooldown]
\* What a call holds: the gate's answer, and whether it is still to settle.
Calls == [phase : {"asking", "done"}, breaker : Breakers, daily : Nat, age : 0..Cooldown,
          alone : BOOLEAN]

ASSUME LaneAssumption ==
  /\ {Width, Rate, Burst, Threshold, Cooldown, DailyLimit} \subseteq Nat \ {0}
  /\ MaxAsks \in Nat /\ IsFiniteSet(Reviews)
ASSUME NoneAssumption == None \notin Nat /\ None \notin Calls

VARIABLES
  pending, \* reviews waiting for a slot, in order
  call,    \* the call of each review, or None
  tokens,  \* of the bucket, a token being Rate units
  since,   \* ticks since lastRefillAt
  timer,   \* ticks until the resume fires, or None
  breaker,
  daily,   \* dailyLookupCount
  asks,    \* times a decode was asked for
  level,   \* dispatches the last ticks have not yet paid for, in units
  alone    \* lookups of the day that no other call overlapped

queueVars == <<pending, tokens, timer>>
vars == <<pending, call, tokens, since, timer, breaker, daily, asks, level, alone>>

Full == Burst * Rate
Least(a, b) == IF a < b THEN a ELSE b

Active == {r \in Reviews : call[r] # None}
First(q, n) == {q[i] : i \in 1..n}
Members(q) == First(q, Len(q))
Waiting == Members(pending)

TypeOK ==
  /\ pending \in Seq(Reviews) /\ call \in [Reviews -> Calls \cup {None}]
  /\ tokens \in 0..Full /\ since \in 0..Full /\ timer \in 0..Rate \cup {None}
  /\ breaker \in Breakers /\ daily \in Nat /\ asks \in Nat /\ level \in Nat /\ alone \in Nat

Init ==
  /\ pending = <<>> /\ call = [r \in Reviews |-> None]
  /\ tokens = Full /\ since = 0 /\ timer = None
  /\ breaker = [state |-> "closed", failures |-> 0, age |-> 0] /\ daily = 0
  /\ asks = 0 /\ level = 0 /\ alone = 0

-----------------------------------------------------------------------------
(* circuitBreaker.ts.  Failures count up to Threshold and ages up to        *)
(* Cooldown: what lies beyond is told apart by nothing.                     *)

\* canRequest: an open breaker that has cooled is half open for whoever asks.
CanRequest(b) ==
  IF b.state = "open" /\ b.age = Cooldown THEN [b EXCEPT !.state = "half_open"] ELSE b

Allowed(b) == CanRequest(b).state # "open"

RecordSuccess == [state |-> "closed", failures |-> 0, age |-> 0]

\* Mutant: a failed trial closes the breaker and counts as the first failure.
RecordForgiving(b, age) ==
  [state |-> IF b.state # "half_open" /\ b.failures + 1 >= Threshold THEN "open" ELSE "closed",
   failures |-> IF b.state = "half_open" THEN 1 ELSE Least(b.failures + 1, Threshold), age |-> age]

\* The time of the failure is that of the start of the call.
RecordFailure(b, age) ==
  IF b.failures + 1 >= Threshold
  THEN [state |-> "open", failures |-> Threshold, age |-> age]
  ELSE [state |-> IF b.state = "half_open" THEN "open" ELSE b.state,
        failures |-> b.failures + 1,
        age |-> IF b.state = "half_open" THEN age ELSE b.age]

-----------------------------------------------------------------------------
(* The lane *)

\* isDailyCapReached
AtLimit(count) == count >= DailyLimit

\* runLiveDecodeOnce up to its first await: a call the gate refuses is done.
\* When the breaker it saw had opened is never read again.
Begun(others) ==
  [phase |-> IF ~AtLimit(daily) /\ Allowed(breaker) THEN "asking" ELSE "done",
   breaker |-> [CanRequest(breaker) EXCEPT !.age = 0], daily |-> daily, age |-> 0,
   alone |-> others = {}]

\* Mutant: the refill is not cut to the capacity.
Overfilled == tokens + since
Refilled == Least(Full, tokens + since)

\* drainDecodeQueue, with the queue q, the calls in busy holding slots and the
\* resume armed as in armed: reviews start while there are a slot and a token,
\* and find the same counters.
Room(q, busy) == q # <<>> /\ Cardinality(busy) < Width
Starting(q, busy) ==
  IF Room(q, busy)
  THEN Least(Least(Width - Cardinality(busy), Len(q)), Refilled \div Rate) ELSE 0

\* Mutants: a resume is armed by a pass that starts nothing, or not at all.
ShortIfIdle(q, busy, n) == n = 0 /\ Room(q, busy)
NeverShort(q, busy, n) == FALSE
\* What stopped the loop with a review and a slot left was the want of a token.
Short(q, busy, n) == n < Len(q) /\ Cardinality(busy) + n < Width

Drain(q, busy, armed) ==
  LET n == Starting(q, busy)
      first == First(q, n)
      left == Refilled - n * Rate
  IN /\ pending' = SubSeq(q, n + 1, Len(q))
     /\ call' = [r \in Reviews |->
                   IF r \in first THEN Begun(busy \cup (first \ {r}))
                   ELSE IF r \notin busy THEN None
                   ELSE IF n > 0 THEN [call[r] EXCEPT !.alone = FALSE] ELSE call[r]]
     /\ IF Room(q, busy) THEN tokens' = left /\ since' = 0 ELSE UNCHANGED <<tokens, since>>
     /\ timer' = IF armed = None /\ Short(q, busy, n) THEN Rate - left ELSE armed
     /\ level' = level + n * Rate

\* enqueueDecode: a review that is queued or in flight joins its own promise.
Ask(r) ==
  /\ asks < MaxAsks /\ asks' = asks + 1
  /\ r \notin Waiting /\ r \notin Active
  /\ Drain(Append(pending, r), Active, timer)
  /\ UNCHANGED <<breaker, daily, alone>>

\* The decode is answered, or it fails, is aborted or is refused: the counters
\* are written from what the call found when it started.
Settle(r) ==
  /\ call[r] # None /\ call[r].phase = "asking"
  /\ call' = [call EXCEPT ![r].phase = "done"]
  /\ \/ /\ breaker' = RecordSuccess /\ daily' = call[r].daily + 1
        /\ alone' = IF call[r].alone THEN alone + 1 ELSE alone
     \/ /\ breaker' = RecordFailure(call[r].breaker, call[r].age)
        /\ daily' = call[r].daily /\ UNCHANGED alone
  /\ UNCHANGED <<pending, tokens, since, timer, asks, level>>

\* The task resolves or rejects; either way its slot is free.
End(r) ==
  /\ call[r] # None /\ call[r].phase = "done"
  /\ Drain(pending, Active \ {r}, timer)
  /\ UNCHANGED <<breaker, daily, asks, alone>>

\* The resume fires, when it is due or later.
Wake ==
  /\ timer = 0
  /\ Drain(pending, Active, None)
  /\ UNCHANGED <<breaker, daily, asks, alone>>

Tick ==
  /\ since' = Least(since + 1, Full)
  /\ timer' = IF timer = None \/ timer = 0 THEN timer ELSE timer - 1
  /\ breaker' = IF breaker.state = "open"
                THEN [breaker EXCEPT !.age = Least(@ + 1, Cooldown)] ELSE breaker
  /\ call' = [r \in Reviews |->
                IF call[r] = None THEN None
                ELSE [call[r] EXCEPT !.age = Least(@ + 1, Cooldown)]]
  /\ level' = IF level = 0 THEN 0 ELSE level - 1
  /\ UNCHANGED <<pending, tokens, daily, asks, alone>>

Next == Wake \/ Tick \/ \E r \in Reviews : Ask(r) \/ Settle(r) \/ End(r)

Spec == Init /\ [][Next]_vars

\* Timers fire, and a decode has a time limit of its own.
FairSpec ==
  /\ Spec /\ WF_vars(Wake) /\ WF_vars(Tick)
  /\ \A r \in Reviews : WF_vars(Settle(r)) /\ WF_vars(End(r))

-----------------------------------------------------------------------------
(* Properties *)

\* "never drop or lose a queued review" (drainDecodeQueue): a review waits for
\* a slot or for a resume that is armed, never for nothing.
NoStall == pending # <<>> /\ Cardinality(Active) < Width => timer # None

\* However the refills, the resumes and the ends of calls fall, the lane starts
\* no more than the burst and, over any stretch of time, a token's worth of
\* calls per refill (GENERAL_DECODE_RATE_PER_SEC, the limit of the server).
RateKept == level <= Full

\* The calls of the day that met no other stay within the limit.  Of those that
\* overlap, any number can: each writes back the count it started from.
AloneWithinLimit == alone <= DailyLimit

\* An open breaker is closed by a success or by a call that started before it
\* opened and fails after: no trial that fails closes it.
OpenStands ==
  [][breaker.state = "open" /\ breaker'.state # "open"
       => \/ breaker' = RecordSuccess
          \/ \E r \in Active : /\ call[r].phase = "asking" /\ call'[r].phase = "done"
                               /\ call[r].breaker.state = "closed"]_vars

\* Whatever waits is started and ends, whether or not its call is allowed.
EveryTaskEnds ==
  \A r \in Reviews : r \in Waiting ~> r \notin Waiting /\ r \notin Active
=============================================================================
