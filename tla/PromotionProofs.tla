-------------------------- MODULE PromotionProofs --------------------------
(***************************************************************************)
(* The safety of the promotion for every set of stamps, keys and datasets: *)
(* types, that no row is destroyed, and that what is live is of one        *)
(* promotion and can be rolled back.                                       *)
(***************************************************************************)
EXTENDS Promotion, FiniteSetTheorems, TLAPS

\* A swap that is about to come finds every staged table, and no name taken.
SwapReady ==
  job.step = "swap" => ~Collides(job.stamp) /\ \A t \in Tables : staging[t] # None

\* The counts that stage left are numbers.
ExpectedCounts == expected # None => \A t \in Tables : expected[t] # None

-----------------------------------------------------------------------------
(* Tables *)

\* What is loaded is a table.
LEMMA LoadedType ==
  ASSUME NEW d \in Datasets, NEW t \in Tables, NEW keys \in SUBSET Keys[t]
  PROVE  Loaded(d, keys) \in Table /\ Loaded(d, keys) # None
  <1>1. <<d.name, 0>> \in Values
    BY DEF Values
  <1>2. keys \in SUBSET AnyKey
    BY DEF AnyKey
  <1>3. [k \in keys |-> <<d.name, 0>>] \in Rows
    BY <1>1, <1>2 DEF Rows
  <1> QED BY <1>3, NoneAssumption DEF Loaded, Table

\* A row that a writer writes changes the rows of that table and nothing else.
LEMMA WriteFacts ==
  ASSUME TypeOK, NEW t \in Tables, NEW k \in Keys[t], Write(t, k)
  PROVE  /\ live' \in Generations /\ live[t] # None
         /\ \A u \in Tables : (live'[u] = None <=> live[u] = None)
                              /\ (live[u] # None => live'[u].at = live[u].at)
                              /\ (live[u] # None => live'[u].of = live[u].of)
         /\ \A u \in Tables : u # t => live'[u] = live[u]
         /\ KeysIn(live'[t]) = KeysIn(live[t]) \cup {k}
         /\ live'[t].rows[k] = <<"write", upsets'>>
         /\ \A j \in KeysIn(live[t]) : j # k => live'[t].rows[j] = live[t].rows[j]
         /\ <<"write", upsets'>> \in Values
  <1> DEFINE row == <<"write", upsets'>>
             new == [j \in KeysIn(live[t]) \cup {k} |-> IF j = k THEN row ELSE live[t].rows[j]]
  <1>1. live \in Generations /\ live[t] # None /\ live[t] \in Table
    BY DEF TypeOK, Write, Generations
  <1>2. upsets' \in 1..MaxUpsets
    BY UpsetsAssumption DEF TypeOK, Write, Upset
  <1>3. row \in Values
    BY <1>2 DEF Values
  <1>4. PICK K \in SUBSET AnyKey : live[t].rows \in [K -> Values]
    BY <1>1 DEF Table, Rows
  <1>5. KeysIn(live[t]) = K
    BY <1>1, <1>4 DEF KeysIn
  <1>6. K \cup {k} \in SUBSET AnyKey
    BY DEF AnyKey
  <1>7. new \in [K \cup {k} -> Values]
    BY <1>3, <1>4, <1>5
  <1>8. new \in Rows
    BY <1>6, <1>7 DEF Rows
  <1>9. live' = [live EXCEPT ![t] = [live[t] EXCEPT !.rows = new]]
    BY <1>1 DEF Write, Table, Generations
  <1>10. [live[t] EXCEPT !.rows = new] = [rows |-> new, of |-> live[t].of, at |-> live[t].at]
    BY <1>1 DEF Table
  <1>11. live'[t] = [rows |-> new, of |-> live[t].of, at |-> live[t].at]
    BY <1>1, <1>9, <1>10 DEF Generations
  <1>12. live'[t] \in Table /\ live'[t] # None
    BY <1>1, <1>8, <1>11, NoneAssumption DEF Table
  <1>13. \A u \in Tables : u # t => live'[u] = live[u]
    BY <1>1, <1>9 DEF Generations
  <1>14. live' \in Generations
    BY <1>1, <1>9, <1>10, <1>11, <1>12 DEF Generations
  <1>15. KeysIn(live'[t]) = K \cup {k}
    BY <1>7, <1>11, <1>12 DEF KeysIn
  <1>16. live'[t].rows = new
    BY <1>11
  <1> QED BY <1>1, <1>3, <1>5, <1>11, <1>12, <1>13, <1>14, <1>15, <1>16

\* The swap gives every live name to a staged table, under the stamp.
LEMMA SwapFacts ==
  ASSUME TypeOK, SwapReady, PromoteSwap
  PROVE  /\ job.stamp \in Stamps /\ live' \in Generations
         /\ \A t \in Tables : live'[t] # None /\ live'[t].at = job.stamp
         /\ \A t \in Tables : live'[t].of = staging[t].of /\ KeysIn(live'[t]) = KeysIn(staging[t])
         /\ old' \in [Stamps -> Generations]
         /\ \A s \in Stamps : s # job.stamp => old'[s] = old[s]
         /\ \A t \in Tables : old'[job.stamp][t] = IF live[t] = None THEN old[job.stamp][t] ELSE live[t]
  <1>1. job.stamp \in Stamps /\ staging \in Generations /\ old \in [Stamps -> Generations] /\ live \in Generations
    BY DEF TypeOK, PromoteSwap
  <1>2. \A t \in Tables : staging[t] \in Table
    BY <1>1 DEF SwapReady, PromoteSwap, Generations
  <1>3. ASSUME NEW t \in Tables
        PROVE  /\ [staging[t] EXCEPT !.at = job.stamp] \in Table
               /\ [staging[t] EXCEPT !.at = job.stamp].at = job.stamp
               /\ [staging[t] EXCEPT !.at = job.stamp].of = staging[t].of
               /\ [staging[t] EXCEPT !.at = job.stamp].rows = staging[t].rows
    BY <1>1, <1>2 DEF Table
  <1>4. live' = [t \in Tables |-> [staging[t] EXCEPT !.at = job.stamp]]
    BY DEF PromoteSwap
  <1>5. \A t \in Tables : live'[t] \in Table /\ live'[t].at = job.stamp
    BY <1>3, <1>4
  <1>11. \A t \in Tables : live'[t].of = staging[t].of /\ KeysIn(live'[t]) = KeysIn(staging[t])
    BY <1>2, <1>3, <1>4, <1>5, NoneAssumption DEF KeysIn
  <1>6. live' \in Generations
    BY <1>3, <1>4 DEF Generations
  <1> DEFINE aside == [t \in Tables |-> IF live[t] = None THEN old[job.stamp][t] ELSE live[t]]
  <1>7. aside \in Generations
    BY <1>1 DEF Generations
  <1>8. old' = [old EXCEPT ![job.stamp] = aside]
    BY DEF PromoteSwap
  <1>9. old' \in [Stamps -> Generations] /\ old'[job.stamp] = aside
    BY <1>1, <1>7, <1>8
  <1>10. \A s \in Stamps : s # job.stamp => old'[s] = old[s]
    BY <1>1, <1>8
  <1> QED BY <1>1, <1>5, <1>6, <1>9, <1>10, <1>11, NoneAssumption

\* A killed or refused command leaves a job that does nothing.
LEMMA IdleFacts ==
  /\ Idle = [step |-> Idle.step, stamp |-> Idle.stamp, manifest |-> Idle.manifest,
             read |-> Idle.read, late |-> Idle.late]
  /\ Idle.step = "idle" /\ Idle.stamp = None /\ Idle.manifest = None
  BY DEF Idle

-----------------------------------------------------------------------------
(* Types *)

Typed == TypeOK /\ SwapReady /\ ExpectedCounts

LEMMA TypedInit == Init => Typed
  <1> SUFFICES ASSUME Init PROVE Typed
    OBVIOUS
  <1>1. <<"base", 0>> \in Values
    BY DEF Values
  <1>2. \A t \in LiveTables : [k \in Base[t] |-> <<"base", 0>>] \in Rows
    <2> TAKE t \in LiveTables
    <2>1. Base[t] \in SUBSET AnyKey
      BY BaseAssumption DEF LiveTables, AnyKey, Tables
    <2> QED BY <1>1, <2>1 DEF Rows
  <1>3. live \in Generations
    BY <1>2 DEF Init, Generations, Table
  <1>4. Nothing \in Generations
    BY DEF Nothing, Generations
  <1>5. staging \in Generations /\ {old, failed} \subseteq [Stamps -> Generations]
    BY <1>4 DEF Init
  <1>6. written \subseteq Tables \X (AnyKey \X Values)
    BY <1>1, BaseAssumption DEF Init, LiveTables, Tables, AnyKey
  <1>7. indexed \in [Tables -> BOOLEAN] /\ upsets \in 0..MaxUpsets /\ reused \subseteq Stamps
    BY UpsetsAssumption DEF Init
  <1>8. /\ job = [step |-> job.step, stamp |-> job.stamp, manifest |-> job.manifest,
                  read |-> job.read, late |-> job.late]
        /\ job.step = "idle" /\ job.stamp = None /\ job.manifest = None
    BY IdleFacts DEF Init
  <1>9. files \in Datasets /\ disorder \in BOOLEAN
    BY DEF Init
  <1>10. TypeOK
    BY <1>3, <1>5, <1>6, <1>7, <1>8, <1>9 DEF TypeOK, Steps
  <1> QED BY <1>10, IdleFacts DEF Init, Typed, SwapReady, ExpectedCounts

LEMMA TypedNext == Typed /\ [Next]_vars => Typed'
  <1> SUFFICES ASSUME Typed, [Next]_vars PROVE Typed'
    OBVIOUS
  <1> USE DEF Typed
  <1>1. ASSUME job' = Idle, UNCHANGED <<Database, Disk, upsets, Notes>> PROVE Typed'
    BY <1>1, IdleFacts DEF TypeOK, SwapReady, ExpectedCounts, Database, Disk, Notes, Steps
  <1>2. ASSUME NEW b \in Backups, BackupCount(b) PROVE Typed'
    BY <1>2, IdleFacts DEF BackupCount, TypeOK, SwapReady, ExpectedCounts, Database, Disk, Notes, Steps, Idle
  <1>3. CASE BackupPrint
    BY <1>3 DEF BackupPrint, TypeOK, SwapReady, ExpectedCounts, Database, Disk, Notes, Steps
  <1>4. CASE BackupDone
    BY <1>4, IdleFacts DEF BackupDone, TypeOK, SwapReady, ExpectedCounts, Database, Disk, Notes, Steps
  <1>5. ASSUME NEW b \in Backups, Stage(b) PROVE Typed'
    BY <1>5, IdleFacts DEF Stage, TypeOK, SwapReady, ExpectedCounts, Database, Disk, Notes, Steps, Idle
  <1>6. CASE StageCheck
    <2>1. Nothing \in Generations
      BY DEF Nothing, Generations
    <2> QED BY <1>6, <2>1, IdleFacts DEF StageCheck, TypeOK, SwapReady, ExpectedCounts, Disk, Notes, Steps
  <1>7. CASE StageLoad
    <2>1. job.read \in Datasets
      BY <1>7 DEF StageLoad, TypeOK
    <2>2. \A t \in Tables : Loaded(job.read, job.read.keys[t]) \in Table
      BY <2>1, LoadedType, DatasetsAssumption DEF Tables
    <2>3. staging' \in Generations
      BY <1>7, <2>2 DEF StageLoad, Generations
    <2>4. \A t \in Tables : Cardinality(job.read.keys[t]) \in Nat
      BY <2>1, DatasetsAssumption, FS_CardinalityType DEF Tables
    <2>5. ExpectedCounts'
      BY <1>7, <2>4, NoneAssumption DEF StageLoad, ExpectedCounts, CountsIn
    <2> QED BY <1>7, <2>3, <2>5, IdleFacts DEF StageLoad, TypeOK, SwapReady, Notes, Steps
  <1>8. ASSUME NEW t \in Tables, NEW keys \in SUBSET Keys[t], StageStops(t, keys) PROVE Typed'
    <2>1. job.read \in Datasets
      BY <1>8 DEF StageStops, TypeOK
    <2>2. \A u \in Tables : Loaded(job.read, job.read.keys[u]) \in Table
      BY <2>1, LoadedType, DatasetsAssumption DEF Tables
    <2>3. Loaded(job.read, keys) \in Table
      BY <2>1, LoadedType
    <2>4. staging' \in Generations
      BY <1>8, <2>2, <2>3 DEF StageStops, Generations
    <2>5. upsets' \in 0..MaxUpsets
      BY <1>8, UpsetsAssumption DEF StageStops, Upset, TypeOK
    <2> QED BY <1>8, <2>4, <2>5, IdleFacts DEF StageStops, TypeOK, SwapReady, ExpectedCounts, Disk, Notes, Steps
  <1>9. ASSUME NEW b \in Backups, NEW s \in Stamps, Promote(b, s) PROVE Typed'
    BY <1>9, IdleFacts DEF Promote, TypeOK, SwapReady, ExpectedCounts, Database, Disk, Notes, Steps, Idle
  <1>10. CASE PromoteCheck
    <2>1. CASE job' = Idle
      BY <1>1, <1>10, <2>1 DEF PromoteCheck
    <2>2. CASE job' = [job EXCEPT !.step = "gates"]
      BY <1>10, <2>2 DEF PromoteCheck, TypeOK, SwapReady, ExpectedCounts, Database, Disk, Notes, Steps
    <2> QED BY <1>10, <2>1, <2>2 DEF PromoteCheck
  <1>11. CASE PromoteGates
    <2>1. CASE job' = Idle
      BY <1>1, <1>11, <2>1 DEF PromoteGates
    <2>2. CASE Gates /\ ~Collides(job.stamp) /\ job' = [job EXCEPT !.step = "swap", !.read = Counts(staging)]
      <3>1. \A t \in Tables : staging[t] # None
        BY <2>2 DEF Gates, Counts, ExpectedCounts
      <3>2. job'.stamp = job.stamp /\ UNCHANGED <<staging, old, live>>
        BY <1>11, <2>2 DEF PromoteGates, Database, TypeOK
      <3>3. SwapReady'
        BY <2>2, <3>1, <3>2 DEF SwapReady, Collides
      <3>4. TypeOK'
        BY <1>11, <2>2 DEF PromoteGates, TypeOK, Database, Disk, Notes, Steps
      <3> QED BY <1>11, <3>3, <3>4 DEF PromoteGates, ExpectedCounts, Disk
    <2> QED BY <1>11, <2>1, <2>2 DEF PromoteGates
  <1>12. CASE PromoteSwap
    <2>1. Nothing \in Generations
      BY DEF Nothing, Generations
    <2>2. live' \in Generations /\ old' \in [Stamps -> Generations] /\ job.stamp \in Stamps
      BY <1>12, SwapFacts
    <2>3. job' = [job EXCEPT !.step = "smoke"] /\ reused' \subseteq Stamps
      BY <1>12, <2>2 DEF PromoteSwap, TypeOK
    <2> QED BY <1>12, <2>1, <2>2, <2>3 DEF PromoteSwap, TypeOK, SwapReady, ExpectedCounts, Disk, Steps
  <1>13. ASSUME NEW s \in Stamps, Rollback(s) PROVE Typed'
    <2>1. Nothing \in Generations
      BY DEF Nothing, Generations
    <2>2. live' \in Generations /\ {old', failed'} \subseteq [Stamps -> Generations]
      BY <1>13, <2>1 DEF Rollback, Failed, TypeOK
    <2>3. job.step # "swap" /\ job' = job
      BY <1>13, IdleFacts DEF Rollback
    <2>4. indexed' \in [Tables -> BOOLEAN] /\ disorder' \in BOOLEAN
      BY <1>13 DEF Rollback, Reindexed, TypeOK
    <2> QED BY <1>13, <2>2, <2>3, <2>4 DEF Rollback, TypeOK, SwapReady, ExpectedCounts, Disk
  <1>14. ASSUME NEW d \in Datasets, Edit(d) PROVE Typed'
    <2>1. upsets' \in 0..MaxUpsets
      BY <1>14, UpsetsAssumption DEF Edit, Upset, TypeOK
    <2> QED BY <1>14, <2>1 DEF Edit, TypeOK, SwapReady, ExpectedCounts, Collides, Database, Notes
  <1>15. ASSUME NEW t \in Tables, NEW k \in Keys[t], Write(t, k) PROVE Typed'
    <2>1. /\ live' \in Generations /\ <<"write", upsets'>> \in Values
          /\ \A u \in Tables : live'[u] = None <=> live[u] = None
      BY <1>15, WriteFacts
    <2>2. upsets' \in 0..MaxUpsets
      BY <1>15, UpsetsAssumption DEF Write, Upset, TypeOK
    <2>3. written' \subseteq Tables \X (AnyKey \X Values)
      BY <1>15, <2>1 DEF Write, TypeOK, AnyKey
    <2>4. /\ job' = [step |-> job'.step, stamp |-> job'.stamp, manifest |-> job'.manifest,
                     read |-> job'.read, late |-> job'.late]
          /\ job'.step = job.step /\ job'.stamp = job.stamp /\ job'.manifest = job.manifest
          /\ job'.read = job.read
      <3>1. job = [step |-> job.step, stamp |-> job.stamp, manifest |-> job.manifest,
                   read |-> job.read, late |-> job.late]
        BY DEF TypeOK
      <3>2. job' = [job EXCEPT !.late = @ \cup {<<t, k>>}] \/ job' = job
        BY <1>15 DEF Write
      <3> QED BY <3>1, <3>2
    <2>5. SwapReady'
      BY <1>15, <2>1, <2>4 DEF Write, SwapReady, Collides
    <2> QED BY <1>15, <2>1, <2>2, <2>3, <2>4, <2>5 DEF Write, TypeOK, ExpectedCounts, Disk
  <1>16. CASE UNCHANGED vars
    BY <1>16 DEF vars, TypeOK, SwapReady, ExpectedCounts, Collides, Database, Disk, Notes
  <1> QED
    BY <1>1, <1>2, <1>3, <1>4, <1>5, <1>6, <1>7, <1>8, <1>9, <1>10, <1>11, <1>12, <1>13, <1>14,
       <1>15, <1>16
    DEF Next, Backup, Staging, Promotion, Others, PromoteSmoke, Die

\* Type correctness: every variable keeps its type, whatever is killed or written.
THEOREM TypeCorrect == Spec => []TypeOK
  <1>1. Typed => TypeOK
    BY DEF Typed
  <1> QED BY TypedInit, TypedNext, <1>1, PTL DEF Spec

-----------------------------------------------------------------------------
(* Rows *)

\* The tables hold that row.
Holds(g, w) == g[w[1]] # None /\ w[2][1] \in KeysIn(g[w[1]]) /\ g[w[1]].rows[w[2][1]] = w[2][2]

\* The row is live, or in tables set aside by some stamp.
Kept(w) == Holds(live, w) \/ \E s \in Stamps : Holds(old[s], w) \/ Holds(failed[s], w)

AllKept == \A w \in written : Kept(w)

\* Some generation holds every row, if and only if every row is kept.
LEMMA KeptIsFound == Typed => (AllKept <=> NothingDestroyed)
  <1> SUFFICES ASSUME Typed PROVE AllKept <=> NothingDestroyed
    OBVIOUS
  <1>1. DOMAIN old = Stamps /\ DOMAIN failed = Stamps
    BY DEF Typed, TypeOK
  <1>2. Range(old) = {old[s] : s \in Stamps} /\ Range(failed) = {failed[s] : s \in Stamps}
    BY <1>1 DEF Range
  <1> QED BY <1>2 DEF AllKept, Kept, Holds, NothingDestroyed

LEMMA KeptInit == Init => AllKept
  <1> SUFFICES ASSUME Init, NEW w \in written PROVE Holds(live, w)
    BY DEF AllKept, Kept
  <1>1. PICK t \in LiveTables : w \in {<<t, <<k, <<"base", 0>>>>>> : k \in Base[t]}
    BY DEF Init
  <1>2. PICK k \in Base[t] : w = <<t, <<k, <<"base", 0>>>>>>
    BY <1>1
  <1>3. t \in Tables /\ live[t] = [rows |-> [j \in Base[t] |-> <<"base", 0>>], of |-> None, at |-> None]
    BY DEF Init, LiveTables, Tables
  <1>4. <<"base", 0>> \in Values /\ Base[t] \subseteq AnyKey
    BY BaseAssumption DEF Values, LiveTables, AnyKey, Tables
  <1>5. [j \in Base[t] |-> <<"base", 0>>] \in Rows
    BY <1>4 DEF Rows
  <1>6. live[t] \in Table /\ live[t] # None
    <2>1. live[t] \in Table
      BY <1>3, <1>5 DEF Table
    <2> QED BY <2>1, NoneAssumption
  <1>7. KeysIn(live[t]) = Base[t] /\ live[t].rows[k] = <<"base", 0>>
    BY <1>2, <1>3, <1>6 DEF KeysIn
  <1>8. w[1] = t /\ w[2][1] = k /\ w[2][2] = <<"base", 0>>
    BY <1>2
  <1> QED BY <1>6, <1>7, <1>8 DEF Holds

LEMMA KeptNext == Typed /\ AllKept /\ [Next]_vars => AllKept'
  <1> SUFFICES ASSUME Typed, AllKept, [Next]_vars PROVE AllKept'
    OBVIOUS
  <1>1. ASSUME UNCHANGED <<live, old, failed, written>> PROVE AllKept'
    BY <1>1 DEF AllKept, Kept, Holds, KeysIn
  <1>2. CASE PromoteSwap
    <2> SUFFICES ASSUME NEW w \in written PROVE Kept(w)'
      BY <1>2 DEF PromoteSwap, AllKept
    <2>1. w[1] \in Tables
      BY DEF Typed, TypeOK
    <2>2. /\ job.stamp \in Stamps /\ failed' = failed
          /\ \A s \in Stamps : s # job.stamp => old'[s] = old[s]
          /\ \A t \in Tables : old'[job.stamp][t] = IF live[t] = None THEN old[job.stamp][t] ELSE live[t]
      BY <1>2, SwapFacts DEF Typed, PromoteSwap
    <2>3. CASE Holds(live, w)
      <3>1. old'[job.stamp][w[1]] = live[w[1]]
        BY <2>1, <2>2, <2>3 DEF Holds
      <3>2. Holds(old'[job.stamp], w)
        BY <2>3, <3>1 DEF Holds, KeysIn
      <3> QED BY <2>2, <3>2 DEF Kept
    <2>4. ASSUME NEW s \in Stamps, Holds(old[s], w) PROVE Kept(w)'
      <3>1. s = job.stamp => live[w[1]] = None
        BY <1>2, <2>1, <2>4 DEF Typed, SwapReady, PromoteSwap, Collides, Holds
      <3>2. old'[s][w[1]] = old[s][w[1]]
        BY <2>1, <2>2, <3>1
      <3>3. Holds(old[s], w)'
        BY <2>4, <3>2 DEF Holds, KeysIn
      <3> QED BY <3>3 DEF Kept
    <2>5. ASSUME NEW s \in Stamps, Holds(failed[s], w) PROVE Kept(w)'
      BY <2>2, <2>5 DEF Kept, Holds, KeysIn
    <2> QED BY <2>3, <2>4, <2>5 DEF AllKept, Kept
  <1>3. ASSUME NEW s \in Stamps, Rollback(s) PROVE AllKept'
    <2> SUFFICES ASSUME NEW w \in written PROVE Kept(w)'
      BY <1>3 DEF Rollback, AllKept
    <2>1. w[1] \in Tables
      BY DEF Typed, TypeOK
    <2>2. /\ failed'[s] = live /\ live' = old[s]
          /\ \A x \in Stamps : x # s => old'[x] = old[x] /\ failed'[x] = failed[x]
      BY <1>3 DEF Rollback, Failed, Typed, TypeOK
    <2>3. ~Holds(failed[s], w)
      BY <1>3, <2>1 DEF Rollback, RollsBack, Holds
    <2>4. CASE Holds(live, w)
      <3>1. Holds(failed[s], w)'
        BY <2>2, <2>4 DEF Holds, KeysIn
      <3> QED BY <3>1 DEF Kept
    <2>5. CASE Holds(old[s], w)
      BY <2>2, <2>5 DEF Kept, Holds, KeysIn
    <2>6. ASSUME NEW x \in Stamps, x # s, Holds(old[x], w) \/ Holds(failed[x], w) PROVE Kept(w)'
      BY <2>2, <2>6 DEF Kept, Holds, KeysIn
    <2> QED BY <2>3, <2>4, <2>5, <2>6 DEF AllKept, Kept
  <1>4. ASSUME NEW t \in Tables, NEW k \in Keys[t], Write(t, k) PROVE AllKept'
    <2> DEFINE row == <<"write", upsets'>>
    <2>1. /\ live[t] # None
          /\ \A u \in Tables : live'[u] = None <=> live[u] = None
          /\ \A u \in Tables : u # t => live'[u] = live[u]
          /\ KeysIn(live'[t]) = KeysIn(live[t]) \cup {k}
          /\ live'[t].rows[k] = row
          /\ \A j \in KeysIn(live[t]) : j # k => live'[t].rows[j] = live[t].rows[j]
      BY <1>4, WriteFacts DEF Typed
    <2>2. old' = old /\ failed' = failed
      BY <1>4 DEF Write
    <2>3. ASSUME NEW w, w = <<t, <<k, row>>>> PROVE Kept(w)'
      BY <2>1, <2>3 DEF Kept, Holds, KeysIn
    <2>4. ASSUME NEW w \in written, ~(w[1] = t /\ k \in KeysIn(live[t]) /\ w[2] = <<k, live[t].rows[k]>>)
          PROVE  Kept(w)'
      <3>1. w[1] \in Tables /\ w[2] = <<w[2][1], w[2][2]>>
        BY DEF Typed, TypeOK
      <3>2. CASE Holds(live, w)
        <4>1. CASE w[1] # t
          BY <2>1, <3>1, <3>2, <4>1 DEF Kept, Holds, KeysIn
        <4>2. CASE w[1] = t
          <5>1. w[2][1] # k
            BY <2>4, <3>1, <3>2, <4>2 DEF Holds
          <5>2. Holds(live, w)'
            BY <2>1, <3>2, <4>2, <5>1 DEF Holds, KeysIn
          <5> QED BY <5>2 DEF Kept
        <4> QED BY <4>1, <4>2
      <3>3. ASSUME NEW s \in Stamps, Holds(old[s], w) \/ Holds(failed[s], w) PROVE Kept(w)'
        BY <2>2, <3>3 DEF Kept, Holds, KeysIn
      <3> QED BY <3>2, <3>3 DEF AllKept, Kept
    <2>5. \A w \in written' :
            w = <<t, <<k, row>>>>
            \/ (w \in written /\ ~(w[1] = t /\ k \in KeysIn(live[t]) /\ w[2] = <<k, live[t].rows[k]>>))
      BY <1>4 DEF Write
    <2> QED BY <2>3, <2>4, <2>5 DEF AllKept
  <1> QED
    BY <1>1, <1>2, <1>3, <1>4
    DEF Next, Backup, Staging, Promotion, Others, Die, vars, Database, Disk, Notes, BackupPrint,
        BackupDone, BackupCount, Stage, StageCheck, StageLoad, StageStops, Promote, PromoteCheck,
        PromoteGates, PromoteSmoke, Edit

\* No promotion, rollback, crash or retry destroys the last copy of a row that was live.
THEOREM RowsSurvive == Spec => []NothingDestroyed
  <1>1. Init => Typed /\ AllKept
    BY TypedInit, KeptInit
  <1>2. Typed /\ AllKept /\ [Next]_vars => (Typed /\ AllKept)'
    BY TypedNext, KeptNext
  <1>3. Typed /\ AllKept => NothingDestroyed
    BY KeptIsFound
  <1> QED BY <1>1, <1>2, <1>3, PTL DEF Spec

-----------------------------------------------------------------------------
(* Generations *)

\* A whole generation answers every lookup that its tables were made for.
Whole(g) ==
  /\ g["tires"] # None /\ g["parts"] # None /\ OneGeneration(g)
  /\ g["tires"].at # None => g["provenance"] # None

\* The generation was made live by that stamp.
MadeBy(g, z) == g # Nothing /\ g["tires"].at = z

\* Of each promotion that still lives there is one generation, and what it replaced
\* lies beside it.
Traceable(z) ==
  /\ MadeBy(live, z) \/ (\E x \in Stamps : MadeBy(old[x], z)) =>
       failed[z] = Nothing /\ old[z] # Nothing /\ ~MadeBy(old[z], z)
  /\ MadeBy(live, z) => \A x \in Stamps : ~MadeBy(old[x], z)
  /\ \A x, y \in Stamps : MadeBy(old[x], z) /\ MadeBy(old[y], z) => x = y

Standing ==
  /\ Whole(live) /\ \A s \in Stamps : old[s] = Nothing \/ Whole(old[s])
  /\ \A t \in Tables : live[t] # None /\ live[t].at # None => indexed[t]
  /\ ~disorder => \A z \in Stamps : z \notin reused => Traceable(z)

LEMMA StandingInit == Init => Standing
  <1> SUFFICES ASSUME Init PROVE Standing
    OBVIOUS
  <1>1. /\ live["tires"] = [rows |-> [k \in Base["tires"] |-> <<"base", 0>>], of |-> None, at |-> None]
        /\ live["parts"] = [rows |-> [k \in Base["parts"] |-> <<"base", 0>>], of |-> None, at |-> None]
        /\ live["provenance"] = None
    BY DEF Init, Tables, LiveTables
  <1>2. live["tires"] \in Table /\ live["parts"] \in Table
    <2>1. <<"base", 0>> \in Values /\ Base["tires"] \in SUBSET AnyKey /\ Base["parts"] \in SUBSET AnyKey
      BY BaseAssumption DEF Values, AnyKey, Tables
    <2>2. /\ [k \in Base["tires"] |-> <<"base", 0>>] \in Rows
          /\ [k \in Base["parts"] |-> <<"base", 0>>] \in Rows
      BY <2>1 DEF Rows
    <2> QED BY <1>1, <2>2 DEF Table
  <1>3. live["tires"] # None /\ live["parts"] # None
    BY <1>2, NoneAssumption
  <1>4. Whole(live) /\ \A t \in Tables : live[t] # None => live[t].at = None
    BY <1>1, <1>3 DEF Whole, OneGeneration, Tables
  <1>5. \A s \in Stamps : old[s] = Nothing /\ failed[s] = Nothing
    BY DEF Init
  <1>6. ASSUME NEW z \in Stamps PROVE Traceable(z)
    <2>1. ~MadeBy(live, z)
      BY <1>1, NoneAssumption DEF MadeBy
    <2> QED BY <1>5, <2>1 DEF Traceable, MadeBy
  <1> QED BY <1>4, <1>5, <1>6 DEF Standing

\* A whole generation is not the empty one.
LEMMA WholeIsSomething == \A g : Whole(g) => g # Nothing
  BY DEF Whole, Nothing, Tables

\* The swap puts the live generation where there was none, and a new one in its place.
LEMMA SwapMoves ==
  ASSUME Typed, Standing, PromoteSwap
  PROVE  /\ job.stamp \in Stamps /\ old[job.stamp] = Nothing /\ old'[job.stamp] = live
         /\ \A s \in Stamps : s # job.stamp => old'[s] = old[s]
         /\ Whole(live') /\ live'["tires"].at = job.stamp
  <1>1. /\ job.stamp \in Stamps /\ live' \in Generations
        /\ \A t \in Tables : live'[t] # None /\ live'[t].at = job.stamp
        /\ old' \in [Stamps -> Generations]
        /\ \A s \in Stamps : s # job.stamp => old'[s] = old[s]
        /\ \A t \in Tables : old'[job.stamp][t] = IF live[t] = None THEN old[job.stamp][t] ELSE live[t]
    BY SwapFacts DEF Typed
  <1>2. ~Whole(old[job.stamp])
    BY DEF Typed, SwapReady, PromoteSwap, Collides, Whole, Tables, LiveTables
  <1>3. old[job.stamp] = Nothing
    BY <1>1, <1>2 DEF Standing
  <1>4. \A t \in Tables : old'[job.stamp][t] = live[t]
    BY <1>1, <1>3 DEF Nothing
  <1>5. old'[job.stamp] \in Generations /\ live \in Generations
    BY <1>1 DEF Typed, TypeOK
  <1>6. old'[job.stamp] = live
    BY <1>4, <1>5 DEF Generations
  <1>7. Whole(live') /\ live'["tires"].at = job.stamp
    BY <1>1 DEF Whole, OneGeneration, Tables
  <1> QED BY <1>1, <1>3, <1>6, <1>7

LEMMA StandingNext == Typed /\ Standing /\ [Next]_vars => Standing'
  <1> SUFFICES ASSUME Typed, Standing, [Next]_vars PROVE Standing'
    OBVIOUS
  <1>1. ASSUME UNCHANGED <<live, old, failed, indexed, reused, disorder>> PROVE Standing'
    BY <1>1 DEF Standing, Whole, OneGeneration, Traceable, MadeBy
  <1>2. CASE PromoteSwap
    <2> DEFINE s == job.stamp
    <2>1. /\ s \in Stamps /\ old[s] = Nothing /\ old'[s] = live
          /\ \A x \in Stamps : x # s => old'[x] = old[x]
          /\ Whole(live') /\ live'["tires"].at = s
      BY <1>2, SwapMoves
    <2>2. failed' = failed /\ disorder' = disorder /\ \A t \in Tables : indexed'[t]
      BY <1>2 DEF PromoteSwap
    <2>3. \A x \in Stamps : old'[x] = Nothing \/ Whole(old'[x])
      BY <2>1 DEF Standing
    <2>4. ASSUME ~disorder, NEW z \in Stamps, z \notin reused'
          PROVE  Traceable(z)'
      <3>1. Traceable(z)
        BY <1>2, <2>4 DEF Standing, PromoteSwap
      <3>2. live # Nothing /\ live' # Nothing
        BY <2>1, WholeIsSomething DEF Standing
      <3>3. \A x \in Stamps : MadeBy(old'[x], z) <=> IF x = s THEN MadeBy(live, z) ELSE MadeBy(old[x], z)
        BY <2>1
      <3>4. ~MadeBy(old[s], z)
        BY <2>1 DEF MadeBy
      <3>5. CASE z = s
        <4>1. failed[s] = Nothing
          BY <1>2, <2>1, <2>4, <3>5 DEF PromoteSwap
        <4>2. ~MadeBy(live, s) /\ \A x \in Stamps : ~MadeBy(old[x], s)
          BY <2>1, <3>1, <3>5 DEF Traceable
        <4> QED BY <2>1, <2>2, <3>2, <3>3, <3>5, <4>1, <4>2 DEF Traceable, MadeBy
      <3>6. CASE z # s
        <4>1. ~MadeBy(live', z) /\ old'[z] = old[z]
          BY <2>1, <3>6 DEF MadeBy
        <4>2. \A x, y \in Stamps : MadeBy(old'[x], z) /\ MadeBy(old'[y], z) => x = y
          BY <3>1, <3>3 DEF Traceable
        <4>3. (\E x \in Stamps : MadeBy(old'[x], z)) =>
                 failed'[z] = Nothing /\ old'[z] # Nothing /\ ~MadeBy(old'[z], z)
          BY <2>1, <2>2, <3>1, <3>3, <4>1 DEF Traceable
        <4> QED BY <4>1, <4>2, <4>3 DEF Traceable
      <3> QED BY <3>5, <3>6
    <2> QED BY <2>1, <2>2, <2>3, <2>4 DEF Standing
  <1>3. ASSUME NEW s \in Stamps, Rollback(s) PROVE Standing'
    <2>1. /\ failed'[s] = live /\ live' = old[s] /\ old'[s] = Nothing /\ reused' = reused
          /\ \A x \in Stamps : x # s => old'[x] = old[x] /\ failed'[x] = failed[x]
      BY <1>3 DEF Rollback, Failed, Typed, TypeOK
    <2>2. Whole(old[s])
      BY <1>3 DEF Standing, Rollback, RollsBack, Nothing, LiveTables, Tables
    <2>3. \A t \in Tables : live'[t] # None => indexed'[t]
      BY <1>3, <2>1 DEF Rollback, Reindexed
    <2>4. \A x \in Stamps : old'[x] = Nothing \/ Whole(old'[x])
      BY <2>1 DEF Standing
    <2>5. ASSUME ~disorder', NEW z \in Stamps, z \notin reused
          PROVE  Traceable(z)'
      <3>1. ~disorder /\ live["tires"].at = s
        BY <1>3, <2>5 DEF Rollback
      <3>2. Traceable(z)
        BY <2>5, <3>1 DEF Standing
      <3>3. live # Nothing
        BY WholeIsSomething DEF Standing
      <3>4. CASE z = s
        <4>1. MadeBy(live, s)
          BY <3>1, <3>3 DEF MadeBy
        <4>2. \A x \in Stamps : ~MadeBy(old[x], s)
          BY <3>2, <3>4, <4>1 DEF Traceable
        <4>3. ~MadeBy(live', s) /\ \A x \in Stamps : ~MadeBy(old'[x], s)
          BY <2>1, <4>2 DEF MadeBy
        <4> QED BY <3>4, <4>3 DEF Traceable
      <3>5. CASE z # s
        <4>1. failed'[z] = failed[z] /\ old'[z] = old[z]
          BY <2>1, <3>5
        <4>2. \A x \in Stamps : MadeBy(old'[x], z) <=> x # s /\ MadeBy(old[x], z)
          BY <2>1 DEF MadeBy
        <4>3. MadeBy(live', z) <=> MadeBy(old[s], z)
          BY <2>1
        <4> QED BY <3>2, <4>1, <4>2, <4>3 DEF Traceable
      <3> QED BY <3>4, <3>5
    <2> QED BY <2>1, <2>2, <2>3, <2>4, <2>5 DEF Standing
  <1>4. ASSUME NEW t \in Tables, NEW k \in Keys[t], Write(t, k) PROVE Standing'
    <2>1. \A u \in Tables : (live'[u] = None <=> live[u] = None) /\ (live[u] # None => live'[u].at = live[u].at)
      BY <1>4, WriteFacts DEF Typed
    <2>2. UNCHANGED <<old, failed, indexed, reused, disorder>>
      BY <1>4 DEF Write
    <2>3. Whole(live') /\ live'["tires"].at = live["tires"].at
      BY <2>1 DEF Standing, Whole, OneGeneration, Tables
    <2>4. live # Nothing /\ live' # Nothing
      BY <2>3, WholeIsSomething DEF Standing
    <2>5. \A z \in Stamps : MadeBy(live', z) <=> MadeBy(live, z)
      BY <2>3, <2>4 DEF MadeBy
    <2>6. \A z \in Stamps : Traceable(z) => Traceable(z)'
      BY <2>2, <2>5 DEF Traceable, MadeBy
    <2> QED BY <2>1, <2>2, <2>3, <2>6 DEF Standing
  <1> QED
    BY <1>1, <1>2, <1>3, <1>4
    DEF Next, Backup, Staging, Promotion, Others, Die, vars, Database, Disk, Notes, BackupPrint,
        BackupDone, BackupCount, Stage, StageCheck, StageLoad, StageStops, Promote, PromoteCheck,
        PromoteGates, PromoteSmoke, Edit

LEMMA StandingSuffices == Standing => RollbackStands
  <1> SUFFICES ASSUME Standing PROVE RollbackStands
    OBVIOUS
  <1>1. OneGeneration(live) /\ \A t \in Tables : live[t] # None /\ live[t].at # None => indexed[t]
    BY DEF Standing, Whole
  <1>2. ASSUME NEW s \in Stamps, live["tires"].at = s, s \notin reused, ~disorder
        PROVE  RollsBack(s) /\ OneGeneration(old[s]) /\ old[s]["tires"].at # s
    <2>1. MadeBy(live, s) /\ Traceable(s)
      BY <1>2, WholeIsSomething DEF Standing, MadeBy
    <2>2. failed[s] = Nothing /\ Whole(old[s]) /\ old[s]["tires"].at # s
      BY <2>1, WholeIsSomething DEF Traceable, Standing, MadeBy
    <2>3. s # None
      BY NoneAssumption
    <2>4. \A t \in Tables : live[t] # None
      BY <1>2, <2>3 DEF Standing, Whole, Tables
    <2> QED BY <2>2, <2>4 DEF RollsBack, Whole, LiveTables, Nothing
  <1> QED BY <1>1, <1>2 DEF RollbackStands

\* What is live is of one promotion, indexed, and can be rolled back while stamps are
\* new and rollbacks go backwards from the latest promotion.
THEOREM LiveCanBeRolledBack == Spec => []RollbackStands
  <1>1. Init => Typed /\ Standing
    BY TypedInit, StandingInit
  <1>2. Typed /\ Standing /\ [Next]_vars => (Typed /\ Standing)'
    BY TypedNext, StandingNext
  <1>3. Typed /\ Standing => RollbackStands
    BY StandingSuffices
  <1> QED BY <1>1, <1>2, <1>3, PTL DEF Spec

-----------------------------------------------------------------------------
(* What is promoted *)

\* What lies in staging is part of one dataset.
StagedOf ==
  \E d \in Datasets : \A t \in Tables :
    staging[t] # None => staging[t].of = d /\ KeysIn(staging[t]) \subseteq d.keys[t]

\* The backup saw that row, or it was written after the last check.
Seen(t, k, table) ==
  <<t, k>> \in job.late \/ (k \in DOMAIN Bound.prints[t] /\ Bound.prints[t][k] = table.rows[k])

\* Past the last check of live, and of the files.
Checked ==
  job.step \in {"gates", "swap"} =>
    /\ Bound.files \in Datasets /\ expected = CountsIn(Bound.files)
    /\ \A t \in Tables : \A k \in KeysIn(live[t]) : Seen(t, k, live[t])

\* Past the gates.
Gated ==
  job.step = "swap" =>
    /\ Counts(staging) = CountsIn(Bound.files) /\ job.read = CountsIn(Bound.files)
    /\ \A t \in Tables \ {"parts"} : \A k \in KeysIn(live[t]) :
         k \in KeysIn(staging[t]) \/ <<t, k>> \in job.late

\* Past the swap.
Swapped ==
  job.step = "smoke" =>
    /\ Bound.files \in Datasets /\ job.read = CountsIn(Bound.files)
    /\ \A t \in Tables : live[t] # None /\ IsFiniteSet(KeysIn(live[t]))
    /\ \A t \in Tables : \A k \in KeysIn(old[job.stamp][t]) :
         /\ Seen(t, k, old[job.stamp][t])
         /\ t # "parts" => k \in KeysIn(live[t]) \/ <<t, k>> \in job.late
    /\ live["tires"].of = Bound.files => \A t \in Tables : Bound.files.keys[t] \subseteq KeysIn(live[t])

Progress == StagedOf /\ Checked /\ Gated /\ Swapped

LEMMA ProgressInit == Init => Progress
  <1> SUFFICES ASSUME Init PROVE Progress
    OBVIOUS
  <1>1. job.step = "idle" /\ files \in Datasets
    BY IdleFacts DEF Init
  <1>2. \A t \in Tables : staging[t] = None
    BY DEF Init, Nothing
  <1> QED BY <1>1, <1>2 DEF Progress, StagedOf, Checked, Gated, Swapped

\* Staged tables are of one dataset, whatever stops a stage.
LEMMA StagedOfNext == Typed /\ StagedOf /\ [Next]_vars => StagedOf'
  <1> SUFFICES ASSUME Typed, StagedOf, [Next]_vars PROVE StagedOf'
    OBVIOUS
  <1>1. ASSUME staging' = staging PROVE StagedOf'
    BY <1>1 DEF StagedOf, KeysIn
  <1>2. ASSUME staging' = Nothing PROVE StagedOf'
    BY <1>2 DEF StagedOf, Nothing, Typed, TypeOK
  <1>3. ASSUME NEW d \in Datasets,
               \A t \in Tables : staging'[t] = None \/ (\E keys \in SUBSET d.keys[t] : staging'[t] = Loaded(d, keys))
        PROVE  StagedOf'
    <2>1. \A t \in Tables : staging'[t] # None => staging'[t].of = d /\ KeysIn(staging'[t]) \subseteq d.keys[t]
      <3> SUFFICES ASSUME NEW t \in Tables, staging'[t] # None
                   PROVE  staging'[t].of = d /\ KeysIn(staging'[t]) \subseteq d.keys[t]
        OBVIOUS
      <3>1. PICK keys \in SUBSET d.keys[t] : staging'[t] = Loaded(d, keys)
        BY <1>3
      <3>2. staging'[t].of = d /\ staging'[t].rows = [k \in keys |-> <<d.name, 0>>]
        BY <3>1 DEF Loaded
      <3>3. DOMAIN staging'[t].rows = keys
        BY <3>2
      <3> QED BY <3>2, <3>3 DEF KeysIn
    <2> QED BY <2>1 DEF StagedOf
  <1>4. CASE StageLoad
    <2>1. job.read \in Datasets
      BY <1>4 DEF StageLoad, Typed, TypeOK
    <2>2. \A t \in Tables : staging'[t] = Loaded(job.read, job.read.keys[t])
      BY <1>4 DEF StageLoad
    <2> QED BY <1>3, <2>1, <2>2
  <1>5. ASSUME NEW u \in Tables, NEW keys \in SUBSET Keys[u], StageStops(u, keys) PROVE StagedOf'
    <2>1. job.read \in Datasets /\ keys \subseteq job.read.keys[u]
      BY <1>5 DEF StageStops, Typed, TypeOK
    <2>2. \A t \in Tables : staging'[t] = None \/ (\E ks \in SUBSET job.read.keys[t] : staging'[t] = Loaded(job.read, ks))
      BY <1>5, <2>1 DEF StageStops
    <2> QED BY <1>3, <2>1, <2>2
  <1>6. CASE StageCheck
    BY <1>1, <1>2, <1>6 DEF StageCheck
  <1>7. CASE PromoteSwap
    BY <1>2, <1>7 DEF PromoteSwap
  <1> QED
    BY <1>1, <1>4, <1>5, <1>6, <1>7
    DEF Next, Backup, Staging, Promotion, Others, Die, vars, Database, Disk, Notes, BackupPrint,
        BackupDone, BackupCount, Stage, Promote, PromoteCheck, PromoteGates, PromoteSmoke, Edit,
        Rollback, Write

\* A writer's row is late while a promotion is between its last check and its swap, and
\* changes neither what was set aside nor what the command has read.
LEMMA ProgressWrite ==
  ASSUME Typed, Progress, NEW t \in Tables, NEW k \in Keys[t], Write(t, k)
  PROVE  (Checked /\ Gated /\ Swapped)'
  <1>1. /\ live[t] # None
        /\ \A u \in Tables : (live'[u] = None <=> live[u] = None)
                             /\ (live[u] # None => live'[u].of = live[u].of)
        /\ \A u \in Tables : u # t => live'[u] = live[u]
        /\ KeysIn(live'[t]) = KeysIn(live[t]) \cup {k}
        /\ \A j \in KeysIn(live[t]) : j # k => live'[t].rows[j] = live[t].rows[j]
    BY WriteFacts DEF Typed
  <1>2. UNCHANGED <<staging, old, files, expected, manifests>>
    BY DEF Write, Disk
  <1>3. /\ job'.step = job.step /\ job'.stamp = job.stamp /\ job'.manifest = job.manifest
        /\ job'.read = job.read
        /\ job'.late = IF job.step \in {"gates", "swap"} THEN job.late \cup {<<t, k>>} ELSE job.late
    BY DEF Write, Typed, TypeOK
  <1>4. Bound' = Bound
    BY <1>2, <1>3 DEF Bound
  <1>5. Checked'
    <2> SUFFICES ASSUME job.step \in {"gates", "swap"}, NEW u \in Tables, NEW j \in KeysIn(live'[u])
                 PROVE  Seen(u, j, live[u])'
      BY <1>2, <1>3, <1>4 DEF Checked, Progress, CountsIn
    <2>1. CASE u = t /\ j = k
      BY <1>3, <2>1 DEF Seen
    <2>2. CASE ~(u = t /\ j = k)
      <3>1. j \in KeysIn(live[u]) /\ live'[u].rows[j] = live[u].rows[j]
        BY <1>1, <2>2
      <3>2. Seen(u, j, live[u])
        BY <3>1 DEF Progress, Checked
      <3> QED BY <1>3, <1>4, <3>1, <3>2 DEF Seen
    <2> QED BY <2>1, <2>2
  <1>6. Gated'
    <2> SUFFICES ASSUME job.step = "swap", NEW u \in Tables \ {"parts"}, NEW j \in KeysIn(live'[u])
                 PROVE  j \in KeysIn(staging'[u]) \/ <<u, j>> \in job'.late
      BY <1>2, <1>3, <1>4 DEF Gated, Progress, Counts, CountsIn, KeysIn
    <2> QED BY <1>1, <1>2, <1>3 DEF Progress, Gated
  <1>7. Swapped'
    <2> SUFFICES ASSUME job.step = "smoke" PROVE Swapped'
      BY <1>3 DEF Swapped
    <2>1. Bound'.files \in Datasets /\ job'.read = CountsIn(Bound'.files)
      BY <1>3, <1>4 DEF Progress, Swapped
    <2>2. \A u \in Tables : KeysIn(live[u]) \subseteq KeysIn(live'[u])
      BY <1>1
    <2>3. \A u \in Tables : live'[u] # None /\ IsFiniteSet(KeysIn(live'[u]))
      <3>1. IsFiniteSet(KeysIn(live[t]) \cup {k})
        BY FS_AddElement DEF Progress, Swapped
      <3> QED BY <1>1, <3>1 DEF Progress, Swapped
    <2>4. ASSUME NEW u \in Tables, NEW j \in KeysIn(old'[job'.stamp][u])
          PROVE  /\ Seen(u, j, old[job.stamp][u])'
                 /\ u # "parts" => j \in KeysIn(live'[u]) \/ <<u, j>> \in job'.late
      BY <1>2, <1>3, <1>4, <2>2 DEF Progress, Swapped, Seen
    <2>5. live'["tires"].of = Bound'.files => \A u \in Tables : Bound'.files.keys[u] \subseteq KeysIn(live'[u])
      BY <1>1, <1>4, <2>2 DEF Progress, Swapped, Tables
    <2> QED BY <2>1, <2>3, <2>4, <2>5 DEF Swapped, KeysIn
  <1> QED BY <1>5, <1>6, <1>7

\* The swap publishes the tables that the gates saw.
LEMMA ProgressSwap ==
  ASSUME Typed, Standing, Progress, PromoteSwap
  PROVE  (Checked /\ Gated /\ Swapped)'
  <1>1. /\ job.stamp \in Stamps /\ old'[job.stamp] = live
        /\ \A t \in Tables : live'[t] # None /\ live'[t].of = staging[t].of
                             /\ KeysIn(live'[t]) = KeysIn(staging[t])
    BY SwapFacts, SwapMoves DEF Typed
  <1>2. /\ job'.step = "smoke" /\ job'.stamp = job.stamp /\ job'.manifest = job.manifest
        /\ job'.read = job.read /\ job'.late = job.late /\ job.step = "swap"
    BY DEF PromoteSwap, Typed, TypeOK
  <1>3. Bound' = Bound
    BY <1>2 DEF PromoteSwap, Disk, Bound
  <1>4. Bound.files \in Datasets /\ job.read = CountsIn(Bound.files) /\ Counts(staging) = CountsIn(Bound.files)
    BY <1>2 DEF Progress, Checked, Gated
  <1>5. PICK d \in Datasets :
          \A t \in Tables : staging[t].of = d /\ KeysIn(staging[t]) \subseteq d.keys[t]
    BY <1>2 DEF Progress, StagedOf, Typed, SwapReady
  <1>6. \A t \in Tables : live'[t] # None /\ IsFiniteSet(KeysIn(live'[t]))
    <2> TAKE t \in Tables
    <2>1. IsFiniteSet(d.keys[t])
      BY DatasetsAssumption DEF Tables
    <2> QED BY <1>1, <1>5, <2>1, FS_Subset
  <1>7. ASSUME NEW t \in Tables, NEW k \in KeysIn(live[t])
        PROVE  /\ Seen(t, k, old[job.stamp][t])'
               /\ t # "parts" => k \in KeysIn(live'[t]) \/ <<t, k>> \in job'.late
    <2>1. Seen(t, k, live[t])
      BY <1>2 DEF Progress, Checked
    <2>2. Seen(t, k, old[job.stamp][t])'
      BY <1>1, <1>2, <1>3, <2>1 DEF Seen
    <2> QED BY <1>1, <1>2, <2>2 DEF Progress, Gated
  <1>8. ASSUME live'["tires"].of = Bound.files, NEW t \in Tables
        PROVE  Bound.files.keys[t] \subseteq KeysIn(live'[t])
    <2>1. d = Bound.files
      BY <1>1, <1>5, <1>8 DEF Tables
    <2>2. Cardinality(KeysIn(staging[t])) = Cardinality(d.keys[t])
      BY <1>2, <1>4, <2>1 DEF Counts, CountsIn, Typed, SwapReady
    <2>3. IsFiniteSet(d.keys[t]) /\ KeysIn(staging[t]) \subseteq d.keys[t]
      BY <1>5, DatasetsAssumption DEF Tables
    <2>4. KeysIn(staging[t]) = d.keys[t]
      BY <2>2, <2>3, FS_Subset
    <2> QED BY <1>1, <2>1, <2>4
  <1>9. Swapped'
    BY <1>1, <1>2, <1>3, <1>4, <1>6, <1>7, <1>8 DEF Swapped
  <1> QED BY <1>2, <1>9 DEF Checked, Gated

LEMMA ProgressNext == Typed /\ Standing /\ Progress /\ [Next]_vars => Progress'
  <1> SUFFICES ASSUME Typed, Standing, Progress, [Next]_vars PROVE (Checked /\ Gated /\ Swapped)'
    BY StagedOfNext DEF Progress
  <1>1. ASSUME job'.step \notin {"gates", "swap", "smoke"} PROVE (Checked /\ Gated /\ Swapped)'
    BY <1>1 DEF Checked, Gated, Swapped
  <1>2. ASSUME UNCHANGED <<live, staging, old, expected, manifests, job>> PROVE (Checked /\ Gated /\ Swapped)'
    BY <1>2 DEF Progress, Checked, Gated, Swapped, Seen, Bound, Counts, CountsIn, KeysIn
  <1>3. CASE PromoteCheck
    <2>1. CASE job' = Idle
      BY <1>1, <2>1, IdleFacts
    <2>2. CASE LiveUnchanged /\ FilesUnchanged /\ CountsBound /\ job' = [job EXCEPT !.step = "gates"]
      <3>1. job'.step = "gates" /\ job'.manifest = job.manifest
        BY <2>2 DEF Typed, TypeOK
      <3>2. UNCHANGED <<live, expected, manifests>> /\ Bound' = Bound
        BY <1>3, <3>1 DEF PromoteCheck, Database, Disk, Bound
      <3>3. Bound.files \in Datasets /\ expected = CountsIn(Bound.files)
        BY <2>2 DEF FilesUnchanged, CountsBound, Typed, TypeOK
      <3>4. ASSUME NEW t \in Tables, NEW k \in KeysIn(live[t]) PROVE Seen(t, k, live[t])'
        <4>1. Bound.prints[t] = live[t].rows /\ k \in DOMAIN live[t].rows
          BY <2>2, <3>4 DEF LiveUnchanged, Prints, KeysIn
        <4> QED BY <3>2, <4>1 DEF Seen
      <3> QED BY <3>1, <3>2, <3>3, <3>4 DEF Checked, Gated, Swapped
    <2> QED BY <1>3, <2>1, <2>2 DEF PromoteCheck
  <1>4. CASE PromoteGates
    <2>1. CASE job' = Idle
      BY <1>1, <2>1, IdleFacts
    <2>2. CASE Gates /\ job' = [job EXCEPT !.step = "swap", !.read = Counts(staging)]
      <3>1. /\ job'.step = "swap" /\ job'.manifest = job.manifest /\ job'.late = job.late
            /\ job'.read = Counts(staging)
        BY <2>2 DEF Typed, TypeOK
      <3>2. UNCHANGED <<live, staging, expected, manifests>> /\ Bound' = Bound
        BY <1>4, <3>1 DEF PromoteGates, Database, Disk, Bound
      <3>3. /\ Bound.files \in Datasets /\ expected = CountsIn(Bound.files)
            /\ \A t \in Tables : \A k \in KeysIn(live[t]) : Seen(t, k, live[t])
        BY <1>4 DEF PromoteGates, Progress, Checked
      <3>4. Checked'
        BY <3>1, <3>2, <3>3 DEF Checked, Seen
      <3>5. Counts(staging)' = CountsIn(Bound.files) /\ job'.read = CountsIn(Bound.files)
        BY <2>2, <3>1, <3>2, <3>3 DEF Gates, Counts
      <3>6. Gated'
        BY <2>2, <3>1, <3>2, <3>5 DEF Gates, Gated, Tables
      <3> QED BY <3>1, <3>4, <3>6 DEF Swapped
    <2> QED BY <1>4, <2>1, <2>2 DEF PromoteGates
  <1>5. CASE PromoteSwap
    BY <1>5, ProgressSwap
  <1>6. ASSUME NEW t \in Tables, NEW k \in Keys[t], Write(t, k) PROVE (Checked /\ Gated /\ Swapped)'
    BY <1>6, ProgressWrite
  <1>7. ASSUME NEW b \in Backups, BackupCount(b) \/ Stage(b) PROVE job'.step \in {"print", "stageCheck"}
    BY <1>7 DEF BackupCount, Stage, Idle
  <1>8. ASSUME NEW b \in Backups, NEW s \in Stamps, Promote(b, s) PROVE job'.step = "promoteCheck"
    BY <1>8 DEF Promote, Idle
  <1>9. BackupPrint => job'.step = "dump"
    BY DEF BackupPrint, Typed, TypeOK
  <1>10. ASSUME BackupDone \/ StageLoad \/ PromoteSmoke \/ Die
                \/ (\E t \in Tables : \E keys \in SUBSET Keys[t] : StageStops(t, keys))
         PROVE  job'.step = "idle"
    BY <1>10, IdleFacts DEF BackupDone, StageLoad, PromoteSmoke, Die, StageStops
  <1>11. StageCheck => job'.step \in {"load", "idle"}
    BY IdleFacts DEF StageCheck, Typed, TypeOK
  <1>12. ASSUME NEW s \in Stamps, Rollback(s) PROVE job'.step = "idle"
    BY <1>12, IdleFacts DEF Rollback
  <1>13. ASSUME NEW d \in Datasets, Edit(d) PROVE (Checked /\ Gated /\ Swapped)'
    BY <1>2, <1>13 DEF Edit, Database
  <1>14. CASE UNCHANGED vars
    BY <1>2, <1>14 DEF vars, Database, Disk
  <1>15. CASE Backup
    BY <1>1, <1>7, <1>9, <1>10, <1>15 DEF Backup
  <1>16. CASE Staging
    BY <1>1, <1>7, <1>10, <1>11, <1>16 DEF Staging
  <1>17. CASE Promotion
    BY <1>1, <1>3, <1>4, <1>5, <1>8, <1>10, <1>17 DEF Promotion
  <1>18. CASE Others
    BY <1>6, <1>13, <1>18 DEF Others
  <1>19. CASE \E s \in Stamps : Rollback(s)
    BY <1>1, <1>12, <1>19
  <1>20. CASE Die
    BY <1>1, <1>10, <1>20
  <1> QED BY <1>14, <1>15, <1>16, <1>17, <1>18, <1>19, <1>20 DEF Next

LEMMA ProgressSuffices == Typed /\ Progress => PassedIsSound
  <1> SUFFICES ASSUME Typed, Progress, job.step = "smoke", SmokeTest(job.stamp)
               PROVE  /\ \A t \in Tables : \A k \in KeysIn(old[job.stamp][t]) :
                           /\ Seen(t, k, old[job.stamp][t])
                           /\ \/ k \in KeysIn(live[t])
                              \/ IF t = "parts" THEN k \in files.drops ELSE <<t, k>> \in job.late
                      /\ live["tires"].of = Bound.files =>
                           \A t \in Tables : KeysIn(live[t]) = Bound.files.keys[t]
    BY DEF PassedIsSound, Seen
  <1>1. \A k \in KeysIn(old[job.stamp]["parts"]) : k \in KeysIn(live["parts"]) \/ k \in files.drops
    BY DEF SmokeTest, PartsPreserved
  <1>2. ASSUME NEW t \in Tables, live["tires"].of = Bound.files
        PROVE  KeysIn(live[t]) = Bound.files.keys[t]
    <2>1. Bound.files.keys[t] \subseteq KeysIn(live[t]) /\ IsFiniteSet(KeysIn(live[t])) /\ live[t] # None
      BY <1>2 DEF Progress, Swapped
    <2>2. Counts(live) = CountsIn(Bound.files)
      BY DEF Progress, Swapped, SmokeTest
    <2>3. Cardinality(KeysIn(live[t])) = Cardinality(Bound.files.keys[t])
      BY <2>1, <2>2 DEF Counts, CountsIn
    <2> QED BY <2>1, <2>3, FS_Subset
  <1> QED BY <1>1, <1>2 DEF Progress, Swapped

\* What passes the smoke test lost no key but approved ones, set no row aside that the
\* backup had not seen unless it came late, and, if it was staged from the dataset that
\* the backup bound, is all of it.
THEOREM PassedPromotionIsSound == Spec => []PassedIsSound
  <1> DEFINE Inv == Typed /\ Standing /\ Progress
  <1>1. Init => Inv
    BY TypedInit, StandingInit, ProgressInit
  <1>2. Inv /\ [Next]_vars => Inv'
    BY TypedNext, StandingNext, ProgressNext
  <1>3. Inv => PassedIsSound
    BY ProgressSuffices
  <1> QED BY <1>1, <1>2, <1>3, PTL DEF Spec
=============================================================================
