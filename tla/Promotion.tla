----------------------------- MODULE Promotion -----------------------------
(***************************************************************************)
(* How a repaired tire catalogue replaces the live one.  The operator runs *)
(* one command after another: backup notes what is live and which dataset  *)
(* lies in the staging directory, stage loads the dataset into tables      *)
(* beside the live ones, promote checks both again and renames the staged  *)
(* tables over the live ones, rollback renames them back.  A command may   *)
(* be killed at any await, the files may be edited, and other writers may  *)
(* write although the runbook asks them to pause.                          *)
(*                                                                         *)
(* verify, and every dry run, changes nothing.  "provenance" stands for    *)
(* the three tables that the first promotion creates.                      *)
(***************************************************************************)
EXTENDS Integers, FiniteSets, Functions

CONSTANTS
  Stamps,    \* timestamps of promotions: PROMOTE_TS, or the second they start in
  Backups,   \* timestamps of backups
  Keys,      \* keys of each table that may be written
  TireOf,    \* the tire that a part number leads to
  Base,      \* keys of each live table before the first promotion
  Datasets,  \* what may lie in the staging directory: name, keys of each table, and
             \* drops, the part numbers whose loss is approved
  MaxUpsets, \* bound: edits of the files, dead stages and writes of others
  None

ASSUME BaseAssumption == \A t \in {"tires", "parts"} : Base[t] \subseteq Keys[t]
ASSUME DatasetsAssumption ==
  \A d \in Datasets : \A t \in {"tires", "parts", "provenance"} :
    d.keys[t] \subseteq Keys[t] /\ IsFiniteSet(d.keys[t])
ASSUME UpsetsAssumption == MaxUpsets \in Nat

Tables == {"tires", "parts", "provenance"}
LiveTables == {"tires", "parts"}
LoadedBefore == [tires |-> {}, parts |-> {"tires"}, provenance |-> LiveTables]

Values == {<<"base", 0>>} \cup {<<d.name, 0>> : d \in Datasets} \cup {<<"write", n>> : n \in 1..MaxUpsets}

VARIABLES
  live, staging,      \* tables by name, None where there is no such table
  old, failed,        \* tables set aside by the promotion or the rollback of a stamp
  indexed,            \* whether a live table has its secondary indexes
  files,              \* dataset in the staging directory
  expected,           \* stage_expected_counts.json
  manifests,          \* of each backup, None before it is through
  job,                \* the command that runs, and what it has read
  upsets,             \* edits, dead stages and writes of others so far
  written,            \* rows of the base and of writers that nobody wrote over
  reused,             \* stamps promoted again after their rollback
  disorder            \* some rollback was not of the latest promotion

Database == <<live, staging, old, failed, indexed>>
Disk == <<files, expected, manifests>>
Notes == <<written, reused, disorder>>
vars == <<Database, Disk, job, upsets, Notes>>

Idle == [step |-> "idle", stamp |-> None, manifest |-> None, read |-> None, late |-> {}]
Upset == upsets < MaxUpsets /\ upsets' = upsets + 1
Nothing == [t \in Tables |-> None]

Steps == {"idle", "print", "dump", "stageCheck", "load",
          "promoteCheck", "gates", "swap", "smoke"}

AnyKey == UNION {Keys[t] : t \in Tables}
Rows == UNION {[K -> Values] : K \in SUBSET AnyKey}
Table == [rows : Rows, of : Datasets \cup {None}, at : Stamps \cup {None}]
Generations == [Tables -> Table \cup {None}]

ASSUME NoneAssumption == None \notin Stamps \cup Table \cup Nat

TypeOK ==
  /\ {live, staging} \subseteq Generations /\ {old, failed} \subseteq [Stamps -> Generations]
  /\ indexed \in [Tables -> BOOLEAN] /\ files \in Datasets
  /\ job = [step |-> job.step, stamp |-> job.stamp, manifest |-> job.manifest,
            read |-> job.read, late |-> job.late]
  /\ job.step \in Steps /\ job.stamp \in Stamps \cup {None} /\ job.manifest \in Backups \cup {None}
  /\ job.step \in {"stageCheck", "load"} => job.read \in Datasets
  /\ job.step \in {"promoteCheck", "gates", "swap", "smoke"} => job.stamp \in Stamps
  /\ upsets \in 0..MaxUpsets /\ reused \subseteq Stamps /\ disorder \in BOOLEAN
  /\ written \subseteq Tables \X (AnyKey \X Values)

Init ==
  /\ live = [t \in Tables |->
       IF t \in LiveTables
       THEN [rows |-> [k \in Base[t] |-> <<"base", 0>>], of |-> None, at |-> None] ELSE None]
  /\ staging = Nothing /\ old = [s \in Stamps |-> Nothing] /\ failed = old
  /\ indexed = [t \in Tables |-> FALSE]
  /\ files \in Datasets /\ expected = None
  /\ manifests = [b \in Backups |-> None]
  /\ job = Idle
  /\ upsets = 0 /\ written = UNION {{<<t, <<k, <<"base", 0>>>>>> : k \in Base[t]} : t \in LiveTables}
  /\ reused = {} /\ disorder = FALSE

----------------------------------------------------------------------------
\* What a command reads.

KeysIn(table) == IF table = None THEN {} ELSE DOMAIN table.rows
Counts(tables) == [t \in Tables |-> IF tables[t] = None THEN None ELSE Cardinality(KeysIn(tables[t]))]
Prints == [t \in Tables |-> IF live[t] = None THEN None ELSE live[t].rows]
CountsIn(d) == [t \in Tables |-> Cardinality(d.keys[t])]

Loaded(d, keys) == [rows |-> [k \in keys |-> <<d.name, 0>>], of |-> d, at |-> None]

Bound == manifests[job.manifest]

\* Mutant: counts alone, which an update leaves as they were.
LiveCountsUnchanged == Counts(live) = Bound.counts

\* live has the counts and the rows that the backup saw
LiveUnchanged == Counts(live) = Bound.counts /\ Prints = Bound.prints
\* the dataset with its approved drops is the one that lay there at the backup
FilesUnchanged == files = Bound.files
\* the counts that stage left behind are those of that dataset
CountsBound == expected = CountsIn(Bound.files)

\* missing part numbers are all approved
PartsPreserved(before, after) == KeysIn(before) \ KeysIn(after) \subseteq files.drops

Gates ==
  /\ expected # None /\ Counts(staging) = expected
  /\ \A p \in KeysIn(staging["parts"]) : TireOf[p] \in KeysIn(staging["tires"])
  /\ KeysIn(live["tires"]) \subseteq KeysIn(staging["tires"])
  /\ PartsPreserved(live["parts"], staging["parts"])
  /\ KeysIn(live["provenance"]) \subseteq KeysIn(staging["provenance"])

\* a name that the swap would give is taken
Collides(s) == \E t \in Tables : old[s][t] # None /\ (t \in LiveTables \/ live[t] # None)

\* after the swap: the counts of what was staged, one part number followed, the indexes
SmokeTest(s) ==
  /\ Counts(live) = job.read
  /\ \E p \in KeysIn(live["parts"]) : TireOf[p] \in KeysIn(live["tires"])
  /\ \A t \in Tables : indexed[t]
  /\ PartsPreserved(old[s]["parts"], live["parts"])

----------------------------------------------------------------------------
\* backup

BackupCount(b) ==
  /\ job = Idle /\ job' = [Idle EXCEPT !.step = "print", !.manifest = b, !.read = Counts(live)]
  /\ UNCHANGED <<Database, Disk, upsets, Notes>>

BackupPrint ==
  /\ job.step = "print"
  /\ job' = [job EXCEPT !.step = "dump",
                        !.read = [counts |-> @, prints |-> Prints, files |-> files]]
  /\ UNCHANGED <<Database, Disk, upsets, Notes>>

BackupDone ==
  /\ job.step = "dump"
  /\ manifests' = [manifests EXCEPT ![job.manifest] = job.read]
  /\ job' = Idle
  /\ UNCHANGED <<Database, files, expected, upsets, Notes>>

----------------------------------------------------------------------------
\* stage

\* The files are read before the manifest, and hashed again after live was checked.
Stage(b) ==
  /\ job = Idle /\ manifests[b] # None
  /\ job' = [Idle EXCEPT !.step = "stageCheck", !.manifest = b, !.read = files]
  /\ UNCHANGED <<Database, Disk, upsets, Notes>>

StageCheck ==
  /\ job.step = "stageCheck"
  /\ IF LiveUnchanged /\ FilesUnchanged
     THEN staging' = Nothing /\ job' = [job EXCEPT !.step = "load"]
     ELSE job' = Idle /\ UNCHANGED staging
  /\ UNCHANGED <<live, old, failed, indexed, Disk, upsets, Notes>>

StageLoad ==
  /\ job.step = "load"
  /\ staging' = [t \in Tables |-> Loaded(job.read, job.read.keys[t])]
  /\ expected' = CountsIn(job.read) /\ job' = Idle
  /\ UNCHANGED <<live, old, failed, indexed, files, manifests, upsets, Notes>>

\* The command dies while it loads that table, perhaps after its last row.
StageStops(last, keys) ==
  /\ job.step = "load" /\ Upset /\ keys \subseteq job.read.keys[last]
  /\ staging' = [t \in Tables |->
       IF t = last THEN Loaded(job.read, keys)
       ELSE IF t \in LoadedBefore[last] THEN Loaded(job.read, job.read.keys[t]) ELSE None]
  /\ job' = Idle
  /\ UNCHANGED <<live, old, failed, indexed, Disk, Notes>>

----------------------------------------------------------------------------
\* promote

Promote(b, s) ==
  /\ job = Idle /\ manifests[b] # None
  /\ job' = [Idle EXCEPT !.step = "promoteCheck", !.stamp = s, !.manifest = b]
  /\ UNCHANGED <<Database, Disk, upsets, Notes>>

PromoteCheck ==
  /\ job.step = "promoteCheck"
  /\ job' = IF LiveUnchanged /\ FilesUnchanged /\ CountsBound
            THEN [job EXCEPT !.step = "gates"] ELSE Idle
  /\ UNCHANGED <<Database, Disk, upsets, Notes>>

PromoteGates ==
  /\ job.step = "gates"
  /\ job' = IF Gates /\ ~Collides(job.stamp)
            THEN [job EXCEPT !.step = "swap", !.read = Counts(staging)] ELSE Idle
  /\ UNCHANGED <<Database, Disk, upsets, Notes>>

\* One batch: what is live steps aside, what is staged becomes live, the indexes are
\* taken from whatever table has them and made again.
PromoteSwap ==
  /\ job.step = "swap"
  /\ old' = [old EXCEPT ![job.stamp] = [t \in Tables |-> IF live[t] = None THEN @[t] ELSE live[t]]]
  /\ live' = [t \in Tables |-> [staging[t] EXCEPT !.at = job.stamp]]
  /\ staging' = Nothing /\ indexed' = [t \in Tables |-> TRUE]
  /\ job' = [job EXCEPT !.step = "smoke"]
  /\ reused' = IF failed[job.stamp] = Nothing THEN reused ELSE reused \cup {job.stamp}
  /\ UNCHANGED <<failed, Disk, upsets, written, disorder>>

\* The verdict is what the command prints and exits with.
PromoteSmoke ==
  /\ job.step = "smoke" /\ job' = Idle
  /\ UNCHANGED <<Database, Disk, upsets, Notes>>

----------------------------------------------------------------------------
\* rollback, and what else may happen

\* every rename of the batch finds its table, and a free name to give it
RollsBack(s) ==
  /\ \A t \in LiveTables : old[s][t] # None
  /\ \A t \in Tables : live[t] # None /\ failed[s][t] = None

\* Mutant: tables that have no predecessor to restore are dropped.
DropsNew(s) == [t \in Tables |-> IF old[s][t] = None THEN None ELSE live[t]]

\* all that is live is kept, under a name of its own
Failed(s) == live

\* Mutant: the indexes stay with the tables that failed.
IndexesStay(s) == [t \in Tables |-> FALSE]

\* the indexes of the restored tables are made again
Reindexed(s) == [t \in Tables |-> old[s][t] # None]

Rollback(s) ==
  /\ job = Idle /\ RollsBack(s)
  /\ failed' = [failed EXCEPT ![s] = Failed(s)] /\ live' = old[s]
  /\ old' = [old EXCEPT ![s] = Nothing] /\ indexed' = Reindexed(s)
  /\ disorder' = (disorder \/ live["tires"].at # s)
  /\ UNCHANGED <<staging, Disk, job, upsets, written, reused>>

Die ==
  /\ job # Idle /\ job' = Idle
  /\ UNCHANGED <<Database, Disk, upsets, Notes>>

Edit(d) ==
  /\ Upset /\ files' = d
  /\ UNCHANGED <<Database, expected, manifests, job, Notes>>

\* Another writer inserts or replaces a row.
Write(t, k) ==
  /\ live[t] # None /\ Upset
  /\ LET row == <<"write", upsets'>> IN
     /\ live' = [live EXCEPT ![t].rows =
          [j \in KeysIn(live[t]) \cup {k} |-> IF j = k THEN row ELSE @[j]]]
     /\ written' = {w \in written : ~(w[1] = t /\ k \in KeysIn(live[t]) /\ w[2] = <<k, live[t].rows[k]>>)}
                     \cup {<<t, <<k, row>>>>}
  /\ job' = IF job.step \in {"gates", "swap"} THEN [job EXCEPT !.late = @ \cup {<<t, k>>}] ELSE job
  /\ UNCHANGED <<staging, old, failed, indexed, Disk, reused, disorder>>

Backup == BackupPrint \/ BackupDone \/ (\E b \in Backups : BackupCount(b))
Staging == (\E b \in Backups : Stage(b)) \/ StageCheck \/ StageLoad
             \/ (\E t \in Tables : \E keys \in SUBSET Keys[t] : StageStops(t, keys))
Promotion == (\E b \in Backups, s \in Stamps : Promote(b, s)) \/ PromoteCheck \/ PromoteGates \/ PromoteSwap \/ PromoteSmoke
Others == (\E d \in Datasets : Edit(d)) \/ (\E t \in Tables : \E k \in Keys[t] : Write(t, k))

Next == Backup \/ Staging \/ Promotion \/ (\E s \in Stamps : Rollback(s)) \/ Die \/ Others

Spec == Init /\ [][Next]_vars

----------------------------------------------------------------------------
\* What the procedure promises.

\* Whatever is promoted, rolled back, killed or started again, a row that was live is
\* found in some generation of its table, the live one or one set aside, unless a
\* writer wrote over it: no rename and no retry destroys the last copy.
NothingDestroyed ==
  \A w \in written : \E g \in {live} \cup Range(old) \cup Range(failed) :
    /\ g[w[1]] # None /\ w[2][1] \in KeysIn(g[w[1]]) /\ g[w[1]].rows[w[2][1]] = w[2][2]

\* Lookups go from part number to tire to provenance: the live tables are those of
\* one promotion, or of none, and carry their indexes if any was ever made.  The
\* promotion can be rolled back, to tables of one generation too, as long as stamps
\* are not used again and rollbacks go from the latest promotion backwards.
OneGeneration(tables) == \A t \in Tables : tables[t] # None => tables[t].at = tables["tires"].at

RollbackStands ==
  /\ OneGeneration(live)
  /\ \A t \in Tables : live[t] # None /\ live[t].at # None => indexed[t]
  /\ \A s \in Stamps : live["tires"].at = s /\ s \notin reused /\ ~disorder =>
       RollsBack(s) /\ OneGeneration(old[s]) /\ old[s]["tires"].at # s

\* A promotion that passes its smoke test has taken no key away but approved part
\* numbers, and set no row aside that its backup had not seen, except for what was
\* written between its last check and its swap.  If it was staged from the dataset its
\* backup bound, all of that dataset is live; tables staged from another dataset may
\* be a part of it with the same counts.
PassedIsSound ==
  job.step = "smoke" /\ SmokeTest(job.stamp) =>
    /\ \A t \in Tables : LET before == old[job.stamp][t] IN
         \A k \in KeysIn(before) :
           /\ \/ <<t, k>> \in job.late
              \/ k \in DOMAIN Bound.prints[t] /\ Bound.prints[t][k] = before.rows[k]
           /\ \/ k \in KeysIn(live[t])
              \/ IF t = "parts" THEN k \in files.drops ELSE <<t, k>> \in job.late
    /\ live["tires"].of = Bound.files => \A t \in Tables : KeysIn(live[t]) = Bound.files.keys[t]

\* What the comment at assertStagingContentUnchangedSinceManifest says: promoting a
\* dataset that is not the one of the backup is caught.  The code compares the files,
\* not the tables that were staged from them.
PublishedIsBound ==
  job.step = "smoke" /\ SmokeTest(job.stamp) => live["tires"].of = Bound.files
=============================================================================
