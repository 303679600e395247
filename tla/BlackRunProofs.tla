--------------------------- MODULE BlackRunProofs ---------------------------
(***************************************************************************)
(* Theorems about BlackRun, for any files, runs, faults and numbers of     *)
(* saves: what the cache says of a file, what a check that exits with 0    *)
(* has seen, and that no source is lost between the tasks and the report.  *)
(***************************************************************************)
EXTENDS BlackRun, FiniteSetTheorems, TLAPS

\* The types, but for how far counters and stamps go.
FileTypes ==
  /\ file \in [Files -> [text : Texts \cup {"cut"}, stamp : Nat]]
  /\ cachefile \in [Files -> Nat]
  /\ cache \in [Runs -> [Files -> Nat]]

TaskTypes ==
  /\ pc \in [Runs -> {"idle", "loop", "replace", "shutdown", "exited", "dead"}]
  /\ mode \in [Runs -> AllModes] /\ (\A r \in Runs : mode[r] \in Modes[r])
  /\ sources \in [Runs -> SUBSET Files]
  /\ job \in [Runs -> [Files -> {"none", "queued"} \cup Busy]]
  /\ future \in [Runs -> [Files -> {"none", "pending"} \cup Settled]]

ReportTypes ==
  /\ toCache \in [Runs -> SUBSET Files]
  /\ report \in [Runs -> [change : Nat, same : Nat, failure : Nat]]
  /\ cancelled \in [Runs -> SUBSET Files]
  /\ interrupted \in [Runs -> BOOLEAN]
  /\ seenGood \in [Runs -> SUBSET Files]
  /\ edits \in 0..MaxEdits /\ faults \in 0..MaxFaults

Types == FileTypes /\ TaskTypes /\ ReportTypes

\* Tasks and calls are of sources.  A call goes on without its task only after a signal or
\* the death of the main process.
Fresh(r) ==
  /\ sources[r] = {} /\ toCache[r] = {} /\ cancelled[r] = {} /\ ~interrupted[r]
  /\ report[r] = NoReport

TaskOf(r, f) ==
  /\ job[r][f] # "none" \/ future[r][f] # "none" => f \in sources[r]
  /\ job[r][f] \in Busy => WritesBack(r)
  /\ job[r][f] # "none" => future[r][f] = "pending" \/ interrupted[r] \/ pc[r] = "dead"
  /\ future[r][f] = "cancelled" => interrupted[r]
  /\ pc[r] \in {"replace", "shutdown", "exited"} => future[r][f] = "none"

TaskInv ==
  \A r \in Runs :
    /\ pc[r] = "idle" => Fresh(r)
    /\ pc[r] \in {"exited", "dead"} => toCache[r] = {}
    /\ \A f \in Files : TaskOf(r, f)

\* Each source is in a counter, was found cancelled, or has its task in the dictionary.
Tasks(r) == {f \in Files : future[r][f] # "none"}
CountOf(r) ==
  /\ cancelled[r] \subseteq sources[r] \ Tasks(r)
  /\ report[r].change + report[r].same + report[r].failure
       + Cardinality(cancelled[r]) + Cardinality(Tasks(r)) = Cardinality(sources[r])
CountInv == \A r \in Runs : CountOf(r)

\* The runs that have yet to truncate a file, if they will, and those that have yet to fill it.
MayTruncate(f) == {r \in Runs : pc[r] = "idle" \/ job[r][f] \in {"queued", "changed"}}
MayFlush(f) == {r \in Runs : pc[r] = "idle" \/ job[r][f] # "none"}
StampInv ==
  \A f \in Files :
    file[f].stamp + Cardinality(MayTruncate(f)) + Cardinality(MayFlush(f)) <= edits + 2 * NRuns

\* A stamp somebody knows is not in the future, and if it is the one of now, the file is
\* formatted or being written; so is a file that a run under way has found so or written.
Formatted(f) == file[f].text \in {"good", "cut"}
KnownOk(s, f) == s = Absent \/ s < file[f].stamp \/ (s = file[f].stamp /\ Formatted(f))
Found(r, f) == f \in toCache[r] \/ future[r][f] = "no" \/ (future[r][f] = "yes" /\ WritesBack(r))
CacheInv ==
  \A f \in Files :
    /\ KnownOk(cachefile[f], f)
    /\ \A r \in Runs : KnownOk(cache[r][f], f) /\ (r \in Running /\ Found(r, f) => Formatted(f))

\* The stamps somebody knows, whatever editors do.
Past(s, f) == s = Absent \/ s <= file[f].stamp
PastInv ==
  \A f \in Files : Past(cachefile[f], f) /\ \A r \in Runs : Past(cache[r][f], f)

\* What a check has not seen formatted it will have to report, or a signal cut it short.
SeenOf(r, f) ==
  \/ f \in seenGood[r] \/ future[r][f] \in {"pending", "yes", "error"}
  \/ report[r].change > 0 \/ report[r].failure > 0 \/ interrupted[r]
SeenInv ==
  \A r \in Runs : pc[r] \notin {"idle", "dead"} /\ Checks(r) => \A f \in sources[r] : SeenOf(r, f)

USE FilesAssumption, ModeAssumption, WorkersAssumption, BoundAssumption, FaultyAssumption,
    EditingAssumption

USE DEF Runs, AllModes, Texts, Settled, Busy, runstate, budget

\* What a run does, its workers included.
RunAct(r) ==
  \/ Main(r) \/ Fault(r)
  \/ \E f \in Files : Worker(r, f) \/ WriteFails(r, f)

-----------------------------------------------------------------------------
(* Every step keeps the types. *)

LEMMA StampsAreNumbers == Absent \in Nat /\ Stamps \subseteq Nat
  BY DEF Absent, Stamps

LEMMA FileTypesStep ==
  ASSUME Types, NEW r \in Runs, RunAct(r)
  PROVE  FileTypes'
<1> USE DEF Types, FileTypes, Forgets, Settle, Wrote
<1>1. CASE Start(r)
  BY <1>1, StampsAreNumbers DEF Start
<1>2. CASE LoopTurn(r)
  BY <1>2, StampsAreNumbers DEF LoopTurn
<1>3. CASE CollectStamps(r)
  <2>1. \/ cache' = cache
        \/ cache' = [cache EXCEPT ![r] =
                       [f \in Files |-> IF f \in toCache[r] THEN file[f].stamp ELSE cache[r][f]]]
    BY <1>3 DEF CollectStamps
  <2>2. [f \in Files |-> IF f \in toCache[r] THEN file[f].stamp ELSE cache[r][f]] \in [Files -> Nat]
    OBVIOUS
  <2>3. UNCHANGED <<file, cachefile>>
    BY <1>3 DEF CollectStamps
  <2> QED
    BY <2>1, <2>2, <2>3
<1>4. CASE ReplaceCache(r)
  BY <1>4, StampsAreNumbers DEF ReplaceCache
<1>5. CASE Exit(r)
  BY <1>5, StampsAreNumbers DEF Exit
<1>6. CASE ReplaceCacheFails(r)
  BY <1>6, StampsAreNumbers DEF ReplaceCacheFails
<1>7. CASE Cancel(r)
  BY <1>7, StampsAreNumbers DEF Cancel
<1>8. CASE PoolBreaks(r)
  BY <1>8, StampsAreNumbers DEF PoolBreaks
<1>9. CASE Kill(r)
  BY <1>9, StampsAreNumbers DEF Kill
<1>10. ASSUME NEW f \in Files, Format(r, f)
      PROVE  FileTypes'
  BY <1>10, StampsAreNumbers DEF Format
<1>11. ASSUME NEW f \in Files, Truncate(r, f)
      PROVE  FileTypes'
  BY <1>11, StampsAreNumbers DEF Truncate
<1>12. ASSUME NEW f \in Files, Flush(r, f)
      PROVE  FileTypes'
  BY <1>12, StampsAreNumbers DEF Flush
<1>13. ASSUME NEW f \in Files, WriteFails(r, f)
      PROVE  FileTypes'
  BY <1>13, StampsAreNumbers DEF WriteFails
<1> QED
  BY <1>1, <1>2, <1>3, <1>4, <1>5, <1>6, <1>7, <1>8, <1>9, <1>10, <1>11, <1>12, <1>13 DEF RunAct, Main, Fault, Worker

LEMMA TaskTypesStep ==
  ASSUME Types, NEW r \in Runs, RunAct(r)
  PROVE  TaskTypes'
<1> USE DEF Types, TaskTypes, Settle, Diffs, Known, Unmodified
<1>1. CASE Start(r)
  BY <1>1 DEF Start
<1>2. CASE LoopTurn(r)
  BY <1>2 DEF LoopTurn
<1>3. CASE CollectStamps(r)
  BY <1>3 DEF CollectStamps
<1>4. CASE ReplaceCache(r)
  BY <1>4 DEF ReplaceCache
<1>5. CASE Exit(r)
  BY <1>5 DEF Exit
<1>6. CASE ReplaceCacheFails(r)
  BY <1>6 DEF ReplaceCacheFails
<1>7. CASE Cancel(r)
  BY <1>7 DEF Cancel
<1>8. CASE PoolBreaks(r)
  BY <1>8 DEF PoolBreaks
<1>9. CASE Kill(r)
  BY <1>9 DEF Kill
<1>10. ASSUME NEW f \in Files, Format(r, f)
      PROVE  TaskTypes'
  <2>1. \/ job' = [job EXCEPT ![r][f] = "changed"] /\ future' = future
        \/ \E result \in {"no", "error", "yes"} : Settle(r, f, result)
    BY <1>10 DEF Format
  <2>2. UNCHANGED runstate
    BY <1>10 DEF Format
  <2>3. CASE job' = [job EXCEPT ![r][f] = "changed"] /\ future' = future
    BY <1>10, <2>2, <2>3
  <2>4. ASSUME NEW result \in {"no", "error", "yes"}, Settle(r, f, result)
        PROVE  TaskTypes'
    <3>1. job' \in [Runs -> [Files -> {"none", "queued"} \cup Busy]]
      BY <1>10, <2>4
    <3>2. future' \in [Runs -> [Files -> {"none", "pending"} \cup Settled]]
      BY <1>10, <2>4
    <3> QED
      BY <2>2, <3>1, <3>2
  <2> QED
    BY <2>1, <2>3, <2>4
<1>11. ASSUME NEW f \in Files, Truncate(r, f)
      PROVE  TaskTypes'
  BY <1>11 DEF Truncate
<1>12. ASSUME NEW f \in Files, Flush(r, f)
      PROVE  TaskTypes'
  BY <1>12 DEF Flush
<1>13. ASSUME NEW f \in Files, WriteFails(r, f)
      PROVE  TaskTypes'
  BY <1>13 DEF WriteFails
<1> QED
  BY <1>1, <1>2, <1>3, <1>4, <1>5, <1>6, <1>7, <1>8, <1>9, <1>10, <1>11, <1>12, <1>13 DEF RunAct, Main, Fault, Worker

LEMMA ReportTypesStep ==
  ASSUME Types, NEW r \in Runs, RunAct(r)
  PROVE  (toCache \in [Runs -> SUBSET Files] /\ cancelled \in [Runs -> SUBSET Files]
         /\ interrupted \in [Runs -> BOOLEAN] /\ edits \in 0..MaxEdits /\ faults \in 0..MaxFaults)'
<1> USE DEF Types, ReportTypes, TaskTypes, Forgets, Breaks
<1>1. CASE Start(r)
  BY <1>1 DEF Start
<1>2. CASE LoopTurn(r)
  <2>1. /\ toCache' = [toCache EXCEPT ![r] = @ \cup {f \in Done(r) : Cacheable(r, f)}]
        /\ cancelled' = [cancelled EXCEPT ![r] = @ \cup {f \in Done(r) : future[r][f] = "cancelled"}]
        /\ UNCHANGED <<interrupted, budget>>
    BY <1>2 DEF LoopTurn
  <2>2. Done(r) \subseteq Files
    BY DEF Done
  <2> QED
    BY <2>1, <2>2
<1>3. CASE CollectStamps(r)
  BY <1>3 DEF CollectStamps
<1>4. CASE ReplaceCache(r)
  BY <1>4 DEF ReplaceCache
<1>5. CASE Exit(r)
  BY <1>5 DEF Exit
<1>6. CASE ReplaceCacheFails(r)
  BY <1>6 DEF ReplaceCacheFails
<1>7. CASE Cancel(r)
  BY <1>7 DEF Cancel
<1>8. CASE PoolBreaks(r)
  BY <1>8 DEF PoolBreaks
<1>9. CASE Kill(r)
  BY <1>9 DEF Kill
<1>10. ASSUME NEW f \in Files, Format(r, f)
      PROVE  (toCache \in [Runs -> SUBSET Files] /\ cancelled \in [Runs -> SUBSET Files]
         /\ interrupted \in [Runs -> BOOLEAN] /\ edits \in 0..MaxEdits /\ faults \in 0..MaxFaults)'
  BY <1>10 DEF Format
<1>11. ASSUME NEW f \in Files, Truncate(r, f)
      PROVE  (toCache \in [Runs -> SUBSET Files] /\ cancelled \in [Runs -> SUBSET Files]
         /\ interrupted \in [Runs -> BOOLEAN] /\ edits \in 0..MaxEdits /\ faults \in 0..MaxFaults)'
  BY <1>11 DEF Truncate
<1>12. ASSUME NEW f \in Files, Flush(r, f)
      PROVE  (toCache \in [Runs -> SUBSET Files] /\ cancelled \in [Runs -> SUBSET Files]
         /\ interrupted \in [Runs -> BOOLEAN] /\ edits \in 0..MaxEdits /\ faults \in 0..MaxFaults)'
  BY <1>12 DEF Flush
<1>13. ASSUME NEW f \in Files, WriteFails(r, f)
      PROVE  (toCache \in [Runs -> SUBSET Files] /\ cancelled \in [Runs -> SUBSET Files]
         /\ interrupted \in [Runs -> BOOLEAN] /\ edits \in 0..MaxEdits /\ faults \in 0..MaxFaults)'
  BY <1>13 DEF WriteFails
<1> QED
  BY <1>1, <1>2, <1>3, <1>4, <1>5, <1>6, <1>7, <1>8, <1>9, <1>10, <1>11, <1>12, <1>13 DEF RunAct, Main, Fault, Worker

LEMMA OtherRuns ==
  ASSUME Types, NEW r \in Runs, RunAct(r), NEW q \in Runs \ {r}
  PROVE  /\ pc'[q] = pc[q] /\ mode'[q] = mode[q] /\ sources'[q] = sources[q]
         /\ cache'[q] = cache[q] /\ toCache'[q] = toCache[q] /\ report'[q] = report[q]
         /\ cancelled'[q] = cancelled[q] /\ interrupted'[q] = interrupted[q]
         /\ job'[q] = job[q] /\ future'[q] = future[q]
<1> USE DEF Types, FileTypes, TaskTypes, ReportTypes, Forgets, Settle
<1>1. CASE Start(r)
  BY <1>1 DEF Start
<1>2. CASE LoopTurn(r)
  BY <1>2 DEF LoopTurn
<1>3. CASE CollectStamps(r)
  BY <1>3 DEF CollectStamps
<1>4. CASE ReplaceCache(r)
  BY <1>4 DEF ReplaceCache
<1>5. CASE Exit(r)
  BY <1>5 DEF Exit
<1>6. CASE ReplaceCacheFails(r)
  BY <1>6 DEF ReplaceCacheFails
<1>7. CASE Cancel(r)
  BY <1>7 DEF Cancel
<1>8. CASE PoolBreaks(r)
  BY <1>8 DEF PoolBreaks
<1>9. CASE Kill(r)
  BY <1>9 DEF Kill
<1>10. ASSUME NEW f \in Files, Format(r, f)
      PROVE  /\ pc'[q] = pc[q] /\ mode'[q] = mode[q] /\ sources'[q] = sources[q]
             /\ cache'[q] = cache[q] /\ toCache'[q] = toCache[q] /\ report'[q] = report[q]
             /\ cancelled'[q] = cancelled[q] /\ interrupted'[q] = interrupted[q]
             /\ job'[q] = job[q] /\ future'[q] = future[q]
  BY <1>10 DEF Format
<1>11. ASSUME NEW f \in Files, Truncate(r, f)
      PROVE  /\ pc'[q] = pc[q] /\ mode'[q] = mode[q] /\ sources'[q] = sources[q]
             /\ cache'[q] = cache[q] /\ toCache'[q] = toCache[q] /\ report'[q] = report[q]
             /\ cancelled'[q] = cancelled[q] /\ interrupted'[q] = interrupted[q]
             /\ job'[q] = job[q] /\ future'[q] = future[q]
  BY <1>11 DEF Truncate
<1>12. ASSUME NEW f \in Files, Flush(r, f)
      PROVE  /\ pc'[q] = pc[q] /\ mode'[q] = mode[q] /\ sources'[q] = sources[q]
             /\ cache'[q] = cache[q] /\ toCache'[q] = toCache[q] /\ report'[q] = report[q]
             /\ cancelled'[q] = cancelled[q] /\ interrupted'[q] = interrupted[q]
             /\ job'[q] = job[q] /\ future'[q] = future[q]
  BY <1>12 DEF Flush
<1>13. ASSUME NEW f \in Files, WriteFails(r, f)
      PROVE  /\ pc'[q] = pc[q] /\ mode'[q] = mode[q] /\ sources'[q] = sources[q]
             /\ cache'[q] = cache[q] /\ toCache'[q] = toCache[q] /\ report'[q] = report[q]
             /\ cancelled'[q] = cancelled[q] /\ interrupted'[q] = interrupted[q]
             /\ job'[q] = job[q] /\ future'[q] = future[q]
  BY <1>13 DEF WriteFails
<1> QED
  BY <1>1, <1>2, <1>3, <1>4, <1>5, <1>6, <1>7, <1>8, <1>9, <1>10, <1>11, <1>12, <1>13 DEF RunAct, Main, Fault, Worker

\* report.done, report.failed: the counters stay numbers.
LEMMA TallyIsNumbers ==
  ASSUME Types, NEW r \in Runs, NEW D \in SUBSET Files
  PROVE  Tally(r, D) \in [change : Nat, same : Nat, failure : Nat]
<1>1. \A T \in SUBSET Files : Cardinality(T) \in Nat
  BY FS_Subset, FS_CardinalityType
<1>2. \A result : Cardinality({f \in D : future[r][f] = result}) \in Nat
  <2>1. \A result : {f \in D : future[r][f] = result} \in SUBSET Files
    OBVIOUS
  <2> QED
    BY <1>1, <2>1
<1>3. report[r] \in [change : Nat, same : Nat, failure : Nat]
  BY DEF Types, ReportTypes
<1>4. PICK c \in Nat, s \in Nat, x \in Nat :
        c = report[r].change /\ s = report[r].same /\ x = report[r].failure
  BY <1>3
<1>5. PICK y \in Nat, n \in Nat, e \in Nat :
        /\ y = Cardinality({f \in D : future[r][f] = "yes"})
        /\ n = Cardinality({f \in D : future[r][f] = "no"})
        /\ e = Cardinality({f \in D : future[r][f] = "error"})
  BY <1>2
<1>6. Tally(r, D) = [change |-> c + y, same |-> s + n, failure |-> x + e]
  BY <1>4, <1>5 DEF Tally
<1> QED
  BY <1>6

LEMMA ReportStep ==
  ASSUME Types, NEW r \in Runs, RunAct(r)
  PROVE  report' \in [Runs -> [change : Nat, same : Nat, failure : Nat]]
<1> DEFINE Reports == [change : Nat, same : Nat, failure : Nat]
<1>1. report \in [Runs -> Reports]
  BY DEF Types, ReportTypes
<1>2. CASE Start(r)
  <2>1. PICK n : n = Cardinality(Known(r, cachefile)) /\ n \in Nat
    <3>1. Known(r, cachefile) \in SUBSET Files
      BY <1>2, TaskTypesStep DEF Known, TaskTypes
    <3> QED
      BY <3>1, FS_Subset, FS_CardinalityType
  <2>2. report' = [report EXCEPT ![r] = [change |-> 0, same |-> n, failure |-> 0]]
    BY <1>2, <2>1 DEF Start
  <2> QED
    BY <1>1, <2>1, <2>2
<1>3. CASE LoopTurn(r)
  <2>1. Tally(r, Done(r)) \in Reports
    BY TallyIsNumbers DEF Done
  <2>2. report' = [report EXCEPT ![r] = Tally(r, Done(r))]
    BY <1>3 DEF LoopTurn
  <2> QED
    BY <1>1, <2>1, <2>2
<1>4. CASE ~Start(r) /\ ~LoopTurn(r)
  <2>1. report' = report
    BY <1>4 DEF RunAct, Main, Fault, Worker, CollectStamps, ReplaceCache, Exit, ReplaceCacheFails,
       Cancel, PoolBreaks, Kill, Format, Truncate, Flush, WriteFails
  <2> QED
    BY <1>1, <2>1
<1> QED
  BY <1>2, <1>3, <1>4

LEMMA SeenTypes ==
  ASSUME Types, TaskTypes', Note
  PROVE  seenGood' \in [Runs -> SUBSET Files]
<1>1. sources' \in [Runs -> SUBSET Files] /\ seenGood \in [Runs -> SUBSET Files]
  BY DEF TaskTypes, Types, ReportTypes
<1> QED
  BY <1>1 DEF Note

LEMMA TypesStep ==
  ASSUME Types, NEW r \in Runs, RunAct(r), Note
  PROVE  Types'
  BY FileTypesStep, TaskTypesStep, ReportTypesStep, ReportStep, SeenTypes DEF Types, ReportTypes

LEMMA TypesEdit ==
  ASSUME Types, NEW f \in Files, Edit(f), Note
  PROVE  Types'
<1>1. FileTypes'
  BY DEF Types, FileTypes, Edit, Wrote
<1>2. TaskTypes'
  BY DEF Types, TaskTypes, Edit
<1>3. ReportTypes'
  <2>1. UNCHANGED <<toCache, report, cancelled, interrupted, faults>> /\ ReportTypes
    BY DEF Edit, Types
  <2>2. edits' \in 0..MaxEdits
    BY DEF Edit, Types, ReportTypes
  <2>3. seenGood' \in [Runs -> SUBSET Files]
    BY <1>2, SeenTypes
  <2> QED
    BY <2>1, <2>2, <2>3 DEF ReportTypes
<1> QED
  BY <1>1, <1>2, <1>3 DEF Types

-----------------------------------------------------------------------------
(* Tasks, and calls of the pool. *)

LEMMA OwnStep ==
  ASSUME Types, TaskInv, NEW r \in Runs, RunAct(r)
  PROVE  /\ pc'[r] = "idle" => Fresh(r)'
         /\ pc'[r] \in {"exited", "dead"} => toCache'[r] = {}
<1> USE DEF Types, TaskTypes, ReportTypes, TaskInv, Fresh, Forgets, Settle
<1>1. CASE Start(r)
  BY <1>1 DEF Start
<1>2. CASE LoopTurn(r)
  BY <1>2 DEF LoopTurn
<1>3. CASE CollectStamps(r)
  BY <1>3 DEF CollectStamps
<1>4. CASE ReplaceCache(r)
  BY <1>4 DEF ReplaceCache
<1>5. CASE Exit(r)
  BY <1>5 DEF Exit
<1>6. CASE ReplaceCacheFails(r)
  BY <1>6 DEF ReplaceCacheFails
<1>7. CASE Cancel(r)
  BY <1>7 DEF Cancel
<1>8. CASE PoolBreaks(r)
  BY <1>8 DEF PoolBreaks
<1>9. CASE Kill(r)
  BY <1>9 DEF Kill
<1>10. ASSUME NEW f \in Files, Format(r, f)
      PROVE  /\ pc'[r] = "idle" => Fresh(r)'
             /\ pc'[r] \in {"exited", "dead"} => toCache'[r] = {}
  BY <1>10 DEF Format
<1>11. ASSUME NEW f \in Files, Truncate(r, f)
      PROVE  /\ pc'[r] = "idle" => Fresh(r)'
             /\ pc'[r] \in {"exited", "dead"} => toCache'[r] = {}
  BY <1>11 DEF Truncate
<1>12. ASSUME NEW f \in Files, Flush(r, f)
      PROVE  /\ pc'[r] = "idle" => Fresh(r)'
             /\ pc'[r] \in {"exited", "dead"} => toCache'[r] = {}
  BY <1>12 DEF Flush
<1>13. ASSUME NEW f \in Files, WriteFails(r, f)
      PROVE  /\ pc'[r] = "idle" => Fresh(r)'
             /\ pc'[r] \in {"exited", "dead"} => toCache'[r] = {}
  BY <1>13 DEF WriteFails
<1> QED
  BY <1>1, <1>2, <1>3, <1>4, <1>5, <1>6, <1>7, <1>8, <1>9, <1>10, <1>11, <1>12, <1>13 DEF RunAct, Main, Fault, Worker

LEMMA TaskStep ==
  ASSUME Types, TaskInv, NEW r \in Runs, RunAct(r), NEW g \in Files
  PROVE  TaskOf(r, g)'
<1>a. TaskOf(r, g) /\ TaskTypes /\ ReportTypes /\ (pc[r] = "idle" => Fresh(r))
  BY DEF TaskInv, Types
<1> USE DEF TaskTypes, ReportTypes, TaskOf, WritesBack, Forgets, Settle
<1>1. CASE Start(r)
  BY <1>1, <1>a DEF Start
<1>2. CASE LoopTurn(r)
  BY <1>2, <1>a DEF LoopTurn, Done
<1>3. CASE CollectStamps(r)
  BY <1>3, <1>a DEF CollectStamps
<1>4. CASE ReplaceCache(r)
  BY <1>4, <1>a DEF ReplaceCache
<1>5. CASE Exit(r)
  BY <1>5, <1>a DEF Exit
<1>6. CASE ReplaceCacheFails(r)
  BY <1>6, <1>a DEF ReplaceCacheFails
<1>7. CASE Cancel(r)
  BY <1>7, <1>a DEF Cancel
<1>8. CASE PoolBreaks(r)
  BY <1>8, <1>a DEF PoolBreaks
<1>9. CASE Kill(r)
  BY <1>9, <1>a DEF Kill
<1>10. ASSUME NEW f \in Files, Format(r, f)
      PROVE  TaskOf(r, g)'
  <2>1. \/ WritesBack(r) /\ job' = [job EXCEPT ![r][f] = "changed"] /\ future' = future
        \/ \E result \in {"no", "error", "yes"} : Settle(r, f, result)
    BY <1>10 DEF Format
  <2>2. UNCHANGED runstate /\ job[r][f] = "queued"
    BY <1>10 DEF Format
  <2>3. CASE WritesBack(r) /\ job' = [job EXCEPT ![r][f] = "changed"] /\ future' = future
    BY <1>a, <2>2, <2>3
  <2>4. ASSUME NEW result \in {"no", "error", "yes"}, Settle(r, f, result)
        PROVE  TaskOf(r, g)'
    BY <1>a, <2>2, <2>4
  <2> QED
    BY <2>1, <2>3, <2>4
<1>11. ASSUME NEW f \in Files, Truncate(r, f)
      PROVE  TaskOf(r, g)'
  BY <1>11, <1>a DEF Truncate
<1>12. ASSUME NEW f \in Files, Flush(r, f)
      PROVE  TaskOf(r, g)'
  BY <1>12, <1>a DEF Flush
<1>13. ASSUME NEW f \in Files, WriteFails(r, f)
      PROVE  TaskOf(r, g)'
  BY <1>13, <1>a DEF WriteFails
<1> QED
  BY <1>1, <1>2, <1>3, <1>4, <1>5, <1>6, <1>7, <1>8, <1>9, <1>10, <1>11, <1>12, <1>13 DEF RunAct, Main, Fault, Worker

LEMMA TaskInvStep ==
  ASSUME Types, TaskInv, NEW r \in Runs, RunAct(r)
  PROVE  TaskInv'
<1>1. ASSUME NEW q \in Runs \ {r}, NEW f \in Files
      PROVE  TaskOf(q, f)'
  BY <1>1, OtherRuns DEF TaskInv, TaskOf, WritesBack
<1>2. ASSUME NEW q \in Runs \ {r}
      PROVE  /\ pc'[q] = "idle" => Fresh(q)'
             /\ pc'[q] \in {"exited", "dead"} => toCache'[q] = {}
  BY <1>2, OtherRuns DEF TaskInv, Fresh
<1> QED
  BY <1>1, <1>2, OwnStep, TaskStep DEF TaskInv

LEMMA TaskInvEdit ==
  ASSUME TaskInv, NEW f \in Files, Edit(f)
  PROVE  TaskInv'
  BY DEF TaskInv, TaskOf, Fresh, WritesBack, Edit

-----------------------------------------------------------------------------
(* Every source is counted. *)

LEMMA DisjointFiles ==
  ASSUME NEW A \in SUBSET Files, NEW B \in SUBSET Files, A \cap B = {}
  PROVE  /\ Cardinality(A \cup B) = Cardinality(A) + Cardinality(B)
         /\ Cardinality(A) \in Nat /\ Cardinality(B) \in Nat /\ Cardinality(A \cup B) \in Nat
<1>1. IsFiniteSet(A) /\ IsFiniteSet(B) /\ IsFiniteSet(A \cup B)
  BY FS_Subset
<1>2. /\ Cardinality(A) \in Nat /\ Cardinality(B) \in Nat /\ Cardinality(A \cup B) \in Nat
      /\ Cardinality(A \cap B) = 0
  BY <1>1, FS_CardinalityType, FS_EmptySet
<1>3. Cardinality(A \cup B) = Cardinality(A) + Cardinality(B) - Cardinality(A \cap B)
  BY <1>1, FS_Union
<1> QED
  BY <1>2, <1>3

LEMMA CountStart ==
  ASSUME Types, TaskInv, NEW r \in Runs, Start(r)
  PROVE  CountOf(r)'
<1>1. TaskTypes' /\ Fresh(r) /\ TaskTypes /\ ReportTypes
  BY TaskTypesStep DEF RunAct, Main, TaskInv, Start, Types
<1> DEFINE S == sources'[r]
           cached == Known(r, cachefile)
<1>2. S \in SUBSET Files /\ cached \in SUBSET S
  BY <1>1 DEF TaskTypes, Known
<1>3. /\ Tasks(r)' = S \ cached
      /\ cancelled'[r] = {}
  <2>1. future' = [future EXCEPT ![r] =
                     [f \in Files |-> IF f \in S \ cached THEN "pending" ELSE "none"]]
    BY DEF Start
  <2> HIDE DEF cached, S
  <2>2. \A f \in Files : future'[r][f] = IF f \in S \ cached THEN "pending" ELSE "none"
    BY <1>1, <2>1 DEF TaskTypes
  <2>3. cancelled' = cancelled
    BY DEF Start
  <2> QED
    BY <1>1, <1>2, <2>2, <2>3 DEF Tasks, Fresh
<1>4. Cardinality(S) = Cardinality(cached) + Cardinality(S \ cached) /\ Cardinality(cached) \in Nat
      /\ Cardinality(S \ cached) \in Nat
  <2>1. /\ cached \in SUBSET Files /\ S \ cached \in SUBSET Files
        /\ cached \cap (S \ cached) = {} /\ cached \cup (S \ cached) = S
    BY <1>2
  <2> HIDE DEF cached, S
  <2> QED
    BY <2>1, DisjointFiles
<1>5. report'[r] = [change |-> 0, same |-> Cardinality(cached), failure |-> 0]
  BY <1>1 DEF Start, ReportTypes
<1>6. Cardinality({}) = 0
  BY FS_EmptySet
<1> HIDE DEF cached, S
<1>7. Cardinality(Tasks(r)') = Cardinality(S \ cached) /\ Cardinality(cancelled'[r]) = 0
  BY <1>3, <1>6
<1> QED
  BY <1>2, <1>3, <1>4, <1>5, <1>7 DEF CountOf, S

LEMMA NineNumbers ==
  ASSUME NEW c \in Nat, NEW s \in Nat, NEW x \in Nat, NEW w \in Nat,
         NEW y \in Nat, NEW n \in Nat, NEW e \in Nat, NEW k \in Nat, NEW u \in Nat
  PROVE  c + s + x + w + (y + n + e + k + u) = (c + y) + (s + n) + (x + e) + (w + k) + u
  OBVIOUS

LEMMA CountTurn ==
  ASSUME Types, TaskInv, CountInv, NEW r \in Runs, LoopTurn(r)
  PROVE  CountOf(r)'
<1>1. TaskTypes /\ ReportTypes /\ CountOf(r)
  BY DEF CountInv, Types
<1> DEFINE D == Done(r)
           Y == {f \in D : future[r][f] = "yes"}
           N == {f \in D : future[r][f] = "no"}
           E == {f \in D : future[r][f] = "error"}
           C == {f \in D : future[r][f] = "cancelled"}
           T == Tasks(r) \ D
<1>2. D \in SUBSET Files /\ D \subseteq Tasks(r) /\ Tasks(r) \in SUBSET Files
  BY DEF Done, Tasks
<1>3. Tasks(r)' = T
  <2>1. future' = [future EXCEPT ![r] = [f \in Files |-> IF f \in D THEN "none" ELSE future[r][f]]]
    BY DEF LoopTurn
  <2> HIDE DEF D
  <2>2. \A f \in Files : future'[r][f] = IF f \in D THEN "none" ELSE future[r][f]
    BY <1>1, <2>1 DEF TaskTypes
  <2> QED
    BY <2>2 DEF Tasks
<1>4. cancelled'[r] = cancelled[r] \cup C /\ sources'[r] = sources[r]
  BY <1>1 DEF LoopTurn, ReportTypes
<1>5. Y \cup N \cup E \cup C = D
  BY DEF Done
<1>6. /\ Cardinality(Tasks(r)) = Cardinality(Y) + Cardinality(N) + Cardinality(E)
                                 + Cardinality(C) + Cardinality(T)
      /\ Cardinality(cancelled[r] \cup C) = Cardinality(cancelled[r]) + Cardinality(C)
      /\ Cardinality(Y) \in Nat /\ Cardinality(N) \in Nat /\ Cardinality(E) \in Nat
      /\ Cardinality(C) \in Nat /\ Cardinality(T) \in Nat /\ Cardinality(cancelled[r]) \in Nat
  <2>1. /\ Y \cap N = {} /\ (Y \cup N) \cap E = {} /\ (Y \cup N \cup E) \cap C = {}
    OBVIOUS
  <2>2. (Y \cup N \cup E \cup C) \cap T = {} /\ Y \cup N \cup E \cup C \cup T = Tasks(r)
    BY <1>2, <1>5
  <2>3. /\ cancelled[r] \in SUBSET Files /\ cancelled[r] \cap C = {}
    BY <1>1, <1>2 DEF CountOf, ReportTypes
  <2>4. /\ Y \in SUBSET Files /\ N \in SUBSET Files /\ E \in SUBSET Files /\ C \in SUBSET Files
        /\ T \in SUBSET Files
    BY <1>2
  <2> HIDE DEF D, Y, N, E, C, T
  <2>5. Cardinality(Y \cup N) = Cardinality(Y) + Cardinality(N)
    BY <2>1, <2>4, DisjointFiles
  <2>6. Cardinality(Y \cup N \cup E) = Cardinality(Y \cup N) + Cardinality(E)
    BY <2>1, <2>4, DisjointFiles
  <2>7. Cardinality(Y \cup N \cup E \cup C) = Cardinality(Y \cup N \cup E) + Cardinality(C)
    BY <2>1, <2>4, DisjointFiles
  <2>8. Cardinality(Tasks(r)) = Cardinality(Y \cup N \cup E \cup C) + Cardinality(T)
    BY <2>2, <2>4, DisjointFiles
  <2>9. /\ Cardinality(cancelled[r] \cup C) = Cardinality(cancelled[r]) + Cardinality(C)
        /\ Cardinality(cancelled[r]) \in Nat
    BY <2>3, <2>4, DisjointFiles
  <2>10. \A A \in SUBSET Files : Cardinality(A) \in Nat
    BY FS_Subset, FS_CardinalityType
  <2> QED
    BY <2>4, <2>5, <2>6, <2>7, <2>8, <2>9, <2>10
<1>7. report'[r] = [change |-> report[r].change + Cardinality(Y),
                    same |-> report[r].same + Cardinality(N),
                    failure |-> report[r].failure + Cardinality(E)]
  BY <1>1 DEF LoopTurn, Tally, ReportTypes
<1>8. cancelled'[r] \subseteq sources'[r] \ Tasks(r)'
  <2>1. Tasks(r) \subseteq sources[r]
    BY DEF TaskInv, TaskOf, Tasks
  <2> QED
    BY <1>1, <1>2, <1>3, <1>4, <2>1 DEF CountOf
<1>9. PICK c \in Nat, s \in Nat, x \in Nat :
        c = report[r].change /\ s = report[r].same /\ x = report[r].failure
  BY <1>1 DEF ReportTypes
<1> HIDE DEF D, Y, N, E, C, T
<1>10. /\ Cardinality(Tasks(r)') = Cardinality(T)
       /\ Cardinality(cancelled'[r]) = Cardinality(cancelled[r]) + Cardinality(C)
       /\ Cardinality(sources'[r]) = Cardinality(sources[r])
  BY <1>3, <1>4, <1>6
<1>11. c + s + x + Cardinality(cancelled[r]) + Cardinality(Tasks(r)) = Cardinality(sources[r])
  BY <1>1, <1>9 DEF CountOf
<1>12. /\ report'[r].change = c + Cardinality(Y) /\ report'[r].same = s + Cardinality(N)
       /\ report'[r].failure = x + Cardinality(E)
  BY <1>7, <1>9
<1>13. report'[r].change + report'[r].same + report'[r].failure
         + Cardinality(cancelled'[r]) + Cardinality(Tasks(r)') = Cardinality(sources'[r])
  <2>1. PICK y \in Nat, n \in Nat, e \in Nat, k \in Nat, u \in Nat, w \in Nat :
          /\ y = Cardinality(Y) /\ n = Cardinality(N) /\ e = Cardinality(E)
          /\ k = Cardinality(C) /\ u = Cardinality(T) /\ w = Cardinality(cancelled[r])
    BY <1>6
  <2>2. c + s + x + w + (y + n + e + k + u) = Cardinality(sources[r])
    BY <1>6, <1>11, <2>1
  <2>3. c + s + x + w + (y + n + e + k + u) = (c + y) + (s + n) + (x + e) + (w + k) + u
    BY NineNumbers
  <2>4. /\ report'[r].change = c + y /\ report'[r].same = s + n /\ report'[r].failure = x + e
        /\ Cardinality(cancelled'[r]) = w + k /\ Cardinality(Tasks(r)') = u
    BY <1>10, <1>12, <2>1
  <2> QED
    BY <1>10, <2>2, <2>3, <2>4
<1> QED
  BY <1>8, <1>13 DEF CountOf

\* The other steps settle tasks, none enters or leaves the dictionary.
LEMMA TasksKept ==
  ASSUME Types, NEW r \in Runs, RunAct(r), ~Start(r), ~LoopTurn(r)
  PROVE  /\ Tasks(r)' = Tasks(r) /\ sources'[r] = sources[r] /\ cancelled'[r] = cancelled[r]
         /\ report'[r] = report[r]
<1>1. ASSUME NEW f \in Files
      PROVE  future'[r][f] = "none" <=> future[r][f] = "none"
  <2>a. future \in [Runs -> [Files -> {"none", "pending"} \cup Settled]]
    BY DEF Types, TaskTypes
  <2> USE DEF Settle
  <2>1. CASE Start(r)
    BY <2>1
  <2>2. CASE LoopTurn(r)
    BY <2>2
  <2>3. CASE CollectStamps(r)
    BY <2>3, <2>a DEF CollectStamps
  <2>4. CASE ReplaceCache(r)
    BY <2>4, <2>a DEF ReplaceCache
  <2>5. CASE Exit(r)
    BY <2>5, <2>a DEF Exit
  <2>6. CASE ReplaceCacheFails(r)
    BY <2>6, <2>a DEF ReplaceCacheFails
  <2>7. CASE Cancel(r)
    BY <2>7, <2>a DEF Cancel
  <2>8. CASE PoolBreaks(r)
    BY <2>8, <2>a DEF PoolBreaks
  <2>9. CASE Kill(r)
    BY <2>9, <2>a DEF Kill
  <2>10. ASSUME NEW g \in Files, Format(r, g)
        PROVE  future'[r][f] = "none" <=> future[r][f] = "none"
    BY <2>10, <2>a DEF Format
  <2>11. ASSUME NEW g \in Files, Truncate(r, g)
        PROVE  future'[r][f] = "none" <=> future[r][f] = "none"
    BY <2>11, <2>a DEF Truncate
  <2>12. ASSUME NEW g \in Files, Flush(r, g)
        PROVE  future'[r][f] = "none" <=> future[r][f] = "none"
    BY <2>12, <2>a DEF Flush
  <2>13. ASSUME NEW g \in Files, WriteFails(r, g)
        PROVE  future'[r][f] = "none" <=> future[r][f] = "none"
    BY <2>13, <2>a DEF WriteFails
  <2> QED
    BY <2>1, <2>2, <2>3, <2>4, <2>5, <2>6, <2>7, <2>8, <2>9, <2>10, <2>11, <2>12, <2>13 DEF RunAct, Main, Fault, Worker
<1>2. UNCHANGED <<sources, cancelled, report>>
  BY DEF RunAct, Main, Fault, Worker, CollectStamps, ReplaceCache, Exit, ReplaceCacheFails,
     Cancel, PoolBreaks, Kill, Format, Truncate, Flush, WriteFails
<1> QED
  BY <1>1, <1>2 DEF Tasks

LEMMA CountStep ==
  ASSUME Types, TaskInv, CountInv, NEW r \in Runs, RunAct(r)
  PROVE  CountInv'
<1>1. ASSUME NEW q \in Runs \ {r}
      PROVE  CountOf(q)'
  <2>1. /\ Tasks(q)' = Tasks(q) /\ sources'[q] = sources[q] /\ cancelled'[q] = cancelled[q]
        /\ report'[q] = report[q]
    BY OtherRuns DEF Tasks
  <2> QED
    BY <2>1 DEF CountInv, CountOf
<1>2. CountOf(r)'
  <2>1. CASE ~Start(r) /\ ~LoopTurn(r)
    BY <2>1, TasksKept DEF CountInv, CountOf
  <2> QED
    BY <2>1, CountStart, CountTurn
<1> QED
  BY <1>1, <1>2 DEF CountInv

LEMMA CountEdit ==
  ASSUME CountInv, NEW f \in Files, Edit(f)
  PROVE  CountInv'
  BY DEF CountInv, CountOf, Tasks, Edit

-----------------------------------------------------------------------------
(* How far the stamps go. *)

LEMMA PcGoesOn ==
  ASSUME Types, NEW r \in Runs, RunAct(r)
  PROVE  pc'[r] = "idle" => pc[r] = "idle"
<1> USE DEF Types, TaskTypes
<1>1. CASE Start(r)
  BY <1>1 DEF Start
<1>2. CASE LoopTurn(r)
  BY <1>2 DEF LoopTurn
<1>3. CASE CollectStamps(r)
  BY <1>3 DEF CollectStamps
<1>4. CASE ReplaceCache(r)
  BY <1>4 DEF ReplaceCache
<1>5. CASE Exit(r)
  BY <1>5 DEF Exit
<1>6. CASE ReplaceCacheFails(r)
  BY <1>6 DEF ReplaceCacheFails
<1>7. CASE Cancel(r)
  BY <1>7 DEF Cancel
<1>8. CASE PoolBreaks(r)
  BY <1>8 DEF PoolBreaks
<1>9. CASE Kill(r)
  BY <1>9 DEF Kill
<1>10. ASSUME NEW f \in Files, Format(r, f)
      PROVE  pc'[r] = "idle" => pc[r] = "idle"
  BY <1>10 DEF Format
<1>11. ASSUME NEW f \in Files, Truncate(r, f)
      PROVE  pc'[r] = "idle" => pc[r] = "idle"
  BY <1>11 DEF Truncate
<1>12. ASSUME NEW f \in Files, Flush(r, f)
      PROVE  pc'[r] = "idle" => pc[r] = "idle"
  BY <1>12 DEF Flush
<1>13. ASSUME NEW f \in Files, WriteFails(r, f)
      PROVE  pc'[r] = "idle" => pc[r] = "idle"
  BY <1>13 DEF WriteFails
<1> QED
  BY <1>1, <1>2, <1>3, <1>4, <1>5, <1>6, <1>7, <1>8, <1>9, <1>10, <1>11, <1>12, <1>13 DEF RunAct, Main, Fault, Worker

LEMMA OwnWrites ==
  ASSUME Types, TaskInv, NEW r \in Runs, RunAct(r), NEW g \in Files
  PROVE  /\ r \in MayTruncate(g)' => r \in MayTruncate(g)
         /\ r \in MayFlush(g)' => r \in MayFlush(g)
<1>a. TaskTypes /\ TaskTypes' /\ (pc'[r] = "idle" => pc[r] = "idle")
  BY TaskTypesStep, PcGoesOn DEF Types
<1> USE DEF TaskTypes, MayTruncate, MayFlush, Settle
<1>1. CASE Start(r)
  BY <1>1, <1>a DEF Start
<1>2. CASE LoopTurn(r)
  BY <1>2, <1>a DEF LoopTurn
<1>3. CASE CollectStamps(r)
  BY <1>3, <1>a DEF CollectStamps
<1>4. CASE ReplaceCache(r)
  BY <1>4, <1>a DEF ReplaceCache
<1>5. CASE Exit(r)
  BY <1>5, <1>a DEF Exit
<1>6. CASE ReplaceCacheFails(r)
  BY <1>6, <1>a DEF ReplaceCacheFails
<1>7. CASE Cancel(r)
  BY <1>7, <1>a DEF Cancel
<1>8. CASE PoolBreaks(r)
  BY <1>8, <1>a DEF PoolBreaks
<1>9. CASE Kill(r)
  BY <1>9, <1>a DEF Kill
<1>10. ASSUME NEW f \in Files, Format(r, f)
      PROVE  /\ r \in MayTruncate(g)' => r \in MayTruncate(g)
             /\ r \in MayFlush(g)' => r \in MayFlush(g)
  BY <1>10, <1>a DEF Format
<1>11. ASSUME NEW f \in Files, Truncate(r, f)
      PROVE  /\ r \in MayTruncate(g)' => r \in MayTruncate(g)
             /\ r \in MayFlush(g)' => r \in MayFlush(g)
  BY <1>11, <1>a DEF Truncate
<1>12. ASSUME NEW f \in Files, Flush(r, f)
      PROVE  /\ r \in MayTruncate(g)' => r \in MayTruncate(g)
             /\ r \in MayFlush(g)' => r \in MayFlush(g)
  BY <1>12, <1>a DEF Flush
<1>13. ASSUME NEW f \in Files, WriteFails(r, f)
      PROVE  /\ r \in MayTruncate(g)' => r \in MayTruncate(g)
             /\ r \in MayFlush(g)' => r \in MayFlush(g)
  BY <1>13, <1>a DEF WriteFails
<1> QED
  BY <1>1, <1>2, <1>3, <1>4, <1>5, <1>6, <1>7, <1>8, <1>9, <1>10, <1>11, <1>12, <1>13 DEF RunAct, Main, Fault, Worker

LEMMA RunsAreFinite == IsFiniteSet(Runs) /\ Cardinality(Runs) = NRuns
<1>1. 1 \in Int /\ NRuns \in Int /\ (1 > NRuns => NRuns = 0) /\ NRuns - 1 + 1 = NRuns
  OBVIOUS
<1> QED
  BY <1>1, FS_Interval

LEMMA WritesLeft ==
  ASSUME Types, TaskInv, NEW r \in Runs, RunAct(r), NEW g \in Files
  PROVE  /\ MayTruncate(g)' \subseteq MayTruncate(g) /\ MayFlush(g)' \subseteq MayFlush(g)
         /\ IsFiniteSet(MayTruncate(g)) /\ IsFiniteSet(MayFlush(g))
<1>1. \A q \in Runs \ {r} : pc'[q] = pc[q] /\ job'[q] = job[q]
  BY OtherRuns
<1>2. MayTruncate(g)' \subseteq MayTruncate(g) /\ MayFlush(g)' \subseteq MayFlush(g)
  BY <1>1, OwnWrites DEF MayTruncate, MayFlush
<1>3. IsFiniteSet(Runs) /\ MayTruncate(g) \in SUBSET Runs /\ MayFlush(g) \in SUBSET Runs
  BY RunsAreFinite DEF MayTruncate, MayFlush
<1> QED
  BY <1>2, <1>3, FS_Subset

LEMMA FileKept ==
  ASSUME NEW r \in Runs, RunAct(r), ~\E f \in Files : Truncate(r, f) \/ Flush(r, f)
  PROVE  file' = file /\ edits' = edits
  BY DEF RunAct, Main, Fault, Worker, Start, LoopTurn, CollectStamps, ReplaceCache, Exit,
     ReplaceCacheFails, Cancel, PoolBreaks, Kill, Format, WriteFails, Breaks

\* StampInv of one file.
StampOf(g) ==
  file[g].stamp + Cardinality(MayTruncate(g)) + Cardinality(MayFlush(g)) <= edits + 2 * NRuns

LEMMA StampStep ==
  ASSUME Types, TaskInv, StampInv, NEW r \in Runs, RunAct(r), NEW g \in Files
  PROVE  StampOf(g)'
<1>1. /\ file[g].stamp \in Nat /\ edits \in Nat /\ 2 * NRuns \in Nat /\ StampOf(g)
      /\ file \in [Files -> [text : Texts \cup {"cut"}, stamp : Nat]]
  BY DEF Types, FileTypes, ReportTypes, StampInv, StampOf
<1> DEFINE A == MayTruncate(g)  B == MayFlush(g)
           A1 == MayTruncate(g)'  B1 == MayFlush(g)'
<1>2. /\ A1 \subseteq A /\ B1 \subseteq B /\ IsFiniteSet(A) /\ IsFiniteSet(B)
  BY WritesLeft
<1>3. /\ Cardinality(A) \in Nat /\ Cardinality(A1) \in Nat /\ Cardinality(A1) <= Cardinality(A)
      /\ Cardinality(B) \in Nat /\ Cardinality(B1) \in Nat /\ Cardinality(B1) <= Cardinality(B)
  BY <1>2, FS_Subset, FS_CardinalityType
<1>a. edits' = edits
  BY FileKept DEF Truncate, Flush
<1>4. CASE file'[g] = file[g]
  BY <1>1, <1>3, <1>4, <1>a DEF StampOf
<1>5. CASE Truncate(r, g)
  <2>1. file'[g].stamp = file[g].stamp + 1
    BY <1>1, <1>5 DEF Truncate, Wrote
  <2>2. r \in A /\ r \notin A1
    BY <1>5 DEF Truncate, MayTruncate, TaskInv, TaskOf, Fresh, Types, TaskTypes
  <2>3. Cardinality(A \ {r}) = Cardinality(A) - 1 /\ IsFiniteSet(A \ {r})
    BY <1>2, <2>2, FS_RemoveElement
  <2>4. A1 \in SUBSET (A \ {r})
    BY <1>2, <2>2
  <2> HIDE DEF A, A1, B, B1
  <2>5. Cardinality(A1) <= Cardinality(A) - 1
    BY <2>3, <2>4, FS_Subset
  <2> QED
    BY <1>1, <1>3, <1>a, <2>1, <2>5 DEF StampOf, A, A1, B, B1
<1>6. CASE Flush(r, g)
  <2>1. file'[g].stamp = file[g].stamp + 1
    BY <1>1, <1>6 DEF Flush, Wrote
  <2>2. r \in B /\ r \notin B1
    BY <1>6 DEF Flush, Settle, MayFlush, TaskInv, TaskOf, Fresh, Types, TaskTypes
  <2>3. Cardinality(B \ {r}) = Cardinality(B) - 1 /\ IsFiniteSet(B \ {r})
    BY <1>2, <2>2, FS_RemoveElement
  <2>4. B1 \in SUBSET (B \ {r})
    BY <1>2, <2>2
  <2> HIDE DEF A, A1, B, B1
  <2>5. Cardinality(B1) <= Cardinality(B) - 1
    BY <2>3, <2>4, FS_Subset
  <2> QED
    BY <1>1, <1>3, <1>a, <2>1, <2>5 DEF StampOf, A, A1, B, B1
<1>7. CASE file'[g] # file[g] /\ ~Truncate(r, g) /\ ~Flush(r, g)
  <2>1. ASSUME NEW f \in Files, f # g, Truncate(r, f) \/ Flush(r, f)
        PROVE  file'[g] = file[g]
    BY <1>1, <2>1 DEF Truncate, Flush, Wrote
  <2> QED
    BY <1>7, <2>1, FileKept
<1> QED
  BY <1>4, <1>5, <1>6, <1>7

LEMMA StampEdit ==
  ASSUME Types, StampInv, NEW f \in Files, Edit(f), NEW g \in Files
  PROVE  StampOf(g)'
<1>1. /\ file[g].stamp \in Nat /\ edits \in Nat /\ 2 * NRuns \in Nat /\ StampOf(g)
      /\ file \in [Files -> [text : Texts \cup {"cut"}, stamp : Nat]]
  BY DEF Types, FileTypes, ReportTypes, StampInv, StampOf
<1>2. IsFiniteSet(Runs) /\ MayTruncate(g) \in SUBSET Runs /\ MayFlush(g) \in SUBSET Runs
  BY RunsAreFinite DEF MayTruncate, MayFlush
<1>3. Cardinality(MayTruncate(g)) \in Nat /\ Cardinality(MayFlush(g)) \in Nat
  BY <1>2, FS_Subset, FS_CardinalityType
<1>4. MayTruncate(g)' = MayTruncate(g) /\ MayFlush(g)' = MayFlush(g)
  BY DEF MayTruncate, MayFlush, Edit
<1>5. file'[g].stamp \in {file[g].stamp, file[g].stamp + 1} /\ edits' = edits + 1
  BY <1>1 DEF Edit, Wrote
<1> QED
  BY <1>1, <1>3, <1>4, <1>5 DEF StampOf

-----------------------------------------------------------------------------
(* What the cache says. *)

LEMMA StampsStayBelowAbsent ==
  ASSUME Types, StampInv, NEW f \in Files
  PROVE  /\ file[f].stamp \in Nat /\ file[f].stamp <= MaxEdits + 2 * NRuns
         /\ file[f].stamp < Absent
<1>1. /\ file[f].stamp \in Nat /\ edits \in Nat /\ edits <= MaxEdits
  BY DEF Types, FileTypes, ReportTypes
<1>2. IsFiniteSet(Runs) /\ MayTruncate(f) \in SUBSET Runs /\ MayFlush(f) \in SUBSET Runs
  BY RunsAreFinite DEF MayTruncate, MayFlush
<1>3. Cardinality(MayTruncate(f)) \in Nat /\ Cardinality(MayFlush(f)) \in Nat
  BY <1>2, FS_Subset, FS_CardinalityType
<1>4. file[f].stamp + Cardinality(MayTruncate(f)) + Cardinality(MayFlush(f)) <= edits + 2 * NRuns
  BY DEF StampInv
<1> QED
  BY <1>1, <1>3, <1>4 DEF Absent

\* A file is as it was, or rewritten, by a run with formatted text.
LEMMA FileMoves ==
  ASSUME Types, NEW r \in Runs, RunAct(r), NEW f \in Files
  PROVE  file'[f] = file[f] \/ (file'[f].stamp = file[f].stamp + 1 /\ Formatted(f)')
<1>1. file \in [Files -> [text : Texts \cup {"cut"}, stamp : Nat]]
  BY DEF Types, FileTypes
<1>2. ASSUME NEW g \in Files, Truncate(r, g) \/ Flush(r, g)
      PROVE  file'[f] = file[f] \/ (file'[f].stamp = file[f].stamp + 1 /\ Formatted(f)')
  BY <1>1, <1>2 DEF Truncate, Flush, Wrote, Formatted
<1> QED
  BY <1>2, FileKept

LEMMA KnownStays ==
  ASSUME Types, NEW f \in Files, NEW s \in Nat, KnownOk(s, f),
         file'[f] = file[f] \/ file'[f].stamp = file[f].stamp + 1
  PROVE  KnownOk(s, f)'
<1>1. file[f].stamp \in Nat
  BY DEF Types, FileTypes
<1> QED
  BY <1>1, StampsAreNumbers DEF KnownOk, Formatted

\* What a run under way has found formatted, or written, is.
LEMMA FoundStep ==
  ASSUME Types, TaskInv, CacheInv, NEW r \in Runs, RunAct(r), NEW g \in Files,
         r \in Running', Found(r, g)'
  PROVE  Formatted(g)'
<1>a. /\ TaskTypes /\ ReportTypes /\ (pc[r] = "idle" => Fresh(r)) /\ TaskOf(r, g)
      /\ file \in [Files -> [text : Texts \cup {"cut"}, stamp : Nat]]
  BY DEF TaskInv, Types, FileTypes
<1>b. Formatted(g) => Formatted(g)'
  BY FileMoves DEF Formatted
<1>c. Start(r) \/ r \in Running
  BY <1>a DEF RunAct, Main, Fault, Worker, LoopTurn, CollectStamps, ReplaceCache, Exit,
     ReplaceCacheFails, Cancel, PoolBreaks, Kill, Format, Truncate, Flush, WriteFails, Running, TaskTypes
<1>d. r \in Running /\ Found(r, g) => Formatted(g)'
  BY <1>b DEF CacheInv
<1> SUFFICES ASSUME ~(r \in Running /\ Found(r, g)) PROVE Formatted(g)'
  BY <1>d
<1> USE DEF TaskTypes, ReportTypes, Found, WritesBack, Running, Settle, Forgets
<1>1. CASE Start(r)
  <2>1. toCache' = toCache /\ toCache[r] = {}
    BY <1>1, <1>a DEF Start, Fresh
  <2>2. future'[r][g] \in {"pending", "none"}
    <3>1. \E T : future' = [future EXCEPT ![r] = [f \in Files |-> IF f \in T THEN "pending" ELSE "none"]]
      BY <1>1 DEF Start
    <3> QED
      BY <1>a, <3>1
  <2> QED
    BY <2>1, <2>2
<1>2. CASE LoopTurn(r)
  <2>1. /\ toCache'[r] = toCache[r] \cup {f \in Done(r) : Cacheable(r, f)} /\ mode' = mode
        /\ r \in Running
    BY <1>2, <1>a DEF LoopTurn
  <2>2. future'[r][g] = IF g \in Done(r) THEN "none" ELSE future[r][g]
    BY <1>2, <1>a DEF LoopTurn
  <2> QED
    BY <2>1, <2>2 DEF Cacheable
<1>3. CASE CollectStamps(r)
  BY <1>3, <1>a, <1>c DEF CollectStamps
<1>4. CASE ReplaceCache(r)
  BY <1>4, <1>a, <1>c DEF ReplaceCache
<1>5. CASE Exit(r)
  BY <1>5, <1>a, <1>c DEF Exit
<1>6. CASE ReplaceCacheFails(r)
  BY <1>6, <1>a, <1>c DEF ReplaceCacheFails
<1>7. CASE Cancel(r)
  BY <1>7, <1>a, <1>c DEF Cancel
<1>8. CASE PoolBreaks(r)
  BY <1>8, <1>a, <1>c DEF PoolBreaks
<1>9. CASE Kill(r)
  BY <1>9, <1>a, <1>c DEF Kill
<1>10. ASSUME NEW f \in Files, Format(r, f)
      PROVE  Formatted(g)'
  <2>1. UNCHANGED <<file, runstate>> /\ r \in Running
    BY <1>10, <1>a, <1>c DEF Format, Start, Fresh
  <2>2. ~Found(r, g)
    BY <2>1
  <2>3. g = f /\ future'[r][g] # future[r][g]
    <3>1. \/ future' = future
          \/ \E result : future' = [future EXCEPT ![r][f] = IF @ = "pending" THEN result ELSE @]
      BY <1>10 DEF Format, Settle
    <3>2. g # f => future'[r][g] = future[r][g]
      BY <3>1, <1>a
    <3>3. future'[r][g] # future[r][g]
      BY <2>1, <2>2 DEF Found, WritesBack
    <3> QED
      BY <3>2, <3>3
  <2>4. \/ Formatted(f)
        \/ future'[r][f] \in {"error", future[r][f]}
        \/ future'[r][f] = "yes" /\ ~WritesBack(r)
    BY <1>10, <1>a DEF Format, Formatted
  <2> QED
    BY <2>1, <2>2, <2>3, <2>4 DEF Formatted
<1>11. ASSUME NEW f \in Files, Truncate(r, f)
      PROVE  Formatted(g)'
  BY <1>11, <1>a, <1>c DEF Truncate
<1>12. ASSUME NEW f \in Files, Flush(r, f)
      PROVE  Formatted(g)'
  <2>1. UNCHANGED runstate
    BY <1>12 DEF Flush
  <2>2. f = g
    BY <1>12, <1>a, <1>c, <2>1 DEF Flush, Start
  <2>3. file'[f].text = "good"
    BY <1>12, <1>a DEF Flush, Wrote
  <2> QED
    BY <2>2, <2>3 DEF Formatted
<1>13. ASSUME NEW f \in Files, WriteFails(r, f)
      PROVE  Formatted(g)'
  BY <1>13, <1>a, <1>c DEF WriteFails
<1> QED
  BY <1>1, <1>2, <1>3, <1>4, <1>5, <1>6, <1>7, <1>8, <1>9, <1>10, <1>11, <1>12, <1>13 DEF RunAct, Main, Fault, Worker

\* Where a stamp comes from that a run or the cache file knows.
LEMMA StampSources ==
  ASSUME Types, NEW r \in Runs, RunAct(r), NEW f \in Files
  PROVE  /\ cachefile'[f] \in {cachefile[f], cache[r][f]}
         /\ \/ cache'[r][f] \in {cache[r][f], cachefile[f], Absent}
            \/ f \in toCache[r] /\ r \in Running /\ file' = file /\ cache'[r][f] = file[f].stamp
<1>a. FileTypes /\ TaskTypes
  BY DEF Types
<1> USE DEF FileTypes, Forgets, Running
<1>1. CASE Start(r)
  BY <1>1, <1>a DEF Start
<1>2. CASE LoopTurn(r)
  BY <1>2, <1>a DEF LoopTurn
<1>3. CASE CollectStamps(r)
  BY <1>3, <1>a DEF CollectStamps
<1>4. CASE ReplaceCache(r)
  BY <1>4, <1>a DEF ReplaceCache
<1>5. CASE Exit(r)
  BY <1>5, <1>a DEF Exit
<1>6. CASE ReplaceCacheFails(r)
  BY <1>6, <1>a DEF ReplaceCacheFails
<1>7. CASE Cancel(r)
  BY <1>7, <1>a DEF Cancel
<1>8. CASE PoolBreaks(r)
  BY <1>8, <1>a DEF PoolBreaks
<1>9. CASE Kill(r)
  BY <1>9, <1>a DEF Kill
<1>10. ASSUME NEW g \in Files, Format(r, g)
      PROVE  /\ cachefile'[f] \in {cachefile[f], cache[r][f]}
             /\ \/ cache'[r][f] \in {cache[r][f], cachefile[f], Absent}
                \/ f \in toCache[r] /\ r \in Running /\ file' = file /\ cache'[r][f] = file[f].stamp
  BY <1>10, <1>a DEF Format
<1>11. ASSUME NEW g \in Files, Truncate(r, g)
      PROVE  /\ cachefile'[f] \in {cachefile[f], cache[r][f]}
             /\ \/ cache'[r][f] \in {cache[r][f], cachefile[f], Absent}
                \/ f \in toCache[r] /\ r \in Running /\ file' = file /\ cache'[r][f] = file[f].stamp
  BY <1>11, <1>a DEF Truncate
<1>12. ASSUME NEW g \in Files, Flush(r, g)
      PROVE  /\ cachefile'[f] \in {cachefile[f], cache[r][f]}
             /\ \/ cache'[r][f] \in {cache[r][f], cachefile[f], Absent}
                \/ f \in toCache[r] /\ r \in Running /\ file' = file /\ cache'[r][f] = file[f].stamp
  BY <1>12, <1>a DEF Flush
<1>13. ASSUME NEW g \in Files, WriteFails(r, g)
      PROVE  /\ cachefile'[f] \in {cachefile[f], cache[r][f]}
             /\ \/ cache'[r][f] \in {cache[r][f], cachefile[f], Absent}
                \/ f \in toCache[r] /\ r \in Running /\ file' = file /\ cache'[r][f] = file[f].stamp
  BY <1>13, <1>a DEF WriteFails
<1> QED
  BY <1>1, <1>2, <1>3, <1>4, <1>5, <1>6, <1>7, <1>8, <1>9, <1>10, <1>11, <1>12, <1>13 DEF RunAct, Main, Fault, Worker

LEMMA CacheStep ==
  ASSUME Types, TaskInv, StampInv, CacheInv, NEW r \in Runs, RunAct(r)
  PROVE  CacheInv'
<1>1. /\ FileTypes /\ FileTypes' /\ Absent \in Nat
      /\ \A q \in Runs \ {r} : cache'[q] = cache[q] /\ (q \in Running' <=> q \in Running)
  BY FileTypesStep, StampsAreNumbers, OtherRuns DEF Types, Running
<1>2. ASSUME NEW f \in Files, NEW s \in Nat, KnownOk(s, f)
      PROVE  KnownOk(s, f)'
  BY <1>2, KnownStays, FileMoves
<1>3. ASSUME NEW f \in Files, NEW s \in Nat,
             s \in {cachefile'[f], cache'[r][f]}
      PROVE  KnownOk(s, f)'
  <2>1. s \in {cachefile[f], cache[r][f]} => KnownOk(s, f)
    BY DEF CacheInv
  <2>2. s = Absent => KnownOk(s, f)'
    BY StampsAreNumbers DEF KnownOk, Absent
  <2>3. ASSUME f \in toCache[r], r \in Running, file' = file, s = file[f].stamp
        PROVE  KnownOk(s, f)'
    <3>1. Formatted(f)
      BY <2>3 DEF CacheInv, Found
    <3> QED
      BY <2>3, <3>1 DEF KnownOk, Formatted
  <2> QED
    BY <1>2, <1>3, <2>1, <2>2, <2>3, StampSources
<1>4. ASSUME NEW f \in Files, NEW q \in Runs
      PROVE  KnownOk(cache[q][f], f)'
  <2>1. PICK s \in Nat : s = cache'[q][f]
    BY <1>1 DEF FileTypes
  <2>2. q # r => KnownOk(s, f)
    BY <1>1, <2>1 DEF CacheInv
  <2>3. KnownOk(s, f)'
    BY <1>2, <1>3, <2>1, <2>2
  <2> QED
    BY <2>1, <2>3 DEF KnownOk, Formatted
<1>5. ASSUME NEW f \in Files
      PROVE  KnownOk(cachefile[f], f)'
  <2>1. PICK s \in Nat : s = cachefile'[f]
    BY <1>1 DEF FileTypes
  <2>2. KnownOk(s, f)'
    BY <1>3, <2>1
  <2> QED
    BY <2>1, <2>2 DEF KnownOk, Formatted
<1>6. ASSUME NEW f \in Files, NEW q \in Runs, q \in Running', Found(q, f)'
      PROVE  Formatted(f)'
  <2>1. CASE q = r
    BY <1>6, <2>1, FoundStep
  <2>2. CASE q # r
    <3>1. q \in Running /\ Found(q, f)
      BY <1>1, <1>6, <2>2, OtherRuns DEF Found, WritesBack
    <3>2. Formatted(f)
      BY <3>1 DEF CacheInv
    <3> QED
      BY <3>2, FileMoves DEF Formatted
  <2> QED
    BY <2>1, <2>2
<1> QED
  BY <1>4, <1>5, <1>6 DEF CacheInv

\* An editor saves while no run is under way.
LEMMA CacheEdit ==
  ASSUME Types, CacheInv, Editing # "any", NEW g \in Files, Edit(g)
  PROVE  CacheInv'
<1>1. /\ Running = {} /\ Running' = {} /\ cachefile' = cachefile /\ cache' = cache
      /\ file \in [Files -> [text : Texts \cup {"cut"}, stamp : Nat]] /\ FileTypes
  BY DEF Edit, Running, Types, FileTypes
<1>2. \A f \in Files : file'[f] = file[f] \/ file'[f].stamp = file[f].stamp + 1
  BY <1>1 DEF Edit, Wrote
<1>3. ASSUME NEW f \in Files, NEW s \in Nat, KnownOk(s, f)
      PROVE  KnownOk(s, f)'
  BY <1>2, <1>3, KnownStays
<1>4. ASSUME NEW f \in Files, NEW q \in Runs
      PROVE  KnownOk(cache[q][f], f)'
  <2>1. PICK s \in Nat : s = cache[q][f]
    BY <1>1 DEF FileTypes
  <2>2. KnownOk(s, f)'
    BY <1>3, <2>1 DEF CacheInv
  <2> QED
    BY <1>1, <2>1, <2>2 DEF KnownOk, Formatted
<1>5. ASSUME NEW f \in Files
      PROVE  KnownOk(cachefile[f], f)'
  <2>1. PICK s \in Nat : s = cachefile[f]
    BY <1>1 DEF FileTypes
  <2>2. KnownOk(s, f)'
    BY <1>3, <2>1 DEF CacheInv
  <2> QED
    BY <1>1, <2>1, <2>2 DEF KnownOk, Formatted
<1> QED
  BY <1>1, <1>4, <1>5 DEF CacheInv

LEMMA CachedFormatted ==
  ASSUME Types, StampInv, CacheInv
  PROVE  CachedIsFormatted
<1>1. SUFFICES ASSUME NEW f \in Files, cachefile[f] = file[f].stamp
               PROVE  file[f].text # "bad" /\ file[f].text # "broken"
  BY DEF CachedIsFormatted
<1>2. KnownOk(cachefile[f], f) /\ file[f].stamp \in Nat /\ file[f].stamp < Absent
  BY StampsStayBelowAbsent DEF CacheInv
<1> QED
  BY <1>1, <1>2, StampsAreNumbers DEF KnownOk, Formatted

-----------------------------------------------------------------------------
(* What a check that exits with 0 has seen, and who left a file cut. *)

\* The counters only go up, and by one at least for what a turn of the loop finds.
LEMMA ReportGrows ==
  ASSUME Types, NEW r \in Runs, LoopTurn(r), NEW g \in Files
  PROVE  /\ report[r].change > 0 \/ (g \in Done(r) /\ future[r][g] = "yes") => report'[r].change > 0
         /\ report[r].failure > 0 \/ (g \in Done(r) /\ future[r][g] = "error") => report'[r].failure > 0
<1>1. ReportTypes
  BY DEF Types
<1> DEFINE Of(result) == {f \in Done(r) : future[r][f] = result}
<1>2. \A result : /\ Cardinality(Of(result)) \in Nat
                  /\ g \in Of(result) => Cardinality(Of(result)) # 0
  <2>1. \A T \in SUBSET Files : Cardinality(T) \in Nat /\ (Cardinality(T) = 0 => T = {})
    BY FS_Subset, FS_CardinalityType, FS_EmptySet
  <2>2. \A result : Of(result) \in SUBSET Files
    BY DEF Done
  <2> QED
    BY <2>1, <2>2
<1>3. PICK c \in Nat, x \in Nat : c = report[r].change /\ x = report[r].failure
  BY <1>1 DEF ReportTypes
<1>4. PICK y \in Nat, e \in Nat : y = Cardinality(Of("yes")) /\ e = Cardinality(Of("error"))
  BY <1>2
<1>5. report'[r].change = c + y /\ report'[r].failure = x + e
  <2>1. report'[r] = Tally(r, Done(r))
    BY <1>1 DEF LoopTurn, ReportTypes
  <2>2. Tally(r, Done(r)) = [change |-> c + y, failure |-> x + e,
                             same |-> report[r].same + Cardinality(Of("no"))]
    BY <1>3, <1>4 DEF Tally
  <2> QED
    BY <2>1, <2>2
<1>6. /\ g \in Done(r) /\ future[r][g] = "yes" => y > 0
      /\ g \in Done(r) /\ future[r][g] = "error" => e > 0
  <2>1. ASSUME g \in Done(r), future[r][g] = "yes"
        PROVE  y # 0
    BY <2>1, <1>2, <1>4
  <2>2. ASSUME g \in Done(r), future[r][g] = "error"
        PROVE  e # 0
    BY <2>2, <1>2, <1>4
  <2>3. (y # 0 => y > 0) /\ (e # 0 => e > 0)
    OBVIOUS
  <2> QED
    BY <2>1, <2>2, <2>3
<1> HIDE DEF Of
<1> QED
  BY <1>3, <1>5, <1>6

LEMMA SeenStart ==
  ASSUME Types, TaskInv, StampInv, CacheInv, NEW r \in Runs, Start(r), Note, NEW g \in sources'[r],
         Checks(r)'
  PROVE  SeenOf(r, g)'
<1>1. /\ TaskTypes /\ TaskTypes' /\ ReportTypes /\ FileTypes /\ g \in Files
      /\ pc'[r] \in {"loop", "shutdown"}
  BY TaskTypesStep DEF Types, RunAct, Main, TaskTypes, Start
<1>2. CASE g \in Known(r, cachefile)
  <2>1. cachefile[g] = file[g].stamp
    BY <1>2 DEF Known, Unmodified
  <2>2. KnownOk(cachefile[g], g) /\ file[g].stamp < Absent /\ file[g].stamp \in Nat
    BY <1>1, StampsStayBelowAbsent DEF CacheInv
  <2>3. file[g].text \in {"good", "cut"}
    BY <2>1, <2>2, StampsAreNumbers DEF KnownOk, Formatted
  <2>4. g \in seenGood'[r]
    BY <1>1, <2>3 DEF Note
  <2> QED
    BY <2>4 DEF SeenOf
<1>3. CASE g \notin Known(r, cachefile)
  <2>1. PICK T : /\ T = sources'[r] \ Known(r, cachefile)
                 /\ future' = [future EXCEPT ![r] = [f \in Files |-> IF f \in T THEN "pending" ELSE "none"]]
    BY DEF Start
  <2>2. future'[r][g] = "pending"
    BY <1>1, <1>3, <2>1 DEF TaskTypes
  <2> QED
    BY <2>2 DEF SeenOf
<1> QED
  BY <1>2, <1>3

LEMMA SeenTurn ==
  ASSUME Types, TaskInv, NEW r \in Runs, LoopTurn(r), NEW g \in sources[r], SeenOf(r, g),
         g \in seenGood[r] => g \in seenGood'[r]
  PROVE  SeenOf(r, g)'
<1>1. TaskTypes /\ ReportTypes /\ g \in Files /\ interrupted' = interrupted
  BY DEF Types, TaskTypes, LoopTurn
<1>2. future'[r][g] = IF g \in Done(r) THEN "none" ELSE future[r][g]
  BY <1>1 DEF LoopTurn, TaskTypes
<1>3. future[r][g] \notin Settled => g \notin Done(r)
  BY DEF Done
<1>4. /\ report[r].change > 0 \/ (g \in Done(r) /\ future[r][g] = "yes") => report'[r].change > 0
      /\ report[r].failure > 0 \/ (g \in Done(r) /\ future[r][g] = "error") => report'[r].failure > 0
  BY <1>1, ReportGrows
<1> QED
  BY <1>1, <1>2, <1>3, <1>4 DEF SeenOf

LEMMA SeenOther ==
  ASSUME Types, TaskInv, NEW r \in Runs, RunAct(r), ~Start(r), ~LoopTurn(r), NEW g \in sources[r],
         SeenOf(r, g), g \in seenGood[r] \/ Formatted(g) => g \in seenGood'[r]
  PROVE  SeenOf(r, g)'
<1>a. TaskTypes /\ ReportTypes /\ g \in Files
  BY DEF Types, TaskTypes
<1> USE DEF TaskTypes, ReportTypes, SeenOf, Settle, Formatted
<1>1. CASE Start(r)
  BY <1>1
<1>2. CASE LoopTurn(r)
  BY <1>2
<1>3. CASE CollectStamps(r)
  BY <1>3, <1>a DEF CollectStamps
<1>4. CASE ReplaceCache(r)
  BY <1>4, <1>a DEF ReplaceCache
<1>5. CASE Exit(r)
  BY <1>5, <1>a DEF Exit
<1>6. CASE ReplaceCacheFails(r)
  BY <1>6, <1>a DEF ReplaceCacheFails
<1>7. CASE Cancel(r)
  BY <1>7, <1>a DEF Cancel
<1>8. CASE PoolBreaks(r)
  BY <1>8, <1>a DEF PoolBreaks
<1>9. CASE Kill(r)
  BY <1>9, <1>a DEF Kill
<1>10. ASSUME NEW f \in Files, Format(r, f)
      PROVE  SeenOf(r, g)'
  <2>1. \/ job' = [job EXCEPT ![r][f] = "changed"] /\ future' = future
        \/ \E result \in {"no", "error", "yes"} : Settle(r, f, result) /\ (result = "no" => Formatted(f))
    BY <1>10 DEF Format
  <2>2. UNCHANGED <<file, runstate>> /\ job[r][f] = "queued"
    BY <1>10 DEF Format
  <2>3. CASE job' = [job EXCEPT ![r][f] = "changed"] /\ future' = future
    BY <1>a, <2>2, <2>3
  <2>4. ASSUME NEW result \in {"no", "error", "yes"}, Settle(r, f, result), (result = "no" => Formatted(f))
        PROVE  SeenOf(r, g)'
    BY <1>a, <2>2, <2>4
  <2> QED
    BY <2>1, <2>3, <2>4
<1>11. ASSUME NEW f \in Files, Truncate(r, f)
      PROVE  SeenOf(r, g)'
  BY <1>11, <1>a DEF Truncate
<1>12. ASSUME NEW f \in Files, Flush(r, f)
      PROVE  SeenOf(r, g)'
  BY <1>12, <1>a DEF Flush
<1>13. ASSUME NEW f \in Files, WriteFails(r, f)
      PROVE  SeenOf(r, g)'
  BY <1>13, <1>a DEF WriteFails
<1> QED
  BY <1>1, <1>2, <1>3, <1>4, <1>5, <1>6, <1>7, <1>8, <1>9, <1>10, <1>11, <1>12, <1>13 DEF RunAct, Main, Fault, Worker

LEMMA SeenStep ==
  ASSUME Types, TaskInv, StampInv, CacheInv, SeenInv, NEW r \in Runs, RunAct(r), Note
  PROVE  SeenInv'
<1>1. ASSUME NEW q \in Runs, pc'[q] \notin {"idle", "dead"}, Checks(q)', NEW g \in Files
      PROVE  g \in seenGood[q] \/ (g \in sources'[q] /\ Formatted(g)) => g \in seenGood'[q]
  BY <1>1 DEF Note, Formatted
<1>2. ASSUME NEW q \in Runs, pc'[q] \notin {"idle", "dead"}, Checks(q)', NEW g \in sources'[q]
      PROVE  SeenOf(q, g)'
  <2>1. g \in Files
    BY <1>2, TaskTypesStep DEF TaskTypes
  <2>2. CASE q # r
    <3>1. SeenOf(q, g)
      BY <1>2, <2>2, OtherRuns DEF SeenInv, Checks
    <3> QED
      BY <1>1, <1>2, <2>1, <2>2, <3>1, OtherRuns DEF SeenOf
  <2>3. CASE q = r /\ Start(r)
    BY <1>2, <2>3, SeenStart
  <2>4. CASE q = r /\ ~Start(r)
    <3>1. pc[r] \notin {"idle", "dead"} \/ pc'[r] = pc[r]
      BY <2>4 DEF RunAct, Main, Fault, Worker, LoopTurn, CollectStamps, ReplaceCache, Exit,
         ReplaceCacheFails, Cancel, PoolBreaks, Kill, Running, Format, Truncate, Flush, WriteFails
    <3>2. mode' = mode /\ sources' = sources
      BY <2>4 DEF RunAct, Main, Fault, Worker, LoopTurn, CollectStamps, ReplaceCache, Exit,
         ReplaceCacheFails, Cancel, PoolBreaks, Kill, Format, Truncate, Flush, WriteFails
    <3>3. SeenOf(r, g)
      BY <1>2, <2>4, <3>1, <3>2 DEF SeenInv, Checks
    <3> QED
      BY <1>1, <1>2, <2>1, <2>4, <3>2, <3>3, SeenTurn, SeenOther
  <2> QED
    BY <2>2, <2>3, <2>4
<1> QED
  BY <1>2 DEF SeenInv

LEMMA SeenEdit ==
  ASSUME Types, SeenInv, NEW g \in Files, Edit(g), Note
  PROVE  SeenInv'
<1>1. UNCHANGED <<pc, mode, sources, future, report, interrupted>>
  BY DEF Edit
<1>2. \A q \in Runs : pc[q] \notin {"idle", "dead"} /\ Checks(q) => seenGood[q] \subseteq seenGood'[q]
  BY <1>1 DEF Note, Checks
<1> QED
  BY <1>1, <1>2 DEF SeenInv, SeenOf, Checks

LEMMA SeenIsTrue ==
  ASSUME Types, TaskInv, SeenInv
  PROVE  CheckTellsTruth
<1>1. SUFFICES ASSUME NEW r \in Runs, pc[r] = "exited", ~interrupted[r], Checks(r), ReturnCode(r) = 0,
                      NEW f \in sources[r]
               PROVE  f \in seenGood[r]
  BY DEF CheckTellsTruth, PassesOnlyFormatted
<1>2. f \in Files /\ future[r][f] = "none"
  BY <1>1 DEF Types, TaskTypes, TaskInv, TaskOf
<1>3. ~(report[r].failure > 0) /\ ~(report[r].change > 0)
  BY <1>1 DEF ReturnCode
<1>4. SeenOf(r, f)
  BY <1>1 DEF SeenInv
<1> QED
  BY <1>1, <1>2, <1>3, <1>4 DEF SeenOf

\* That run r answers for a file that is cut.
Answers(r, g) ==
  /\ WritesBack(r) /\ g \in sources[r]
  /\ \/ job[r][g] = "writing" \/ future[r][g] = "error"
     \/ report[r].failure > 0 \/ interrupted[r] \/ pc[r] = "dead"

LEMMA AnswersStays ==
  ASSUME Types, TaskInv, NEW r \in Runs, RunAct(r), NEW g \in Files, Answers(r, g), file'[g].text = "cut"
  PROVE  Answers(r, g)'
<1>a. /\ TaskTypes /\ ReportTypes /\ TaskOf(r, g) /\ (pc[r] = "idle" => Fresh(r))
      /\ file \in [Files -> [text : Texts \cup {"cut"}, stamp : Nat]]
  BY DEF Types, TaskInv, FileTypes
<1> USE DEF TaskTypes, ReportTypes, TaskOf, Answers, WritesBack, Settle
<1>1. CASE Start(r)
  BY <1>1, <1>a DEF Start, Fresh
<1>2. CASE LoopTurn(r)
  <2>1. future'[r][g] = future[r][g] \/ (g \in Done(r) /\ future'[r][g] = "none")
    BY <1>2, <1>a DEF LoopTurn
  <2>2. report[r].failure > 0 \/ (g \in Done(r) /\ future[r][g] = "error") => report'[r].failure > 0
    BY <1>2, ReportGrows
  <2>3. UNCHANGED <<pc, mode, sources, interrupted, job>>
    BY <1>2 DEF LoopTurn
  <2> QED
    BY <2>1, <2>2, <2>3
<1>3. CASE CollectStamps(r)
  BY <1>3, <1>a DEF CollectStamps
<1>4. CASE ReplaceCache(r)
  BY <1>4, <1>a DEF ReplaceCache
<1>5. CASE Exit(r)
  BY <1>5, <1>a DEF Exit
<1>6. CASE ReplaceCacheFails(r)
  BY <1>6, <1>a DEF ReplaceCacheFails
<1>7. CASE Cancel(r)
  BY <1>7, <1>a DEF Cancel
<1>8. CASE PoolBreaks(r)
  BY <1>8, <1>a DEF PoolBreaks
<1>9. CASE Kill(r)
  BY <1>9, <1>a DEF Kill
<1>10. ASSUME NEW f \in Files, Format(r, f)
      PROVE  Answers(r, g)'
  <2>1. \/ job' = [job EXCEPT ![r][f] = "changed"] /\ future' = future
        \/ \E result \in {"no", "error", "yes"} : Settle(r, f, result)
    BY <1>10 DEF Format
  <2>2. UNCHANGED <<file, runstate>> /\ job[r][f] = "queued"
    BY <1>10 DEF Format
  <2>3. CASE job' = [job EXCEPT ![r][f] = "changed"] /\ future' = future
    BY <1>a, <2>2, <2>3
  <2>4. ASSUME NEW result \in {"no", "error", "yes"}, Settle(r, f, result)
        PROVE  Answers(r, g)'
    BY <1>a, <2>2, <2>4
  <2> QED
    BY <2>1, <2>3, <2>4
<1>11. ASSUME NEW f \in Files, Truncate(r, f)
      PROVE  Answers(r, g)'
  BY <1>11, <1>a DEF Truncate
<1>12. ASSUME NEW f \in Files, Flush(r, f)
      PROVE  Answers(r, g)'
  BY <1>12, <1>a DEF Flush, Wrote
<1>13. ASSUME NEW f \in Files, WriteFails(r, f)
      PROVE  Answers(r, g)'
  BY <1>13, <1>a DEF WriteFails
<1> QED
  BY <1>1, <1>2, <1>3, <1>4, <1>5, <1>6, <1>7, <1>8, <1>9, <1>10, <1>11, <1>12, <1>13 DEF RunAct, Main, Fault, Worker

LEMMA CutStep ==
  ASSUME Types, TaskInv, CutIsReported, NEW r \in Runs, RunAct(r)
  PROVE  CutIsReported'
<1>1. SUFFICES ASSUME NEW g \in Files, file'[g].text = "cut"
               PROVE  \E q \in Runs : Answers(q, g)'
  BY DEF CutIsReported, Answers, WritesBack
<1>2. CASE file[g].text = "cut"
  <2>1. PICK q \in Runs : Answers(q, g)
    BY <1>2 DEF CutIsReported, Answers
  <2>2. CASE q = r
    BY <1>1, <2>1, <2>2, AnswersStays
  <2>3. CASE q # r
    BY <2>1, <2>3, OtherRuns DEF Answers, WritesBack
  <2> QED
    BY <2>2, <2>3
<1>3. CASE file[g].text # "cut"
  <2>1. file \in [Files -> [text : Texts \cup {"cut"}, stamp : Nat]] /\ TaskTypes /\ TaskInv
    BY DEF Types, FileTypes
  <2>2. PICK f \in Files : Truncate(r, f) \/ Flush(r, f)
    BY <1>1, <1>3, FileKept
  <2>3. Truncate(r, f) /\ f = g
    <3>1. PICK text \in {"cut", "good"} :
            /\ file' = [file EXCEPT ![f] = [text |-> text, stamp |-> @.stamp + 1]]
            /\ text = "cut" => Truncate(r, f)
      BY <2>2 DEF Truncate, Flush, Wrote
    <3>2. f # g => file'[g] = file[g]
      BY <3>1, <2>1
    <3>3. f = g => text = "cut"
      BY <3>1, <2>1, <1>1
    <3> QED
      BY <3>1, <3>2, <3>3, <1>1, <1>3
  <2>4. Answers(r, g)'
    BY <2>1, <2>3 DEF Truncate, Answers, TaskInv, TaskOf, TaskTypes, WritesBack
  <2> QED
    BY <2>4
<1> QED
  BY <1>2, <1>3

LEMMA CutEdit ==
  ASSUME Types, CutIsReported, NEW f \in Files, Edit(f)
  PROVE  CutIsReported'
<1>1. SUFFICES ASSUME NEW g \in Files, file'[g].text = "cut"
               PROVE  \E q \in Runs : Answers(q, g)'
  BY DEF CutIsReported, Answers, WritesBack
<1>2. file[g].text = "cut"
  BY <1>1 DEF Edit, Wrote, Types, FileTypes
<1>3. PICK q \in Runs : Answers(q, g)
  BY <1>2 DEF CutIsReported, Answers
<1> QED
  BY <1>3 DEF Answers, WritesBack, Edit

-----------------------------------------------------------------------------
(* The stamps somebody knows are of the past. *)

LEMMA PastStays ==
  ASSUME Types, NEW f \in Files, NEW s \in Nat, Past(s, f),
         file'[f] = file[f] \/ file'[f].stamp = file[f].stamp + 1
  PROVE  Past(s, f)'
<1>1. PICK n \in Nat : n = file[f].stamp
  BY DEF Types, FileTypes
<1>2. file'[f].stamp \in {n, n + 1} /\ (s = Absent \/ s <= n)
  BY <1>1 DEF Past
<1>3. s <= n => s <= n + 1
  OBVIOUS
<1> QED
  BY <1>2, <1>3 DEF Past

LEMMA PastStep ==
  ASSUME Types, PastInv, NEW r \in Runs, RunAct(r)
  PROVE  PastInv'
<1>1. FileTypes /\ Absent \in Nat /\ \A q \in Runs \ {r} : cache'[q] = cache[q]
  BY StampsAreNumbers, OtherRuns DEF Types
<1>2. ASSUME NEW f \in Files, NEW s \in Nat, Past(s, f)
      PROVE  Past(s, f)'
  BY <1>2, FileMoves, PastStays
<1>3. ASSUME NEW f \in Files
      PROVE  Past(cachefile[f], f)'
  <2>1. PICK s \in {cachefile[f], cache[r][f]} : s = cachefile'[f]
    BY StampSources
  <2>2. s \in Nat /\ Past(s, f)
    BY <1>1, <2>1 DEF FileTypes, PastInv
  <2>3. Past(s, f)'
    BY <1>2, <2>2
  <2> QED
    BY <2>1, <2>3 DEF Past
<1>4. ASSUME NEW f \in Files, NEW q \in Runs
      PROVE  Past(cache[q][f], f)'
  <2>1. CASE q = r /\ file' = file /\ cache'[r][f] = file[f].stamp
    <3>1. file[f].stamp \in Nat
      BY <1>1 DEF FileTypes
    <3>2. cache'[q][f] = file'[f].stamp /\ file[f].stamp <= file'[f].stamp
      BY <2>1, <3>1
    <3> QED
      BY <2>1, <3>2 DEF Past
  <2>2. CASE cache'[q][f] \in {cache[q][f], cachefile[f], Absent}
    <3>1. PICK s \in {cache[q][f], cachefile[f], Absent} : s = cache'[q][f]
      BY <2>2
    <3>2. s \in Nat /\ Past(s, f)
      BY <1>1, <3>1 DEF FileTypes, PastInv, Past
    <3>3. Past(s, f)'
      BY <1>2, <3>2
    <3> QED
      BY <3>1, <3>3 DEF Past
  <2> QED
    BY <1>1, <2>1, <2>2, StampSources
<1> QED
  BY <1>3, <1>4 DEF PastInv

LEMMA PastEdit ==
  ASSUME Types, PastInv, NEW g \in Files, Edit(g)
  PROVE  PastInv'
<1>1. /\ cachefile' = cachefile /\ cache' = cache /\ FileTypes
      /\ file \in [Files -> [text : Texts \cup {"cut"}, stamp : Nat]]
  BY DEF Edit, Types, FileTypes
<1>2. \A f \in Files : file'[f] = file[f] \/ file'[f].stamp = file[f].stamp + 1
  BY <1>1 DEF Edit, Wrote
<1>3. ASSUME NEW f \in Files, NEW s \in Nat, Past(s, f)
      PROVE  Past(s, f)'
  BY <1>2, <1>3, PastStays
<1>4. ASSUME NEW f \in Files, NEW q \in Runs
      PROVE  Past(cache[q][f], f)'
  <2>1. PICK s \in Nat : s = cache[q][f]
    BY <1>1 DEF FileTypes
  <2>2. Past(s, f)'
    BY <1>3, <2>1 DEF PastInv
  <2> QED
    BY <1>1, <2>1, <2>2 DEF Past
<1>5. ASSUME NEW f \in Files
      PROVE  Past(cachefile[f], f)'
  <2>1. PICK s \in Nat : s = cachefile[f]
    BY <1>1 DEF FileTypes
  <2>2. Past(s, f)'
    BY <1>3, <2>1 DEF PastInv
  <2> QED
    BY <1>1, <2>1, <2>2 DEF Past
<1> QED
  BY <1>4, <1>5 DEF PastInv

-----------------------------------------------------------------------------
(* The theorems. *)

IInv == Types /\ TaskInv /\ CountInv /\ StampInv /\ PastInv /\ CutIsReported
CacheIInv == CacheInv /\ SeenInv

LEMMA InitTypes ==
  ASSUME Init
  PROVE  Types /\ TaskInv /\ PastInv /\ CutIsReported
<1>1. FileTypes
  <2>1. Absent \in Nat /\ file \in [Files -> [text : Texts, stamp : {0}]]
        /\ cachefile \in [Files -> {0, Absent}]
        /\ cache = [r \in Runs |-> [f \in Files |-> Absent]]
    BY StampsAreNumbers DEF Init
  <2>2. file \in [Files -> [text : Texts \cup {"cut"}, stamp : Nat]]
    BY <2>1
  <2> QED
    BY <2>1, <2>2 DEF FileTypes
<1>2. TaskTypes
  <2>1. ASSUME NEW r \in Runs
        PROVE  (CHOOSE m \in Modes[r] : TRUE) \in Modes[r] /\ Modes[r] \subseteq AllModes
    <3>a. Modes[r] \in (SUBSET AllModes) \ {{}}
      BY ModeAssumption
    <3>1. Modes[r] # {} /\ Modes[r] \subseteq AllModes
      BY <3>a, Zenon
    <3>2. PICK m : m \in Modes[r]
      BY <3>1
    <3> QED
      BY <3>1, <3>2
  <2> QED
    BY <2>1 DEF Init, TaskTypes
<1>3. ReportTypes
  BY DEF Init, ReportTypes, NoReport
<1>4. TaskInv
  BY DEF Init, TaskInv, TaskOf, Fresh
<1>5. PastInv
  BY DEF Init, PastInv, Past
<1>6. CutIsReported
  BY DEF Init, CutIsReported
<1> QED
  BY <1>1, <1>2, <1>3, <1>4, <1>5, <1>6 DEF Types

LEMMA InitCounts ==
  ASSUME Init
  PROVE  CountInv /\ StampInv
<1>1. CountInv
  <2>1. SUFFICES ASSUME NEW r \in Runs
                 PROVE  CountOf(r)
    BY DEF CountInv
  <2>2. sources[r] = {} /\ cancelled[r] = {} /\ Tasks(r) = {} /\ report[r] = NoReport
    BY DEF Init, Tasks
  <2>3. Cardinality({}) = 0
    BY FS_EmptySet
  <2> QED
    BY <2>2, <2>3 DEF CountOf, NoReport
<1>2. StampInv
  <2>1. SUFFICES ASSUME NEW f \in Files
                 PROVE  StampOf(f)
    BY DEF StampInv, StampOf
  <2>2. MayTruncate(f) = Runs /\ MayFlush(f) = Runs
    BY DEF Init, MayTruncate, MayFlush
  <2>3. file[f].stamp = 0 /\ edits = 0
    BY DEF Init
  <2> HIDE DEF Runs
  <2> QED
    BY <2>2, <2>3, RunsAreFinite DEF StampOf
<1> QED
  BY <1>1, <1>2

LEMMA InitCache ==
  ASSUME Init
  PROVE  CacheIInv
<1>1. CacheInv
  BY DEF Init, CacheInv, KnownOk, Formatted, Running
<1> QED
  BY <1>1 DEF Init, CacheIInv, SeenInv

LEMMA RunOrEdit ==
  ASSUME Next
  PROVE  Note /\ ((\E r \in Runs : RunAct(r)) \/ (\E f \in Files : Edit(f)))
  BY DEF Next, Step, RunAct

LEMMA NextKeeps ==
  ASSUME IInv, [Next]_vars
  PROVE  IInv'
<1>1. CASE UNCHANGED vars
  <2>1. /\ UNCHANGED <<file, cachefile, pc, mode, sources, cache, job, future>>
        /\ UNCHANGED <<toCache, report, cancelled, interrupted, edits, faults, seenGood>>
    BY <1>1 DEF vars
  <2>2. Types'
    BY <2>1 DEF IInv, Types, FileTypes, TaskTypes, ReportTypes
  <2>3. TaskInv'
    BY <2>1 DEF IInv, TaskInv, TaskOf, Fresh, WritesBack
  <2>4. CountInv'
    BY <2>1 DEF IInv, CountInv, CountOf, Tasks
  <2>5. StampInv'
    BY <2>1 DEF IInv, StampInv, MayTruncate, MayFlush
  <2>6. PastInv'
    BY <2>1 DEF IInv, PastInv, Past
  <2>7. CutIsReported'
    BY <2>1 DEF IInv, CutIsReported, WritesBack
  <2> QED
    BY <2>2, <2>3, <2>4, <2>5, <2>6, <2>7 DEF IInv
<1>2. ASSUME NEW r \in Runs, RunAct(r), Note
      PROVE  IInv'
  <2>1. StampInv'
    BY <1>2, StampStep DEF IInv, StampInv, StampOf
  <2> QED
    BY <1>2, <2>1, TypesStep, TaskInvStep, CountStep, PastStep, CutStep DEF IInv
<1>3. ASSUME NEW f \in Files, Edit(f), Note
      PROVE  IInv'
  <2>1. StampInv'
    BY <1>3, StampEdit DEF IInv, StampInv, StampOf
  <2> QED
    BY <1>3, <2>1, TypesEdit, TaskInvEdit, CountEdit, PastEdit, CutEdit DEF IInv
<1> QED
  BY <1>1, <1>2, <1>3, RunOrEdit

LEMMA NextKeepsCache ==
  ASSUME Editing # "any", IInv, CacheIInv, [Next]_vars
  PROVE  CacheIInv'
<1>1. CASE UNCHANGED vars
  BY <1>1 DEF vars, CacheIInv, CacheInv, SeenInv, KnownOk, Formatted, Found, Running, WritesBack,
     SeenOf, Checks
<1>2. ASSUME NEW r \in Runs, RunAct(r), Note
      PROVE  CacheIInv'
  BY <1>2, CacheStep, SeenStep DEF IInv, CacheIInv
<1>3. ASSUME NEW f \in Files, Edit(f), Note
      PROVE  CacheIInv'
  BY <1>3, CacheEdit, SeenEdit DEF IInv, CacheIInv
<1> QED
  BY <1>1, <1>2, <1>3, RunOrEdit

LEMMA TypesAreBounded ==
  ASSUME IInv
  PROVE  TypeOK
<1> USE DEF IInv, Types
<1>1. /\ file \in [Files -> [text : Texts \cup {"cut"}, stamp : Nat]]
      /\ cachefile \in [Files -> Nat] /\ cache \in [Runs -> [Files -> Nat]]
  BY DEF FileTypes
<1>2. ASSUME NEW s \in Nat, s <= MaxEdits + 2 * NRuns
      PROVE  s \in Stamps
  BY <1>2 DEF Stamps
<1>3. ASSUME NEW f \in Files
      PROVE  file[f].stamp \in Stamps
  BY <1>2, StampsStayBelowAbsent
<1>4. ASSUME NEW f \in Files, NEW s \in Nat, Past(s, f)
      PROVE  s \in Stamps \cup {Absent}
  <2>1. CASE s <= file[f].stamp
    <3>1. file[f].stamp \in Nat /\ file[f].stamp <= MaxEdits + 2 * NRuns
      BY StampsStayBelowAbsent
    <3>2. s <= MaxEdits + 2 * NRuns
      BY <2>1, <3>1
    <3> QED
      BY <1>2, <3>2
  <2> QED
    BY <1>4, <2>1 DEF Past
<1>5. file \in [Files -> [text : Texts \cup {"cut"}, stamp : Stamps]]
  BY <1>1, <1>3
<1>6. /\ cachefile \in [Files -> Stamps \cup {Absent}]
      /\ cache \in [Runs -> [Files -> Stamps \cup {Absent}]]
  BY <1>1, <1>4 DEF PastInv
<1>7. ASSUME NEW r \in Runs, NEW k \in {"change", "same", "failure"}
      PROVE  report[r][k] \in 0..Cardinality(Files)
  <2>1. PICK c \in Nat, s \in Nat, x \in Nat :
               c = report[r].change /\ s = report[r].same /\ x = report[r].failure
    BY DEF ReportTypes
  <2>2. PICK w \in Nat, t \in Nat, n \in Nat, N \in Nat :
               /\ w = Cardinality(cancelled[r]) /\ t = Cardinality(Tasks(r))
               /\ n = Cardinality(sources[r]) /\ N = Cardinality(Files) /\ n <= N
    <3>1. cancelled[r] \in SUBSET Files /\ Tasks(r) \in SUBSET Files /\ sources[r] \in SUBSET Files
      BY DEF ReportTypes, TaskTypes, Tasks
    <3>2. \A T \in SUBSET Files : Cardinality(T) \in Nat /\ Cardinality(T) <= Cardinality(Files)
      BY FS_Subset, FS_CardinalityType
    <3> QED
      BY <3>1, <3>2, FS_CardinalityType
  <2>3. c + s + x + w + t = n
    BY <2>1, <2>2 DEF CountInv, CountOf
  <2>4. c <= N /\ s <= N /\ x <= N
    BY <2>2, <2>3
  <2> QED
    BY <2>1, <2>2, <2>4
<1> QED
  BY <1>5, <1>6, <1>7 DEF TypeOK, TaskTypes, ReportTypes

LEMMA ExitCounts ==
  ASSUME IInv
  PROVE  EverySourceCounted
<1>1. SUFFICES ASSUME NEW r \in Runs, pc[r] = "exited"
               PROVE  report[r].change + report[r].same + report[r].failure
                        + Cardinality(cancelled[r]) = Cardinality(sources[r])
  BY DEF EverySourceCounted
<1>2. Tasks(r) = {}
  BY <1>1 DEF IInv, TaskInv, TaskOf, Tasks
<1>3. Cardinality(Tasks(r)) = 0
  BY <1>2, FS_EmptySet
<1>4. PICK c \in Nat, s \in Nat, x \in Nat :
             c = report[r].change /\ s = report[r].same /\ x = report[r].failure
  BY DEF IInv, Types, ReportTypes
<1>5. PICK w \in Nat : w = Cardinality(cancelled[r])
  BY FS_Subset, FS_CardinalityType DEF IInv, Types, ReportTypes
<1>6. c + s + x + w + 0 = Cardinality(sources[r])
  BY <1>3, <1>4, <1>5 DEF IInv, CountInv, CountOf
<1>7. c + s + x + w + 0 = c + s + x + w
  OBVIOUS
<1> QED
  BY <1>4, <1>5, <1>6, <1>7

\* Whatever runs, editors, signals and failures do: the types, the accounting of tasks and
\* sources, the room left for stamps and the answer for cut files, together inductive.
THEOREM Invariance == Spec => []IInv
<1>1. Init => IInv
  BY InitTypes, InitCounts DEF IInv
<1>2. IInv /\ [Next]_vars => IInv'
  BY NextKeeps
<1> QED
  BY <1>1, <1>2, PTL DEF Spec

\* The variables keep their types: no counter of a report passes the number of files and
\* no stamp the two writes of each run and the saves.
THEOREM TypeCorrect == Spec => []TypeOK
<1>1. IInv => TypeOK
  BY TypesAreBounded
<1> QED
  BY <1>1, Invariance, PTL

\* schedule_formatting loses no source: when a run exits, each one is in one counter of
\* its Report or was found cancelled.
THEOREM SourcesAreCounted == Spec => []EverySourceCounted
<1>1. IInv => EverySourceCounted
  BY ExitCounts
<1> QED
  BY <1>1, Invariance, PTL

\* A file that open(src, "w") emptied and nobody filled again belongs to a run that is
\* writing it, was killed or interrupted, or reports a failure.
THEOREM CutsAreReported == Spec => []CutIsReported
<1>1. IInv => CutIsReported
  BY DEF IInv
<1> QED
  BY <1>1, Invariance, PTL

\* What cache and checks say, while editors save files only between runs.
THEOREM CacheInvariance == Editing # "any" => (Spec => []CacheIInv)
<1> SUFFICES ASSUME Editing # "any"
             PROVE  Spec => []CacheIInv
  OBVIOUS
<1>1. Init => CacheIInv
  BY InitCache
<1>2. IInv /\ CacheIInv /\ [Next]_vars => CacheIInv'
  BY NextKeepsCache
<1> QED
  BY <1>1, <1>2, Invariance, PTL DEF Spec

\* Changed.CACHED is the truth: a file whose stamp the cache holds is formatted, whichever
\* runs wrote files and cache at the same time, as long as editors save between runs.
THEOREM CachedFilesAreFormatted == Editing # "any" => (Spec => []CachedIsFormatted)
<1> SUFFICES ASSUME Editing # "any"
             PROVE  Spec => []CachedIsFormatted
  OBVIOUS
<1>1. IInv /\ CacheIInv => CachedIsFormatted
  BY CachedFormatted DEF IInv, CacheIInv
<1> QED
  BY <1>1, Invariance, CacheInvariance, PTL

\* A black --check that no signal cut short exits with 0 only if it, or the cache, knew
\* each source formatted at some moment of the run.
THEOREM CheckIsTruthful == Editing # "any" => (Spec => []CheckTellsTruth)
<1> SUFFICES ASSUME Editing # "any"
             PROVE  Spec => []CheckTellsTruth
  OBVIOUS
<1>1. IInv /\ CacheIInv => CheckTellsTruth
  BY SeenIsTrue DEF IInv, CacheIInv
<1> QED
  BY <1>1, Invariance, CacheInvariance, PTL

=============================================================================
