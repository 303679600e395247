------------------------------ MODULE BlackRun ------------------------------
(***************************************************************************)
(* A run of black (src/black): main chooses reformat_one or reformat_many, *)
(* reads the cache, lets a pool of worker processes format the sources,    *)
(* collects their futures in an event loop and writes the cache.  Several  *)
(* runs share the files and the cache.                                     *)
(*                                                                         *)
(* Of a text only what format_file_contents does with it matters: "good"   *)
(* (NothingChanged), "bad" (it returns another text) or "broken" (it       *)
(* raises); "cut" is a file between the open(..., "w") and the end of the  *)
(* write.  A stamp stands for get_cache_info's (mtime, size): every write  *)
(* of a file gives it a new one.  The formatter is stable (its result is   *)
(* "good"), which black asserts itself unless --fast is given.             *)
(***************************************************************************)
EXTENDS Naturals, FiniteSets

CONSTANTS Files,
          NRuns,      \* runs started in the order of their numbers
          Modes,      \* the flags each run may be given
          Workers,    \* max_workers of the pool
          MaxEdits,   \* bound on the saves of editors
          Editing,    \* an editor saves files: "never", "idle" (no run under way), "any"
          Faulty,     \* the runs that signals and failures may hit
          MaxFaults   \* bound on signals, failing writes and killed processes

Runs == 1..NRuns
AllModes == {"write", "check", "diff", "checkdiff"}

ASSUME FilesAssumption == IsFiniteSet(Files)
ASSUME ModeAssumption == Modes \in [Runs -> (SUBSET AllModes) \ {{}}]
ASSUME WorkersAssumption == Workers \in Nat \ {0}
ASSUME BoundAssumption == NRuns \in Nat /\ MaxEdits \in Nat /\ MaxFaults \in Nat
ASSUME FaultyAssumption == Faulty \subseteq Runs
ASSUME EditingAssumption == Editing \in {"never", "idle", "any"}

VARIABLES
  file,        \* per file: what it holds and its stamp
  cachefile,   \* the pickled cache: the stamp of each file it knows, or Absent
  pc,          \* per run: where its main process is
  mode,        \* per run: its flags
  sources,     \* per run: the files it was asked to format
  cache,       \* per run: the cache it has in memory
  job,         \* per run and file: where the call of format_file_in_place is
  future,      \* per run and file: the future as the event loop sees it
  toCache,     \* per run: sources_to_cache
  report,      \* per run: the counters of its Report
  cancelled,   \* per run: the tasks it found cancelled
  interrupted, \* per run: did a signal cancel tasks?
  edits,       \* saves by editors so far
  faults,      \* failures so far
  seenGood     \* per run with --check: sources that were formatted, or being written, in it

runstate == <<pc, mode, sources, cache, toCache, report, cancelled, interrupted>>
budget == <<edits, faults>>
vars == <<file, cachefile, job, future, seenGood, budget, runstate>>

\* A run writes a file twice: it truncates it and fills it.
Stamps == 0..(MaxEdits + 2 * NRuns)
Absent == MaxEdits + 2 * NRuns + 1
Texts == {"good", "bad", "broken"}
NoReport == [change |-> 0, same |-> 0, failure |-> 0]

\* WriteBack.from_configuration, and the flag main gives the Report.
WritesBack(r) == mode[r] = "write"
Diffs(r) == mode[r] \in {"diff", "checkdiff"}
Checks(r) == mode[r] \in {"check", "checkdiff"}

\* Ends of a future, and the states of a job in which a worker is busy with it.
Settled == {"yes", "no", "error", "cancelled"}
Busy == {"changed", "writing"}
Done(r) == {f \in Files : future[r][f] \in Settled}
Unfinished(r) == {f \in Files : future[r][f] = "pending"}
Running == {r \in Runs : pc[r] \notin {"idle", "exited", "dead"}}

TypeOK ==
  /\ file \in [Files -> [text : Texts \cup {"cut"}, stamp : Stamps]]
  /\ cachefile \in [Files -> Stamps \cup {Absent}]
  /\ pc \in [Runs -> {"idle", "loop", "replace", "shutdown", "exited", "dead"}]
  /\ \A r \in Runs : mode[r] \in Modes[r]
  /\ sources \in [Runs -> SUBSET Files]
  /\ cache \in [Runs -> [Files -> Stamps \cup {Absent}]]
  /\ job \in [Runs -> [Files -> {"none", "queued"} \cup Busy]]
  /\ future \in [Runs -> [Files -> {"none", "pending"} \cup Settled]]
  /\ toCache \in [Runs -> SUBSET Files]
  /\ \A r \in Runs : \A k \in {"change", "same", "failure"} :
       report[r][k] \in 0..Cardinality(Files)
  /\ cancelled \in [Runs -> SUBSET Files]
  /\ interrupted \in [Runs -> BOOLEAN]
  /\ seenGood \in [Runs -> SUBSET Files]
  /\ edits \in 0..MaxEdits /\ faults \in 0..MaxFaults

\* Files as some editor left them; a cache written by earlier runs.
Init ==
  /\ file \in [Files -> [text : Texts, stamp : {0}]]
  /\ cachefile \in [Files -> {0, Absent}]
  /\ \A f \in Files : cachefile[f] = 0 => file[f].text = "good"
  /\ pc = [r \in Runs |-> "idle"]
  /\ mode = [r \in Runs |-> CHOOSE m \in Modes[r] : TRUE]
  /\ sources = [r \in Runs |-> {}]
  /\ cache = [r \in Runs |-> [f \in Files |-> Absent]]
  /\ job = [r \in Runs |-> [f \in Files |-> "none"]]
  /\ future = [r \in Runs |-> [f \in Files |-> "none"]]
  /\ toCache = [r \in Runs |-> {}]
  /\ report = [r \in Runs |-> NoReport]
  /\ cancelled = [r \in Runs |-> {}]
  /\ interrupted = [r \in Runs |-> FALSE]
  /\ seenGood = [r \in Runs |-> {}]
  /\ edits = 0 /\ faults = 0

-----------------------------------------------------------------------------
(* The main process: read_cache and filter_cached, then the tasks. *)

\* (mutant) a file is known by its name alone
UnmodifiedByName(f, known) == known[f] # Absent

\* filter_cached: the sources whose cached stamp is the one they have now.
Unmodified(f, known) == known[f] = file[f].stamp

Known(r, known) == IF Diffs(r)' THEN {} ELSE {f \in sources'[r] : Unmodified(f, known)}

\* schedule_formatting up to its loop; reformat_one reads the cache in the same way.
Start(r) ==
  /\ pc[r] = "idle" /\ \A q \in 1..(r - 1) : pc[q] # "idle"
  /\ \E m \in Modes[r] : mode' = [mode EXCEPT ![r] = m]
  /\ \E S \in (SUBSET Files) \ {{}} : sources' = [sources EXCEPT ![r] = S]
  /\ cache' = [cache EXCEPT ![r] = IF Diffs(r)' THEN @ ELSE cachefile]
  /\ LET cached == Known(r, cachefile)
         todo == sources'[r] \ cached
     IN /\ report' = [report EXCEPT ![r] = [change |-> 0, same |-> Cardinality(cached), failure |-> 0]]
        /\ job' = [job EXCEPT ![r] = [f \in Files |-> IF f \in todo THEN "queued" ELSE "none"]]
        /\ future' = [future EXCEPT ![r] = [f \in Files |-> IF f \in todo THEN "pending" ELSE "none"]]
        /\ pc' = [pc EXCEPT ![r] = IF todo = {} THEN "shutdown" ELSE "loop"]
  /\ UNCHANGED <<file, cachefile, toCache, cancelled, interrupted, budget>>

\* (mutant) a check stores every file it could parse
CacheableUnlessFailed(r, f) == ~Diffs(r) /\ future[r][f] \in {"yes", "no"}

\* Which finished tasks' sources go to sources_to_cache.
Cacheable(r, f) ==
  \/ WritesBack(r) /\ future[r][f] \in {"yes", "no"}
  \/ mode[r] = "check" /\ future[r][f] = "no"

\* (mutant) a task that raised counts as one that changed nothing
TallySilent(r, done) ==
  [change |-> report[r].change + Cardinality({f \in done : future[r][f] = "yes"}),
   same |-> report[r].same + Cardinality({f \in done : future[r][f] \in {"no", "error"}}),
   failure |-> report[r].failure]

\* report.done and report.failed: what the finished tasks add to the counters.
Tally(r, done) ==
  [change |-> report[r].change + Cardinality({f \in done : future[r][f] = "yes"}),
   same |-> report[r].same + Cardinality({f \in done : future[r][f] = "no"}),
   failure |-> report[r].failure + Cardinality({f \in done : future[r][f] = "error"})]

\* (mutant) finished tasks stay in the dictionary
LoopTurnWithoutPop(r) ==
  /\ pc[r] = "loop"
  /\ Done(r) # {}
  /\ report' = [report EXCEPT ![r] = Tally(r, Done(r))]
  /\ toCache' = [toCache EXCEPT ![r] = @ \cup {f \in Done(r) : Cacheable(r, f)}]
  /\ cancelled' = [cancelled EXCEPT ![r] = @ \cup {f \in Done(r) : future[r][f] = "cancelled"}]
  /\ UNCHANGED <<file, cachefile, pc, mode, sources, cache, job, future, interrupted, budget>>

\* One turn of `while pending`: asyncio.wait returns every task that is done.
LoopTurn(r) ==
  /\ pc[r] = "loop"
  /\ Done(r) # {}
  /\ report' = [report EXCEPT ![r] = Tally(r, Done(r))]
  /\ toCache' = [toCache EXCEPT ![r] = @ \cup {f \in Done(r) : Cacheable(r, f)}]
  /\ cancelled' = [cancelled EXCEPT ![r] = @ \cup {f \in Done(r) : future[r][f] = "cancelled"}]
  /\ future' = [future EXCEPT ![r] = [f \in Files |-> IF f \in Done(r) THEN "none" ELSE @[f]]]
  /\ UNCHANGED <<file, cachefile, pc, mode, sources, cache, job, interrupted, budget>>

\* write_cache, first half: new_cache, from the stamps the sources have now.
CollectStamps(r) ==
  /\ pc[r] = "loop"
  /\ \A f \in Files : future[r][f] = "none"
  /\ IF toCache[r] = {}
     THEN pc' = [pc EXCEPT ![r] = "shutdown"] /\ UNCHANGED cache
     ELSE /\ pc' = [pc EXCEPT ![r] = "replace"]
          /\ cache' = [cache EXCEPT ![r] =
               [f \in Files |-> IF f \in toCache[r] THEN file[f].stamp ELSE @[f]]]
  /\ UNCHANGED <<file, cachefile, mode, sources, job, future, toCache, report, cancelled,
                 interrupted, budget>>

\* write_cache, second half: the temporary file takes the cache file's place.
ReplaceCache(r) ==
  /\ pc[r] = "replace"
  /\ cachefile' = cache[r]
  /\ pc' = [pc EXCEPT ![r] = "shutdown"]
  /\ UNCHANGED <<file, mode, sources, cache, job, future, toCache, report, cancelled,
                 interrupted, budget>>

Breaks(r) == r \in Faulty /\ faults < MaxFaults /\ faults' = faults + 1

\* write_cache swallows an OSError of its own.
ReplaceCacheFails(r) ==
  /\ pc[r] = "replace"
  /\ Breaks(r)
  /\ pc' = [pc EXCEPT ![r] = "shutdown"]
  /\ UNCHANGED <<file, cachefile, mode, sources, cache, job, future, toCache, report, cancelled,
                 interrupted, edits>>

\* The memory of a process that is gone.
Forgets(r) ==
  /\ cache' = [cache EXCEPT ![r] = [f \in Files |-> Absent]]
  /\ toCache' = [toCache EXCEPT ![r] = {}]

\* shutdown(loop), executor.shutdown(), which waits for jobs no one can cancel, and exit.
Exit(r) ==
  /\ pc[r] = "shutdown"
  /\ \A f \in Files : job[r][f] = "none"
  /\ pc' = [pc EXCEPT ![r] = "exited"]
  /\ Forgets(r)
  /\ UNCHANGED <<file, cachefile, mode, sources, job, future, report, cancelled,
                 interrupted, budget>>

-----------------------------------------------------------------------------
(* The workers: format_file_in_place, one step per access to the file. *)

Settle(r, f, result) ==
  /\ job' = [job EXCEPT ![r][f] = "none"]
  /\ future' = [future EXCEPT ![r][f] = IF @ = "pending" THEN result ELSE @]

\* The file is read and format_file_contents called.  A file that is being rewritten may
\* be read as any beginning of its text.  Only a changed text that is to be written back
\* keeps the worker busy.
Format(r, f) ==
  /\ job[r][f] = "queued"
  /\ Cardinality({g \in Files : job[r][g] \in Busy}) < Workers
  /\ \E text \in IF file[f].text = "cut" THEN Texts ELSE {file[f].text} :
       \/ text = "good" /\ Settle(r, f, "no")
       \/ text = "broken" /\ Settle(r, f, "error")
       \/ text = "bad" /\ ~WritesBack(r) /\ Settle(r, f, "yes")
       \/ /\ text = "bad" /\ WritesBack(r)
          /\ job' = [job EXCEPT ![r][f] = "changed"]
          /\ UNCHANGED future
  /\ UNCHANGED <<file, cachefile, budget, runstate>>

Wrote(f, text) == file' = [file EXCEPT ![f] = [text |-> text, stamp |-> @.stamp + 1]]

\* open(src, "w") truncates.
Truncate(r, f) ==
  /\ job[r][f] = "changed"
  /\ Wrote(f, "cut")
  /\ job' = [job EXCEPT ![r][f] = "writing"]
  /\ UNCHANGED <<cachefile, future, budget, runstate>>

Flush(r, f) ==
  /\ job[r][f] = "writing"
  /\ Wrote(f, "good")
  /\ Settle(r, f, "yes")
  /\ UNCHANGED <<cachefile, budget, runstate>>

\* open or write raises OSError: the file stays as it was, or cut.
WriteFails(r, f) ==
  /\ Breaks(r)
  /\ job[r][f] \in Busy
  /\ Settle(r, f, "error")
  /\ UNCHANGED <<file, cachefile, edits, runstate>>

-----------------------------------------------------------------------------
(* Signals, killed processes, editors. *)

\* (mutant) the handler clears the dictionary of tasks
CancelForgets(r) ==
  /\ Breaks(r)
  /\ pc[r] = "loop" /\ Cardinality(sources[r]) > 1
  /\ Unfinished(r) # {}
  /\ interrupted' = [interrupted EXCEPT ![r] = TRUE]
  /\ future' = [future EXCEPT ![r] = [f \in Files |-> "none"]]
  /\ \E dropped \in SUBSET {f \in Files : job[r][f] = "queued"} :
       job' = [job EXCEPT ![r] = [f \in Files |-> IF f \in dropped THEN "none" ELSE @[f]]]
  /\ UNCHANGED <<file, cachefile, pc, mode, sources, cache, toCache, report, cancelled, edits>>

\* cancel: the handler cancels the pending tasks, `tasks.keys()` being a live view.  The
\* pool has already taken some calls, which run to their end all the same.
Cancel(r) ==
  /\ Breaks(r)
  /\ pc[r] = "loop" /\ Cardinality(sources[r]) > 1
  /\ Unfinished(r) # {}
  /\ interrupted' = [interrupted EXCEPT ![r] = TRUE]
  /\ future' = [future EXCEPT ![r] = [f \in Files |-> IF @[f] = "pending" THEN "cancelled" ELSE @[f]]]
  /\ \E dropped \in SUBSET {f \in Files : job[r][f] = "queued"} :
       job' = [job EXCEPT ![r] = [f \in Files |-> IF f \in dropped THEN "none" ELSE @[f]]]
  /\ UNCHANGED <<file, cachefile, pc, mode, sources, cache, toCache, report, cancelled, edits>>

\* (mutant) a broken pool says nothing about the calls it had queued
PoolBreaksQuietly(r) ==
  /\ Breaks(r)
  /\ pc[r] \in {"loop", "replace", "shutdown"} /\ Cardinality(sources[r]) > 1
  /\ \E f \in Files : job[r][f] # "none"
  /\ job' = [job EXCEPT ![r] = [f \in Files |-> "none"]]
  /\ future' = [future EXCEPT ![r] =
       [f \in Files |-> IF @[f] = "pending" /\ job[r][f] \in Busy THEN "error" ELSE @[f]]]
  /\ UNCHANGED <<file, cachefile, edits, runstate>>

\* A worker process dies: BrokenProcessPool for every call that has not ended, and the
\* pool terminates the other workers where they are.
PoolBreaks(r) ==
  /\ Breaks(r)
  /\ pc[r] \in {"loop", "replace", "shutdown"} /\ Cardinality(sources[r]) > 1
  /\ \E f \in Files : job[r][f] # "none"
  /\ job' = [job EXCEPT ![r] = [f \in Files |-> "none"]]
  /\ future' = [future EXCEPT ![r] = [f \in Files |-> IF @[f] = "pending" THEN "error" ELSE @[f]]]
  /\ UNCHANGED <<file, cachefile, edits, runstate>>

\* The main process is killed; what its workers are busy with may yet be completed.
Kill(r) ==
  /\ Breaks(r)
  /\ r \in Running
  /\ pc' = [pc EXCEPT ![r] = "dead"]
  /\ \E orphans \in SUBSET {f \in Files : job[r][f] \in Busy} :
       /\ Cardinality(sources[r]) = 1 => orphans = {}
       /\ job' = [job EXCEPT ![r] = [f \in Files |-> IF f \in orphans THEN @[f] ELSE "none"]]
  /\ Forgets(r)
  /\ UNCHANGED <<file, cachefile, mode, sources, future, report, cancelled,
                 interrupted, edits>>

Edit(f) ==
  /\ \/ Editing = "any"
     \/ Editing = "idle" /\ Running = {} /\ \A r \in Runs : job[r][f] = "none"
  /\ pc[1] # "idle"      \* what was saved before is in Init
  /\ edits < MaxEdits /\ edits' = edits + 1
  /\ \E text \in Texts : Wrote(f, text)
  /\ UNCHANGED <<cachefile, job, future, faults, runstate>>

-----------------------------------------------------------------------------
Main(r) == Start(r) \/ LoopTurn(r) \/ CollectStamps(r) \/ ReplaceCache(r) \/ Exit(r)
Worker(r, f) == Format(r, f) \/ Truncate(r, f) \/ Flush(r, f)
Fault(r) == ReplaceCacheFails(r) \/ Cancel(r) \/ PoolBreaks(r) \/ Kill(r)

Step ==
  \/ \E r \in Runs : Main(r) \/ Fault(r)
  \/ \E r \in Runs, f \in Files : Worker(r, f) \/ WriteFails(r, f)
  \/ \E f \in Files : Edit(f)

Note ==
  seenGood' = [r \in Runs |->
    IF pc'[r] \in {"idle", "dead"} \/ ~Checks(r)' THEN {}
    ELSE seenGood[r] \cup {f \in sources'[r] : file[f].text \in {"good", "cut"}}]

Next == Step /\ Note

\* The operating system runs the main process and the workers; nobody has to start a run.
Fairness ==
  /\ \A r \in Runs : WF_vars((LoopTurn(r) \/ CollectStamps(r) \/ ReplaceCache(r) \/ Exit(r)) /\ Note)
  /\ \A r \in Runs, f \in Files : WF_vars(Worker(r, f) /\ Note)

Spec == Init /\ [][Next]_vars /\ Fairness

-----------------------------------------------------------------------------
(* Properties. *)

\* A file whose stamp is the cached one is formatted: a later run that skips it on the
\* cache's word (Changed.CACHED) skips nothing that needs formatting.
CachedIsFormatted ==
  \A f \in Files : cachefile[f] = file[f].stamp => file[f].text # "bad" /\ file[f].text # "broken"

\* main's exit code, Report.return_code.
ReturnCode(r) ==
  IF report[r].failure > 0 THEN 123 ELSE IF report[r].change > 0 /\ Checks(r) THEN 1 ELSE 0

\* A source that no run of the files has seen formatted is not passed by exit code 0.
PassesOnlyFormatted(r) == Checks(r) /\ ReturnCode(r) = 0 => sources[r] \subseteq seenGood[r]

\* A run with --check that no signal cut short exits with 0 only if each source was
\* formatted, or under rewriting, at some moment of the run, although it may know this
\* from the cache alone and other runs write files and cache meanwhile.
CheckTellsTruth ==
  \A r \in Runs : pc[r] = "exited" /\ ~interrupted[r] => PassesOnlyFormatted(r)

\* The same of every run, interrupted or not: 'code 0 if nothing would change'.
ZeroMeansUnchanged == \A r \in Runs : pc[r] = "exited" => PassesOnlyFormatted(r)

\* When a run exits each of its sources is in one count of the report or was cancelled,
\* and none in two: changed, unchanged (with the cached ones) and failed.
EverySourceCounted ==
  \A r \in Runs : pc[r] = "exited" =>
    report[r].change + report[r].same + report[r].failure + Cardinality(cancelled[r])
      = Cardinality(sources[r])

\* A file is left half written only by a run that was killed, that says so with its exit
\* code, or that was interrupted; otherwise a writer is still at it.
CutIsReported ==
  \A f \in Files : file[f].text = "cut" =>
    \E r \in Runs : WritesBack(r) /\ f \in sources[r] /\
      \/ job[r][f] = "writing"
      \/ future[r][f] = "error"
      \/ report[r].failure > 0 \/ interrupted[r] \/ pc[r] = "dead"

\* A run that was started exits, unless it is killed: schedule_formatting's loop ends
\* although tasks fail, are cancelled or lose their pool, and so does the wait for workers.
RunsEnd == \A r \in Runs : pc[r] = "loop" ~> pc[r] \in {"exited", "dead"}
=============================================================================
