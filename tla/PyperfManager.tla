---------------------------- MODULE PyperfManager ----------------------------
(***************************************************************************)
(* pyperf (src/pyperf): a script of benchmark functions is run by a main   *)
(* process, which for each of them (and with --compare-to for each of two  *)
(* Pythons) creates a Manager.  The Manager spawns one worker process at a *)
(* time to calibrate the numbers of loops and of warmups, and then to      *)
(* compute values.  A worker runs the same script and skips the benchmarks *)
(* it was not asked for.  What a calibration measures is nondeterministic. *)
(***************************************************************************)
EXTENDS Integers

CONSTANTS NTasks,       \* benchmark functions of the script
          NPythons,     \* 1, or 2 with --compare-to
          Processes,    \* --processes, the value runs of a benchmark
          LoopCounts, WarmupCounts,   \* what calibrations may find
          LoopOptions, WarmupOptions, \* values of --loops and --warmups
          MAX_CALIBRATION

None == -1    \* args.warmups is None: not given, and Python has a JIT

ASSUME SizeAssumption == NTasks \in Nat /\ NPythons \in Nat \ {0} /\ Processes \in Nat
ASSUME CountAssumption == LoopCounts \subseteq Nat \ {0} /\ WarmupCounts \subseteq Nat \ {0}
ASSUME OptionAssumption == LoopOptions \subseteq Nat /\ WarmupOptions \subseteq Nat \cup {None}
ASSUME LimitAssumption == MAX_CALIBRATION \in Nat \ {0}

VARIABLES
  optLoops, optWarmups, \* the options, once parsed; loops 0: not given
  phase,                \* "script", "manage", "wait", or the end: "finished", "failed"
  task, python,         \* runner._worker_task; which Python of _compare_to
  loops, warmups,       \* args.loops, args.warmups
  oldLoops, oldWarmups, \* locals of create_bench
  next_run, calibrate_loops, calibrate_warmups, nprocess, \* the Manager
  kind,                 \* what the worker computes, "none" without a worker
  wtask, wloops, wwarmups, \* its --worker-task, --loops and --warmups
  wpos,                 \* its own runner._worker_task
  result,               \* the number its run carries; 0 before it has one
  \* history
  executed,             \* benchmarks the worker has executed
  nloops, nwarmups,     \* calibration processes of this benchmark
  loopsFor, loopsUnder, \* the benchmark that measured loops, and its warmups then
  warmupsUnder          \* loops under which warmups was measured, 0: it was not

options == <<optLoops, optWarmups>>
script == <<task, python, oldLoops, oldWarmups>>
args == <<loops, warmups>>
manager == <<next_run, calibrate_loops, calibrate_warmups, nprocess>>
worker == <<kind, wtask, wloops, wwarmups, wpos, result, executed>>
history == <<nloops, nwarmups, loopsFor, loopsUnder, warmupsUnder>>
vars == <<options, phase, script, args, manager, worker, history>>

Kinds == {"calibrate_loops", "recalibrate_loops", "calibrate_warmups",
          "recalibrate_warmups", "values"}
Counts == LoopCounts \cup WarmupCounts \cup {0}
This == <<task, python>>

TypeOK ==
  /\ optLoops \in LoopOptions /\ optWarmups \in WarmupOptions
  /\ phase \in {"script", "manage", "wait", "finished", "failed"}
  /\ task \in 0..NTasks /\ python \in 1..NPythons
  /\ {loops, oldLoops} \subseteq LoopOptions \cup LoopCounts
  /\ {warmups, oldWarmups} \subseteq WarmupOptions \cup WarmupCounts \cup {1}
  /\ next_run \in {"loops", "warmups", "values"}
  /\ {calibrate_loops, calibrate_warmups, nloops, nwarmups} \subseteq Nat
  /\ nprocess \in 0..Processes
  /\ kind \in Kinds \cup {"none"}
  /\ wtask \in 0..NTasks /\ wpos \in 0..NTasks
  /\ wloops \in LoopOptions \cup LoopCounts
  /\ wwarmups \in WarmupOptions \cup WarmupCounts \cup {1}
  /\ result \in Counts
  /\ executed \subseteq 0..NTasks
  /\ loopsFor \in (0..NTasks) \X (0..NPythons)
  /\ loopsUnder \in WarmupOptions \cup WarmupCounts \cup {0, 1}
  /\ warmupsUnder \in LoopOptions \cup LoopCounts \cup {0}

Init ==
  /\ optLoops \in LoopOptions /\ optWarmups \in WarmupOptions
  /\ phase = "script" /\ task = 0 /\ python = 1
  /\ loops = optLoops /\ warmups = optWarmups
  /\ oldLoops = optLoops /\ oldWarmups = optWarmups
  /\ next_run = "loops" /\ calibrate_loops = 0 /\ calibrate_warmups = 0 /\ nprocess = 0
  /\ kind = "none" /\ wtask = 0 /\ wloops = optLoops /\ wwarmups = optWarmups
  /\ wpos = 0 /\ result = 0 /\ executed = {}
  /\ nloops = 0 /\ nwarmups = 0
  /\ loopsFor = <<0, 0>> /\ loopsUnder = 0 /\ warmupsUnder = 0

-----------------------------------------------------------------------------
(* The main process: bench_func and the like, _main, _compare_to. *)

\* Manager.__init__ and create_bench up to its loop.
BeginBench ==
  /\ phase = "script" /\ task < NTasks
  /\ phase' = "manage"
  /\ next_run' = "loops"
  /\ calibrate_loops' = IF loops = 0 THEN 1 ELSE 0
  /\ calibrate_warmups' = IF warmups = None THEN 1 ELSE 0
  /\ nprocess' = 0
  /\ oldLoops' = loops /\ oldWarmups' = warmups
  /\ warmups' = IF warmups = None THEN 1 ELSE warmups
  /\ nloops' = 0 /\ nwarmups' = 0
  /\ UNCHANGED <<options, task, python, loops, worker, loopsFor, loopsUnder, warmupsUnder>>

\* (mutant) only warmups is restored
EndBenchKeepingLoops ==
  /\ phase = "manage" /\ nprocess = Processes
  /\ phase' = "script"
  /\ warmups' = oldWarmups
  /\ IF python < NPythons
     THEN python' = python + 1 /\ UNCHANGED task
     ELSE python' = 1 /\ task' = task + 1
  /\ UNCHANGED <<options, loops, oldLoops, oldWarmups, manager, worker, history>>

\* (mutant) the second Python is followed by a third
EndBenchNextPython ==
  /\ phase = "manage" /\ nprocess = Processes
  /\ phase' = "script"
  /\ loops' = oldLoops /\ warmups' = oldWarmups
  /\ IF python <= NPythons
     THEN python' = python + 1 /\ UNCHANGED task
     ELSE python' = 1 /\ task' = task + 1
  /\ UNCHANGED <<options, oldLoops, oldWarmups, manager, worker, history>>

\* The end of create_bench restores the options; then the next Python, or _main's
\* `_worker_task += 1` and the next benchmark.
EndBench ==
  /\ phase = "manage" /\ nprocess = Processes
  /\ phase' = "script"
  /\ loops' = oldLoops /\ warmups' = oldWarmups
  /\ IF python < NPythons
     THEN python' = python + 1 /\ UNCHANGED task
     ELSE python' = 1 /\ task' = task + 1
  /\ UNCHANGED <<options, oldLoops, oldWarmups, manager, worker, history>>

EndScript ==
  /\ phase = "script" /\ task = NTasks
  /\ phase' = "finished"
  /\ UNCHANGED <<options, script, args, manager, worker, history>>

-----------------------------------------------------------------------------
(* The Manager. *)

\* create_suite: which kind of run must be computed.
RunAfterLoops == IF next_run = "loops" /\ calibrate_loops = 0 THEN "warmups" ELSE next_run
ChosenRun == IF RunAfterLoops = "warmups" /\ calibrate_warmups = 0 THEN "values" ELSE RunAfterLoops

\* worker_cmd: the options that tell the worker what to compute.
CommandKind(run) ==
  CASE run = "loops" -> IF calibrate_loops = 1 THEN "calibrate_loops" ELSE "recalibrate_loops"
    [] run = "warmups" -> IF calibrate_warmups = 1 THEN "calibrate_warmups" ELSE "recalibrate_warmups"
    [] OTHER -> "values"

\* create_suite and spawn_worker.
Spawn ==
  /\ phase = "manage" /\ nprocess < Processes
  /\ phase' = "wait"
  /\ next_run' = ChosenRun
  /\ kind' = CommandKind(ChosenRun)
  /\ wtask' = task /\ wloops' = loops /\ wwarmups' = warmups
  /\ wpos' = 0 /\ result' = 0 /\ executed' = {}
  /\ UNCHANGED <<options, script, args, calibrate_loops, calibrate_warmups, nprocess, history>>

\* choose_next_run
Alternate(run) == CASE run = "loops" -> "warmups" [] run = "warmups" -> "loops" [] OTHER -> run

\* (mutant) the limit is not looked at
CalibratedUnlimited(done, cl, cw, count) ==
  /\ calibrate_loops' = IF done THEN 0 ELSE cl
  /\ calibrate_warmups' = IF done THEN 0 ELSE cw
  /\ phase' = "manage"

\* The end of either half of handle_calibration: calibration_done, or the counters go on
\* and the one just raised may have passed the limit, which is an exit.
Calibrated(done, cl, cw, count) ==
  /\ calibrate_loops' = IF done THEN 0 ELSE cl
  /\ calibrate_warmups' = IF done THEN 0 ELSE cw
  /\ phase' = IF ~done /\ count > MAX_CALIBRATION THEN "failed" ELSE "manage"

\* handle_calibration after a run that measured loops.
LoopsCalibrated ==
  /\ kind \in {"calibrate_loops", "recalibrate_loops"}
  /\ LET stable == result = loops /\ warmups # None
         cw == IF result # loops /\ calibrate_warmups > 1 THEN 1 ELSE calibrate_warmups
     IN Calibrated(stable \/ cw = 0, calibrate_loops + 1, cw, calibrate_loops + 1)
  /\ loops' = result
  /\ nloops' = nloops + 1
  /\ loopsFor' = This /\ loopsUnder' = wwarmups
  /\ UNCHANGED <<warmups, nprocess, nwarmups, warmupsUnder>>

\* handle_calibration after a run that measured warmups.
WarmupsCalibrated ==
  /\ kind \in {"calibrate_warmups", "recalibrate_warmups"}
  /\ LET stable == warmups # None /\ result <= warmups
     IN Calibrated(stable \/ calibrate_loops = 0, calibrate_loops, calibrate_warmups + 1,
                   calibrate_warmups + 1)
  /\ warmups' = result
  /\ nwarmups' = nwarmups + 1
  /\ warmupsUnder' = wloops
  /\ UNCHANGED <<loops, nprocess, nloops, loopsFor, loopsUnder>>

\* (mutant) a value run is not counted
ValuesComputedUncounted ==
  /\ kind = "values"
  /\ phase' = "manage"
  /\ UNCHANGED <<args, calibrate_loops, calibrate_warmups, nprocess, nloops, nwarmups,
                 loopsFor, loopsUnder, warmupsUnder>>

ValuesComputed ==
  /\ kind = "values"
  /\ phase' = "manage"
  /\ nprocess' = nprocess + 1
  /\ UNCHANGED <<args, calibrate_loops, calibrate_warmups, nloops, nwarmups,
                 loopsFor, loopsUnder, warmupsUnder>>

\* One turn of create_bench's loop, once the worker has exited with a result.
Collect ==
  /\ phase = "wait" /\ kind # "none" /\ wpos = NTasks /\ executed # {}
  /\ LoopsCalibrated \/ WarmupsCalibrated \/ ValuesComputed
  /\ next_run' = Alternate(next_run)
  /\ kind' = "none"
  /\ UNCHANGED <<options, script, wtask, wloops, wwarmups, wpos, result, executed>>

-----------------------------------------------------------------------------
(* The worker. *)

\* calibrate_loops only ever doubles, calibrate_warmups only ever adds.
Results ==
  CASE kind = "calibrate_loops" -> LoopCounts
    [] kind = "recalibrate_loops" -> {n \in LoopCounts : n >= wloops}
    [] kind = "calibrate_warmups" -> WarmupCounts
    [] kind = "recalibrate_warmups" -> {n \in WarmupCounts : n >= wwarmups}
    [] OTHER -> {0}

\* _check_worker_task: not the benchmark this worker is for.
WorkerSkips ==
  /\ phase = "wait" /\ wpos < NTasks /\ wpos # wtask
  /\ wpos' = wpos + 1
  /\ UNCHANGED <<options, phase, script, args, manager, kind, wtask, wloops, wwarmups,
                 result, executed, history>>

\* (mutant) a worker executes the first benchmark it meets
WorkerExecutesFirst ==
  /\ phase = "wait" /\ wpos < NTasks /\ executed = {}
  /\ wpos' = wpos + 1
  /\ result' \in Results
  /\ executed' = executed \cup {wpos}
  /\ UNCHANGED <<options, phase, script, args, manager, kind, wtask, wloops, wwarmups, history>>

\* _worker and create_run: the benchmark is executed and its run written to the pipe.
WorkerExecutes ==
  /\ phase = "wait" /\ wpos < NTasks /\ wpos = wtask
  /\ wpos' = wpos + 1
  /\ result' \in Results
  /\ executed' = executed \cup {wpos}
  /\ UNCHANGED <<options, phase, script, args, manager, kind, wtask, wloops, wwarmups, history>>

\* The worker exits with an error (MAX_LOOPS or MAX_WARMUP_VALUES reached, a zero timing, an
\* exception anywhere in the script), or the user interrupts the main process, whose
\* popen_killer kills the worker: nothing is restored, the program ends.
Abort ==
  /\ phase = "wait"
  /\ phase' = "failed"
  /\ kind' = "none"
  /\ UNCHANGED <<options, script, args, manager, wtask, wloops, wwarmups, wpos, result,
                 executed, history>>

-----------------------------------------------------------------------------
Progress ==
  \/ BeginBench \/ EndBench \/ EndScript
  \/ Spawn \/ Collect
  \/ WorkerSkips \/ WorkerExecutes

Next == Progress \/ Abort

\* Nothing but the program's own steps is asked for: the benchmark functions return.
Spec == Init /\ [][Next]_vars /\ WF_vars(Progress)

-----------------------------------------------------------------------------
(* Properties. *)

\* 'Limit to 5 calibration processes (10 if calibration is needed for loops and
\* warmups)': however the two calibrations restart each other.
CalibrationBounded == nloops <= MAX_CALIBRATION /\ nwarmups <= MAX_CALIBRATION

\* The worker that computes values runs with numbers of loops and warmups that belong
\* together.  Unless --loops gave it, the number of loops was measured for this benchmark
\* and this Python, and with at least as many warmups as now used; unless the number of
\* warmups was given it was measured with the number of loops now used.
ValuesUseCalibration ==
  kind = "values" =>
    /\ optLoops = 0 => loopsFor = This /\ wwarmups <= loopsUnder
    /\ optLoops # 0 => wloops = optLoops
    /\ optWarmups = None => warmupsUnder = wloops
    /\ optWarmups # None => wwarmups = optWarmups

\* A worker has executed no other benchmark than the one it was spawned for, and exactly
\* that one when its result is taken.
WorkerRunsItsTask ==
  kind # "none" => executed \subseteq {task} /\ (wpos = NTasks => executed = {task})

\* Once measured, the number of warmups is measured anew or done with, never refined:
\* --recalibrate-warmups is not used by any run.
WarmupsMeasuredAfresh == kind # "recalibrate_warmups"

\* The program ends: loops and warmups cannot be calibrated in turn for ever.
ProgramEnds == <>(phase \in {"finished", "failed"})
=============================================================================
