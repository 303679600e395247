----------------------------- MODULE PyperfProofs -----------------------------
(***************************************************************************)
(* Theorems about PyperfManager: the two calibrations, which restart each  *)
(* other, stay within their limit, and what they leave belongs together.   *)
(***************************************************************************)
EXTENDS PyperfManager, TLAPS

InBench == phase \in {"manage", "wait"}

\* The options are kept, and stand in args whenever no benchmark is under way.
OptionInv ==
  /\ oldLoops = optLoops /\ oldWarmups = optWarmups
  /\ phase = "script" => loops = optLoops /\ warmups = optWarmups
  /\ InBench => task < NTasks
  /\ InBench /\ optLoops # 0 => loops = optLoops /\ calibrate_loops = 0 /\ nloops = 0
  /\ InBench /\ optWarmups # None => warmups = optWarmups /\ calibrate_warmups = 0 /\ nwarmups = 0
  /\ InBench => warmups # None

\* The stages of a benchmark's calibration, by the counters and by what is known.
First == next_run = "loops" /\ calibrate_loops = 1 /\ calibrate_warmups = 1
         /\ nloops = 0 /\ nwarmups = 0 /\ loops = 0
OnlyLoops == next_run = "loops" /\ calibrate_loops = 1 /\ calibrate_warmups = 0
             /\ nloops = 0 /\ nwarmups = 0 /\ loops = 0 /\ optWarmups # None
OnlyWarmups == next_run \in {"loops", "warmups"} /\ calibrate_loops = 0 /\ calibrate_warmups = 1
               /\ nwarmups = 0 /\ nloops = 0 /\ optLoops # 0
AfterLoops == next_run = "warmups" /\ calibrate_loops > 1 /\ calibrate_warmups = 1
              /\ nloops = calibrate_loops - 1 /\ nwarmups = nloops - 1
              /\ loopsFor = This /\ loopsUnder = warmups
AfterWarmups == next_run = "loops" /\ calibrate_loops > 1 /\ calibrate_warmups = 2
                /\ nloops = calibrate_loops - 1 /\ nwarmups = nloops
                /\ loopsFor = This /\ warmupsUnder = loops
Calibration == calibrate_loops = 0 /\ calibrate_warmups = 0
               /\ (optLoops = 0 => loopsFor = This /\ warmups <= loopsUnder)
               /\ (optWarmups = None => warmupsUnder = loops)

StageInv ==
  InBench =>
    /\ calibrate_loops <= MAX_CALIBRATION /\ calibrate_warmups <= MAX_CALIBRATION
    /\ First \/ OnlyLoops \/ OnlyWarmups \/ AfterLoops \/ AfterWarmups \/ Calibration

LoopKinds == {"calibrate_loops", "recalibrate_loops"}

\* The worker has the Manager's numbers and computes what the stage asks for.
WorkerInv ==
  /\ phase = "wait" <=> kind # "none"
  /\ kind # "none" => wtask = task /\ wloops = loops /\ wwarmups = warmups
                      /\ nprocess < Processes
  /\ kind \in LoopKinds => next_run = "loops" /\ calibrate_loops > 0
  /\ kind = "calibrate_warmups" => next_run = "warmups" /\ calibrate_warmups > 0
  /\ kind = "values" => calibrate_loops = 0 /\ calibrate_warmups = 0
  /\ kind # "recalibrate_warmups"
  /\ kind # "none" => executed = IF wpos > wtask THEN {task} ELSE {}
  /\ executed # {} /\ kind \in LoopKinds => result \in LoopCounts
  /\ executed # {} /\ kind = "calibrate_warmups" => result \in WarmupCounts

IInv == TypeOK /\ CalibrationBounded /\ OptionInv /\ StageInv /\ WorkerInv

-----------------------------------------------------------------------------
USE SizeAssumption, CountAssumption, OptionAssumption, LimitAssumption

LEMMA InitIInv == Init => IInv
  BY DEF Init, IInv, TypeOK, CalibrationBounded, OptionInv, StageInv, WorkerInv, InBench,
         LoopKinds, Kinds, Counts, None

LEMMA BeginBenchKeeps == IInv /\ BeginBench => IInv'
<1> SUFFICES ASSUME IInv, BeginBench PROVE IInv'
  OBVIOUS
<1> USE DEF BeginBench, options, worker, None
<1>1. TypeOK'
  BY DEF IInv, TypeOK, Kinds, Counts
<1>2. CalibrationBounded'
  BY DEF CalibrationBounded
<1>3. OptionInv'
  BY DEF IInv, TypeOK, OptionInv, InBench
<1>4. StageInv'
  <2>1. calibrate_loops' <= MAX_CALIBRATION /\ calibrate_warmups' <= MAX_CALIBRATION
    OBVIOUS
  <2>2. (First \/ OnlyLoops \/ OnlyWarmups \/ Calibration)'
    BY DEF IInv, OptionInv, TypeOK, First, OnlyLoops, OnlyWarmups, Calibration, This
  <2> QED
    BY <2>1, <2>2 DEF StageInv
<1>5. WorkerInv'
  BY DEF IInv, WorkerInv, LoopKinds
<1> QED
  BY <1>1, <1>2, <1>3, <1>4, <1>5 DEF IInv

LEMMA EndBenchKeeps == IInv /\ EndBench => IInv'
<1> SUFFICES ASSUME IInv, EndBench PROVE IInv'
  OBVIOUS
<1> USE DEF EndBench, options, worker, manager, history
<1>1. TypeOK'
  BY DEF IInv, TypeOK, OptionInv, InBench, Kinds, Counts
<1>2. CalibrationBounded'
  BY DEF IInv, CalibrationBounded
<1>3. OptionInv' /\ StageInv'
  BY DEF IInv, OptionInv, StageInv, InBench
<1>4. WorkerInv'
  BY DEF IInv, WorkerInv, LoopKinds
<1> QED
  BY <1>1, <1>2, <1>3, <1>4 DEF IInv

LEMMA EndScriptKeeps == IInv /\ EndScript => IInv'
  BY DEF IInv, EndScript, TypeOK, CalibrationBounded, OptionInv, StageInv, WorkerInv, InBench,
         LoopKinds, Kinds, Counts, options, script, args, manager, worker, history

LEMMA AbortKeeps == IInv /\ Abort => IInv'
  BY DEF IInv, Abort, TypeOK, CalibrationBounded, OptionInv, StageInv, WorkerInv, InBench,
         LoopKinds, Kinds, Counts, options, script, args, manager, history

LEMMA SpawnKeeps == IInv /\ Spawn => IInv'
<1> SUFFICES ASSUME IInv, Spawn PROVE IInv'
  OBVIOUS
<1> USE DEF Spawn, options, script, args, history, None
<1>1. TypeOK'
  BY DEF IInv, TypeOK, Kinds, Counts, CommandKind, ChosenRun, RunAfterLoops
<1>2. CalibrationBounded' /\ OptionInv'
  BY DEF IInv, CalibrationBounded, OptionInv, InBench
<1>3. StageInv'
  <2>1. First \/ OnlyLoops \/ OnlyWarmups \/ AfterLoops \/ AfterWarmups \/ Calibration
    BY DEF IInv, StageInv, InBench
  <2>2. (First \/ OnlyLoops \/ OnlyWarmups \/ AfterLoops \/ AfterWarmups \/ Calibration)'
    BY <2>1 DEF IInv, TypeOK, First, OnlyLoops, OnlyWarmups, AfterLoops, AfterWarmups, Calibration,
                ChosenRun, RunAfterLoops, This
  <2> QED
    BY <2>2 DEF IInv, StageInv, InBench
<1>4. WorkerInv'
  <2>1. First \/ OnlyLoops \/ OnlyWarmups \/ AfterLoops \/ AfterWarmups \/ Calibration
    BY DEF IInv, StageInv, InBench
  <2>2. \/ next_run' = "loops" /\ calibrate_loops > 0 /\ kind' \in LoopKinds
        \/ next_run' = "warmups" /\ calibrate_warmups > 0 /\ kind' = "calibrate_warmups"
        \/ calibrate_loops = 0 /\ calibrate_warmups = 0 /\ kind' = "values"
    BY <2>1 DEF IInv, TypeOK, First, OnlyLoops, OnlyWarmups, AfterLoops, AfterWarmups, Calibration,
                ChosenRun, RunAfterLoops, CommandKind, LoopKinds
  <2>3. executed' = IF wpos' > wtask' THEN {task'} ELSE {}
    BY DEF IInv, TypeOK
  <2> QED
    BY <2>2, <2>3 DEF WorkerInv, LoopKinds
<1> QED
  BY <1>1, <1>2, <1>3, <1>4 DEF IInv

LEMMA WorkerSkipsKeeps == IInv /\ WorkerSkips => IInv'
<1> SUFFICES ASSUME IInv, WorkerSkips PROVE IInv'
  OBVIOUS
<1> USE DEF WorkerSkips, options, script, args, manager, history
<1>1. TypeOK'
  BY DEF IInv, TypeOK
<1>2. CalibrationBounded' /\ OptionInv' /\ StageInv'
  BY DEF IInv, CalibrationBounded, OptionInv, StageInv, InBench, First, OnlyLoops, OnlyWarmups,
         AfterLoops, AfterWarmups, Calibration, This
<1>3. WorkerInv'
  BY DEF IInv, TypeOK, WorkerInv, LoopKinds
<1> QED
  BY <1>1, <1>2, <1>3 DEF IInv

LEMMA WorkerExecutesKeeps == IInv /\ WorkerExecutes => IInv'
<1> SUFFICES ASSUME IInv, WorkerExecutes PROVE IInv'
  OBVIOUS
<1> USE DEF WorkerExecutes, options, script, args, manager, history
<1>1. result' \in Counts
  BY DEF Results, Counts
<1>2. TypeOK'
  BY <1>1 DEF IInv, TypeOK
<1>3. CalibrationBounded' /\ OptionInv' /\ StageInv'
  BY DEF IInv, CalibrationBounded, OptionInv, StageInv, InBench, First, OnlyLoops, OnlyWarmups,
         AfterLoops, AfterWarmups, Calibration, This
<1>4. WorkerInv'
  <2>0. wpos = wtask /\ wpos \in Nat /\ wtask = task /\ kind # "none"
    BY DEF IInv, TypeOK, WorkerInv
  <2>1. wpos' > wtask' /\ executed' = {task'}
    <3>1. ~(wpos > wtask)
      BY <2>0
    <3>2. executed = {}
      BY <2>0, <3>1 DEF IInv, WorkerInv
    <3> QED
      BY <2>0, <3>2
  <2>2. (kind \in LoopKinds => result' \in LoopCounts)
        /\ (kind = "calibrate_warmups" => result' \in WarmupCounts)
    BY DEF Results, LoopKinds
  <2> QED
    BY <2>1, <2>2 DEF IInv, WorkerInv, LoopKinds
<1> QED
  BY <1>2, <1>3, <1>4 DEF IInv

\* What a turn of create_bench's loop finds: the worker's numbers are the Manager's.
LEMMA AtCollect ==
  ASSUME IInv, Collect
  PROVE  /\ wloops = loops /\ wwarmups = warmups /\ InBench /\ phase = "wait"
         /\ First \/ OnlyLoops \/ OnlyWarmups \/ AfterLoops \/ AfterWarmups \/ Calibration
         /\ kind \in LoopKinds =>
              result \in LoopCounts /\ (First \/ OnlyLoops \/ AfterWarmups)
         /\ kind = "calibrate_warmups" => result \in WarmupCounts /\ (OnlyWarmups \/ AfterLoops)
         /\ kind = "values" => Calibration
<1>1. /\ wloops = loops /\ wwarmups = warmups /\ InBench /\ phase = "wait"
      /\ First \/ OnlyLoops \/ OnlyWarmups \/ AfterLoops \/ AfterWarmups \/ Calibration
      /\ kind \in LoopKinds => result \in LoopCounts
      /\ kind = "calibrate_warmups" => result \in WarmupCounts
  BY DEF IInv, Collect, WorkerInv, StageInv, InBench
<1>2. kind \in LoopKinds => First \/ OnlyLoops \/ AfterWarmups
  BY <1>1 DEF IInv, TypeOK, WorkerInv, OnlyWarmups, AfterLoops, Calibration
<1>3. kind = "calibrate_warmups" => OnlyWarmups \/ AfterLoops
  BY <1>1 DEF IInv, TypeOK, WorkerInv, First, OnlyLoops, AfterWarmups, Calibration
<1>4. kind = "values" => Calibration
  BY <1>1 DEF IInv, TypeOK, WorkerInv, First, OnlyLoops, OnlyWarmups, AfterLoops, AfterWarmups
<1> QED
  BY <1>1, <1>2, <1>3, <1>4

\* The worker is gone after a turn, and the next kind of run is one of the three.
LEMMA CollectClears ==
  ASSUME IInv, Collect, phase' \in {"manage", "failed"}
  PROVE  WorkerInv' /\ next_run' \in {"loops", "warmups", "values"}
  BY DEF IInv, Collect, TypeOK, WorkerInv, LoopKinds, Alternate

LEMMA LoopsCalibratedKeeps == IInv /\ Collect /\ LoopsCalibrated => IInv'
<1> SUFFICES ASSUME IInv, Collect, LoopsCalibrated PROVE IInv'
  OBVIOUS
<1> DEFINE cw == IF result # loops /\ calibrate_warmups > 1 THEN 1 ELSE calibrate_warmups
           done == (result = loops /\ warmups # None) \/ cw = 0
<1> USE DEF Collect, options, script
<1>1. kind \in LoopKinds /\ phase' \in {"manage", "failed"}
  BY DEF LoopsCalibrated, LoopKinds, Calibrated
<1>2. /\ wloops = loops /\ wwarmups = warmups /\ InBench /\ result \in LoopCounts
      /\ First \/ OnlyLoops \/ AfterWarmups
  BY <1>1, AtCollect
<1>3. WorkerInv' /\ next_run' \in {"loops", "warmups", "values"}
  BY <1>1, CollectClears
<1>4. /\ calibrate_loops' = IF done THEN 0 ELSE calibrate_loops + 1
      /\ calibrate_warmups' = IF done THEN 0 ELSE cw
      /\ phase' = IF ~done /\ calibrate_loops + 1 > MAX_CALIBRATION THEN "failed" ELSE "manage"
      /\ loops' = result /\ nloops' = nloops + 1
      /\ loopsFor' = This /\ loopsUnder' = warmups
      /\ UNCHANGED <<warmups, nprocess, nwarmups, warmupsUnder>>
  BY <1>2 DEF LoopsCalibrated, Calibrated
<1>5. calibrate_loops \in Nat /\ calibrate_warmups \in Nat /\ nloops \in Nat /\ nwarmups \in Nat
      /\ loops \in Nat /\ result \in Nat \ {0} /\ warmups # None
      /\ calibrate_loops <= MAX_CALIBRATION
  BY <1>2 DEF IInv, TypeOK, StageInv, OptionInv
<1> HIDE DEF cw, done, Collect
<1>6. calibrate_loops >= 1 /\ nloops = calibrate_loops - 1 /\ nwarmups <= nloops
  BY <1>2, <1>5 DEF First, OnlyLoops, AfterWarmups
<1>7. cw \in Nat
  BY <1>5 DEF cw
<1>8. CalibrationBounded'
  BY <1>4, <1>5, <1>6 DEF CalibrationBounded
<1>9. TypeOK'
  <2>1. {loops', oldLoops'} \subseteq LoopOptions \cup LoopCounts
    BY <1>2, <1>4 DEF IInv, TypeOK, Collect
  <2>2. loopsFor' \in (0..NTasks) \X (0..NPythons)
    BY <1>4 DEF IInv, TypeOK, This
  <2>3. loopsUnder' \in WarmupOptions \cup WarmupCounts \cup {0, 1}
    BY <1>4 DEF IInv, TypeOK
  <2>4. {calibrate_loops', calibrate_warmups', nloops', nwarmups'} \subseteq Nat
    BY <1>4, <1>5, <1>7
  <2> QED
    BY <1>1, <1>3, <1>4, <2>1, <2>2, <2>3, <2>4 DEF IInv, TypeOK, Collect
<1>10. OptionInv'
  <2>1. optLoops = 0
    BY <1>2, <1>5, <1>6 DEF IInv, OptionInv, TypeOK
  <2>2. optWarmups # None => calibrate_warmups' = 0
    BY <1>2, <1>4 DEF IInv, OptionInv, cw, done
  <2> QED
    BY <1>1, <1>2, <1>4, <2>1, <2>2 DEF IInv, OptionInv, InBench, Collect
<1>11. StageInv'
  <2> SUFFICES ASSUME InBench' PROVE StageInv'
    BY DEF StageInv
  <2>1. phase' = "manage"
    BY <1>1 DEF InBench
  <2>2. calibrate_loops' <= MAX_CALIBRATION
    BY <1>4, <1>5, <2>1
  <2>3. CASE done
    <3>1. calibrate_loops' = 0 /\ calibrate_warmups' = 0
      BY <1>4, <2>3
    <3>2. loopsFor' = This' /\ warmups' <= loopsUnder'
      <4>1. warmups \in Nat
        <5>1. warmups \in WarmupOptions \cup WarmupCounts \cup {1}
          BY DEF IInv, TypeOK
        <5> QED
          BY <1>5, <5>1
      <4> QED
        BY <1>4, <4>1 DEF Collect, This
    <3>3. optWarmups = None => warmupsUnder' = loops'
      BY <1>2, <1>4, <1>5, <2>3 DEF First, OnlyLoops, AfterWarmups, done, cw
    <3> QED
      BY <3>1, <3>2, <3>3, <2>2 DEF StageInv, Calibration, Collect
  <2>4. CASE ~done
    <3>1. result # loops /\ cw = 1
      BY <1>2, <1>5, <2>4 DEF done, cw, First, OnlyLoops, AfterWarmups
    <3>2. ~OnlyLoops
      BY <1>5, <2>4 DEF OnlyLoops, done, cw
    <3>3. next_run' = "warmups" /\ nwarmups = nloops
      BY <1>2, <3>2 DEF First, AfterWarmups, Collect, Alternate
    <3>4. AfterLoops'
      BY <1>4, <1>5, <1>6, <2>4, <3>1, <3>3 DEF AfterLoops, Collect, This
    <3> QED
      BY <1>4, <2>2, <2>4, <3>1, <3>4 DEF StageInv
  <2> QED
    BY <2>3, <2>4
<1> QED
  BY <1>3, <1>8, <1>9, <1>10, <1>11 DEF IInv

LEMMA WarmupsCalibratedKeeps == IInv /\ Collect /\ WarmupsCalibrated => IInv'
<1> SUFFICES ASSUME IInv, Collect, WarmupsCalibrated PROVE IInv'
  OBVIOUS
<1> DEFINE done == result <= warmups \/ calibrate_loops = 0
<1> USE DEF Collect, options, script
<1>1. kind = "calibrate_warmups" /\ phase' \in {"manage", "failed"}
  BY DEF WarmupsCalibrated, Calibrated, IInv, WorkerInv
<1>2. /\ wloops = loops /\ wwarmups = warmups /\ InBench /\ result \in WarmupCounts
      /\ OnlyWarmups \/ AfterLoops
  BY <1>1, AtCollect
<1>3. WorkerInv' /\ next_run' \in {"loops", "warmups", "values"}
  BY <1>1, CollectClears
<1>4. warmups # None
  BY <1>2 DEF IInv, OptionInv
<1>5. /\ calibrate_loops' = IF done THEN 0 ELSE calibrate_loops
      /\ calibrate_warmups' = IF done THEN 0 ELSE calibrate_warmups + 1
      /\ phase' = IF ~done /\ calibrate_warmups + 1 > MAX_CALIBRATION THEN "failed" ELSE "manage"
      /\ warmups' = result /\ nwarmups' = nwarmups + 1
      /\ warmupsUnder' = loops
      /\ UNCHANGED <<loops, nprocess, nloops, loopsFor, loopsUnder>>
  BY <1>2, <1>4 DEF WarmupsCalibrated, Calibrated
<1>6. /\ calibrate_loops \in Nat /\ calibrate_warmups = 1 /\ nloops \in Nat /\ nwarmups \in Nat
      /\ result \in Nat \ {0} /\ warmups \in Nat
      /\ calibrate_loops <= MAX_CALIBRATION /\ nwarmups + 1 <= MAX_CALIBRATION
      /\ nloops <= MAX_CALIBRATION
  <2>1. warmups \in WarmupOptions \cup WarmupCounts \cup {1}
    BY DEF IInv, TypeOK
  <2>2. warmups \in Nat
    BY <1>4, <2>1
  <2>3. calibrate_loops \in Nat /\ nloops \in Nat /\ nwarmups \in Nat
        /\ calibrate_loops <= MAX_CALIBRATION
    BY <1>2 DEF IInv, TypeOK, StageInv
  <2>4. calibrate_warmups = 1 /\ nwarmups + 1 <= MAX_CALIBRATION /\ nloops <= MAX_CALIBRATION
    BY <1>2, <2>3 DEF OnlyWarmups, AfterLoops
  <2> QED
    BY <1>2, <2>2, <2>3, <2>4
<1>7. done \in BOOLEAN
  OBVIOUS
<1> HIDE DEF done, Collect
<1>8. CalibrationBounded'
  BY <1>5, <1>6 DEF CalibrationBounded
<1>9. TypeOK'
  <2>1. {warmups', oldWarmups'} \subseteq WarmupOptions \cup WarmupCounts \cup {1}
    BY <1>2, <1>5 DEF IInv, TypeOK, Collect
  <2>2. warmupsUnder' \in LoopOptions \cup LoopCounts \cup {0}
    BY <1>5 DEF IInv, TypeOK
  <2>3. {calibrate_loops', calibrate_warmups', nloops', nwarmups'} \subseteq Nat
    BY <1>5, <1>6
  <2> QED
    BY <1>1, <1>3, <1>5, <2>1, <2>2, <2>3 DEF IInv, TypeOK, Collect
<1>10. OptionInv'
  <2>1. optWarmups = None
    BY <1>2, <1>6 DEF IInv, OptionInv
  <2>2. warmups' # None
    BY <1>5, <1>6 DEF None
  <2>3. optLoops # 0 => calibrate_loops' = 0 /\ nloops' = 0 /\ loops' = optLoops
    BY <1>2, <1>5 DEF IInv, OptionInv
  <2> QED
    BY <1>1, <1>2, <2>1, <2>2, <2>3 DEF IInv, OptionInv, InBench, Collect
<1>11. StageInv'
  <2> SUFFICES ASSUME InBench' PROVE StageInv'
    BY DEF StageInv
  <2>1. phase' = "manage"
    BY <1>1 DEF InBench
  <2>2. calibrate_loops' <= MAX_CALIBRATION /\ calibrate_warmups' <= MAX_CALIBRATION
    BY <1>5, <1>6, <2>1
  <2>3. CASE done
    <3>1. calibrate_loops' = 0 /\ calibrate_warmups' = 0 /\ warmupsUnder' = loops'
      BY <1>5, <2>3
    <3>2. optLoops = 0 => loopsFor' = This' /\ warmups' <= loopsUnder'
      <4> SUFFICES ASSUME optLoops = 0 PROVE loopsFor' = This' /\ warmups' <= loopsUnder'
        OBVIOUS
      <4>1. AfterLoops
        BY <1>2 DEF OnlyWarmups
      <4>2. result <= warmups
        BY <2>3, <4>1, <1>6 DEF done, AfterLoops
      <4> QED
        BY <1>5, <4>1, <4>2 DEF AfterLoops, Collect, This
    <3> QED
      BY <2>2, <3>1, <3>2 DEF StageInv, Calibration, Collect
  <2>4. CASE ~done
    <3>1. AfterLoops
      BY <1>2, <2>4 DEF OnlyWarmups, done
    <3>2. AfterWarmups'
      <4>1. next_run' = "loops"
        BY <3>1 DEF AfterLoops, Collect, Alternate
      <4> QED
        BY <1>5, <1>6, <2>4, <3>1, <4>1 DEF AfterLoops, AfterWarmups, Collect, This
    <3> QED
      BY <2>2, <3>2 DEF StageInv
  <2> QED
    BY <2>3, <2>4
<1> QED
  BY <1>3, <1>8, <1>9, <1>10, <1>11 DEF IInv

LEMMA ValuesComputedKeeps == IInv /\ Collect /\ ValuesComputed => IInv'
<1> SUFFICES ASSUME IInv, Collect, ValuesComputed PROVE IInv'
  OBVIOUS
<1> USE DEF ValuesComputed, args
<1>1. phase' = "manage" /\ phase = "wait" /\ Calibration
  BY AtCollect
<1>2. WorkerInv' /\ next_run' \in {"loops", "warmups", "values"}
  BY <1>1, CollectClears
<1>3. nprocess' \in 0..Processes
  BY DEF IInv, TypeOK, WorkerInv, Collect
<1>4. TypeOK'
  BY <1>1, <1>2, <1>3 DEF IInv, TypeOK, Collect, options, script
<1>5. CalibrationBounded' /\ OptionInv'
  BY <1>1 DEF IInv, CalibrationBounded, OptionInv, InBench, Collect, options, script
<1>6. StageInv'
  BY <1>1 DEF IInv, StageInv, InBench, Calibration, This, Collect, options, script
<1> QED
  BY <1>2, <1>4, <1>5, <1>6 DEF IInv

-----------------------------------------------------------------------------
LEMMA Inductive == IInv /\ [Next]_vars => IInv'
<1> SUFFICES ASSUME IInv, [Next]_vars PROVE IInv'
  OBVIOUS
<1>1. CASE BeginBench
  BY <1>1, BeginBenchKeeps
<1>2. CASE EndBench
  BY <1>2, EndBenchKeeps
<1>3. CASE EndScript
  BY <1>3, EndScriptKeeps
<1>4. CASE Spawn
  BY <1>4, SpawnKeeps
<1>5. CASE Collect
  BY <1>5, LoopsCalibratedKeeps, WarmupsCalibratedKeeps, ValuesComputedKeeps DEF Collect
<1>6. CASE WorkerSkips
  BY <1>6, WorkerSkipsKeeps
<1>7. CASE WorkerExecutes
  BY <1>7, WorkerExecutesKeeps
<1>8. CASE Abort
  BY <1>8, AbortKeeps
<1>9. CASE UNCHANGED vars
  BY <1>9 DEF vars, options, script, args, manager, worker, history, IInv, TypeOK,
     CalibrationBounded, OptionInv, StageInv, WorkerInv, InBench, First, OnlyLoops, OnlyWarmups,
     AfterLoops, AfterWarmups, Calibration, This
<1> QED
  BY <1>1, <1>2, <1>3, <1>4, <1>5, <1>6, <1>7, <1>8, <1>9 DEF Next, Progress

LEMMA Safety == Spec => []IInv
  BY InitIInv, Inductive, PTL DEF Spec

\* Every state of the program is of its types (pyperf/_manager.py, Manager).
THEOREM TypeCorrect == Spec => []TypeOK
<1>1. IInv => TypeOK
  BY DEF IInv
<1> QED
  BY <1>1, Safety, PTL

\* Neither calibration of a benchmark takes more than MAX_CALIBRATION processes, in
\* whichever way the two restart each other (handle_calibration).
THEOREM CalibrationIsBounded == Spec => []CalibrationBounded
<1>1. IInv => CalibrationBounded
  BY DEF IInv
<1> QED
  BY <1>1, Safety, PTL

\* Values are only ever computed with loops and warmups that were measured for this
\* benchmark and this Python and belong together (handle_calibration, create_bench).
THEOREM ValuesAreCalibrated == Spec => []ValuesUseCalibration
<1>1. IInv => ValuesUseCalibration
  <2> SUFFICES ASSUME IInv, kind = "values" PROVE ValuesUseCalibration
    BY DEF ValuesUseCalibration
  <2>1. InBench /\ wloops = loops /\ wwarmups = warmups
        /\ calibrate_loops = 0 /\ calibrate_warmups = 0
    BY DEF IInv, WorkerInv, InBench
  <2>2. Calibration
    BY <2>1 DEF IInv, StageInv, First, OnlyLoops, OnlyWarmups, AfterLoops, AfterWarmups
  <2> QED
    BY <2>1, <2>2 DEF IInv, OptionInv, Calibration, ValuesUseCalibration
<1> QED
  BY <1>1, Safety, PTL

\* A worker executes the benchmark it was spawned for and no other (_check_worker_task).
THEOREM WorkersRunTheirTask == Spec => []WorkerRunsItsTask
<1>1. IInv => WorkerRunsItsTask
  <2> SUFFICES ASSUME IInv, kind # "none"
               PROVE  executed \subseteq {task} /\ (wpos = NTasks => executed = {task})
    BY DEF WorkerRunsItsTask
  <2>1. executed = (IF wpos > wtask THEN {task} ELSE {}) /\ wtask = task /\ phase = "wait"
    BY DEF IInv, WorkerInv
  <2>2. task < NTasks
    BY <2>1 DEF IInv, OptionInv, InBench
  <2> QED
    BY <2>1, <2>2
<1> QED
  BY <1>1, Safety, PTL

\* No run is asked to refine a number of warmups (worker_cmd's --recalibrate-warmups).
THEOREM WarmupsNeverRefined == Spec => []WarmupsMeasuredAfresh
<1>1. IInv => WarmupsMeasuredAfresh
  BY DEF IInv, WorkerInv, WarmupsMeasuredAfresh
<1> QED
  BY <1>1, Safety, PTL
=============================================================================
