--------------------------- MODULE HarnessProofs ---------------------------
(***************************************************************************)
(* Proofs about the benchmark scripts, for every sweep: any servers, any   *)
(* levels, any number of trials.                                           *)
(***************************************************************************)
EXTENDS Harness, SequenceTheorems, TLAPS

-----------------------------------------------------------------------------
(* What the proofs need to know of the scripts.                            *)

\* The order in which a trial starts and stops servers.
WellFormed(prog) ==
    /\ prog \in Seq(Steps) /\ Len(prog) > 1
    /\ prog[1] = "Popen"
    /\ \A i \in 2..Len(prog) : prog[i] = "Popen" => prog[i - 1] \in Waits
    /\ prog[Len(prog)] \in Waits

\* Every trial begins by starting a server, starts another one only right
\* after it has waited for the last one, and ends with such a wait.
LEMMA TrialsWellFormed == \A s \in ScriptNames : WellFormed(Trial[s])
<1> USE DEF WellFormed, Steps, Loads, Finishes, Waits
<1>1. WellFormed(benchmark_server) BY DEF benchmark_server
<1>2. WellFormed(bench_run_trial) BY DEF bench_run_trial
<1>3. WellFormed(exp1_run_single_trial) BY DEF exp1_run_single_trial
<1>4. WellFormed(exp2_run_exp2_trial) BY DEF exp2_run_exp2_trial
<1>5. WellFormed(exp3_measure_memory_progression)
  BY DEF exp3_measure_memory_progression
<1>6. WellFormed(exp4_run_single_idle_trial) BY DEF exp4_run_single_idle_trial
<1>7. WellFormed(task1_run_single_trial) BY DEF task1_run_single_trial
<1>8. WellFormed(task3_run_calibration_trial) BY DEF task3_run_calibration_trial
<1>9. WellFormed(scenario1_run_trial) BY DEF scenario1_run_trial
<1>10. WellFormed(cpu_run_trial) BY DEF cpu_run_trial
<1>11. WellFormed(events_run_trial) BY DEF events_run_trial
<1>12. WellFormed(idle_run_trial) BY DEF idle_run_trial
<1>13. WellFormed(task6_trial) BY DEF task6_trial
<1> HIDE DEF WellFormed
<1> QED
  BY <1>1, <1>2, <1>3, <1>4, <1>5, <1>6, <1>7, <1>8, <1>9, <1>10, <1>11,
     <1>12, <1>13
  DEF ScriptNames, Trial

\* The rules that the loops of main() know.
RulesOK(m) ==
    /\ m.repeat \in BOOLEAN
    /\ m.over \in {"both", "servers", "levels"}
    /\ m.empty \in {"none", "zeros", "ERROR", "raise"}

\* Every script has such rules.
LEMMA MainsWellFormed == \A s \in ScriptNames : RulesOK(Main[s])
<1> USE DEF RulesOK
<1>1. RulesOK(benchmark_main) BY DEF benchmark_main
<1>2. RulesOK(benchmark_standard) BY DEF benchmark_standard
<1>3. RulesOK(benchmark_idle) BY DEF benchmark_idle
<1>4. RulesOK(exp1_main) BY DEF exp1_main
<1>5. RulesOK(exp2_main) BY DEF exp2_main
<1>6. RulesOK(exp3_main) BY DEF exp3_main
<1>7. RulesOK(exp4_main) BY DEF exp4_main
<1>8. RulesOK(task1_main) BY DEF task1_main
<1>9. RulesOK(task3_main) BY DEF task3_main
<1>10. RulesOK(scenario1_main) BY DEF scenario1_main
<1>11. RulesOK(cpu_main) BY DEF cpu_main
<1>12. RulesOK(events_main) BY DEF events_main
<1>13. RulesOK(idle_main) BY DEF idle_main
<1>14. RulesOK(task6_main) BY DEF task6_main
<1> HIDE DEF RulesOK
<1> QED
  BY <1>1, <1>2, <1>3, <1>4, <1>5, <1>6, <1>7, <1>8, <1>9,
     <1>10, <1>11, <1>12, <1>13, <1>14
  DEF ScriptNames, Trial, Main

-----------------------------------------------------------------------------
(* Type correctness.                                                       *)

\* The sweep of a script has a length, and its points have trials.
LEMMA SweepFacts ==
    ASSUME script \in Selected
    PROVE  /\ WellFormed(Prog) /\ RulesOK(Rules)
           /\ Points \in Nat /\ Trials \in Nat \ {0} /\ Len(Prog) \in Nat
           /\ Rules.empty \in {"none", "zeros", "ERROR", "raise"}
<1>1. script \in ScriptNames BY HarnessAssumption
<1>2. WellFormed(Prog) /\ RulesOK(Rules)
  BY <1>1, TrialsWellFormed, MainsWellFormed DEF Prog, Rules
<1>3. Trials \in Nat \ {0} BY HarnessAssumption, <1>2 DEF Trials, RulesOK
<1>4. Height \in Nat /\ Width \in Nat
  BY HarnessAssumption DEF Height, Width
<1>5. Points \in Nat
  <2> DEFINE h == Height
             w == Width
  <2>1. h \in Nat /\ w \in Nat BY <1>4
  <2> HIDE DEF h, w
  <2>2. h * w \in Nat BY <2>1
  <2> QED BY <2>2 DEF Points, h, w
<1>6. Len(Prog) \in Nat BY <1>2 DEF WellFormed
<1>7. Rules.empty \in {"none", "zeros", "ERROR", "raise"} BY <1>2 DEF RulesOK
<1> QED BY <1>2, <1>3, <1>5, <1>6, <1>7

\* The script does not change, nor does what depends on it alone.
Fixed == environment' = environment /\ Prog' = Prog /\ Rules' = Rules
            /\ Points' = Points /\ Trials' = Trials /\ Uses' = Uses
            /\ RowSet' = RowSet /\ Fragile' = Fragile

\* No step changes the script, its sweep or what is installed.
LEMMA SweepFixed == [HarnessNext]_harnessVars => Fixed
<1> SUFFICES ASSUME [HarnessNext]_harnessVars PROVE Fixed
  OBVIOUS
<1>1. UNCHANGED environment
  <2>1. CASE UNCHANGED harnessVars BY <2>1 DEF harnessVars, environment
  <2>2. CASE ScriptStep
    BY <2>2 DEF ScriptStep, NextPoint, SkipPoint, SaveTable, Popen, AwaitUp,
         AwaitTimeout, GiveUp, StartLoad, NoLoadgen, RunMpstat, NoMpstat,
         Finish, Overrun, LoadEnds, LoadRaises, LoadCaught, Signal, Stopped,
         StopTimeout, EndTrial, Raise, environment
  <2>3. CASE \E p \in Alive : ServerUp(p) \/ ServerGone(p) \/ ServerObeys(p) \/ Serve(p)
    BY <2>3 DEF ServerUp, ServerGone, ServerObeys, Serve, scriptVars, environment
  <2>4. CASE Stall BY <2>4 DEF Stall, scriptVars, environment
  <2> QED BY <2>1, <2>2, <2>3, <2>4 DEF HarnessNext
<1> QED
  BY <1>1 DEF Fixed, environment, Prog, Rules, Points, Height, Width, Trials, Uses,
         RowSet, Fragile

\* What a step does to the servers.
ProcStep ==
    \/ UNCHANGED procVars /\ last' = last
    \/ Start(last + 1) /\ last' = last + 1
    \/ (\E p \in Alive : Listens(p) \/ Exits(p)) /\ last' = last
    \/ (Tell(own) \/ KillProc(own)) /\ last' = last

\* What a step may do to the processes: start the next one, or one change to
\* one that is there.
LEMMA ProcShape == [HarnessNext]_harnessVars => ProcStep
<1> SUFFICES ASSUME [HarnessNext]_harnessVars PROVE ProcStep
  OBVIOUS
<1> USE DEF ProcStep
<1>1. CASE UNCHANGED harnessVars BY <1>1 DEF harnessVars
<1>2. CASE ScriptStep
  <2>1. CASE Popen BY <2>1 DEF Popen
  <2>2. CASE Signal \/ GiveUp \/ StopTimeout
    BY <2>2 DEF Signal, GiveUp, StopTimeout
  <2>3. CASE \/ NextPoint \/ SkipPoint \/ SaveTable \/ AwaitUp \/ AwaitTimeout
             \/ StartLoad \/ NoLoadgen \/ RunMpstat \/ NoMpstat \/ Finish
             \/ Overrun \/ LoadRaises \/ LoadCaught \/ Stopped \/ EndTrial
    BY <2>3 DEF NextPoint, SkipPoint, SaveTable, AwaitUp, AwaitTimeout,
         StartLoad, NoLoadgen, RunMpstat, NoMpstat, Finish, Overrun, LoadEnds,
         LoadRaises, LoadCaught, Stopped, EndTrial, Raise
  <2> QED BY <1>2, <2>1, <2>2, <2>3 DEF ScriptStep
<1>3. CASE \E p \in Alive : ServerUp(p) \/ ServerGone(p) \/ ServerObeys(p) \/ Serve(p)
  BY <1>3 DEF ServerUp, ServerGone, ServerObeys, Serve, scriptVars
<1>4. CASE Stall BY <1>4 DEF Stall, scriptVars
<1> QED BY <1>1, <1>2, <1>3, <1>4 DEF HarnessNext

\* The numbers of the servers are those given out so far.
Counted == Alive \subseteq 1..last

\* A trial belongs to a point of the sweep.
InSweep == at \in {"trial", "giveup"} => pt <= Points

TypeInv == HarnessTypeOK /\ Counted /\ InSweep

\* The sets of processes stay sets of numbers that have been given out.
LEMMA ProcTypes ==
    ASSUME ProcessesTypeOK, Counted, last \in Nat, ProcStep
    PROVE  ProcessesTypeOK' /\ Counted' /\ last' \in Nat
<1> USE DEF ProcessesTypeOK, Counted, Alive
<1>1. CASE UNCHANGED procVars /\ last' = last BY <1>1 DEF procVars
<1>2. CASE Start(last + 1) /\ last' = last + 1 BY <1>2 DEF Start
<1>3. CASE (\E p \in Alive : Listens(p) \/ Exits(p)) /\ last' = last
  BY <1>3 DEF Listens, Exits
<1>4. CASE (Tell(own) \/ KillProc(own)) /\ last' = last
  BY <1>4 DEF Tell, KillProc
<1> QED BY <1>1, <1>2, <1>3, <1>4 DEF ProcStep

\* The part of it about the script.
ScriptTypes ==
    /\ at \in {"point", "trial", "giveup", "done", "aborted"}
    /\ ip \in 1..(Len(Prog) + 1)
    /\ pt \in 1..(Points + 1) /\ tr \in 1..Trials
    /\ kept \subseteq {0, 1} /\ rows \in Seq(RowSet)
    /\ why \in {"none", "loadgen", "mpstat", "load", "empty"}
    /\ InSweep

\* A trial that returns leaves the loops of main() in a proper state.
LEMMA ReturnTypes ==
    ASSUME ScriptTypes, script \in Selected, Fixed, NEW vals \in SUBSET {0, 1},
           at \in {"trial", "giveup"}, Return(vals)
    PROVE  /\ at' \in {"point", "trial", "aborted"}
           /\ ip' \in 1..(Len(Prog) + 1)
           /\ pt' \in 1..(Points + 1) /\ tr' \in 1..Trials
           /\ kept' \subseteq {0, 1} /\ rows' \in Seq(RowSet)
           /\ why' \in {"none", "loadgen", "mpstat", "load", "empty"}
           /\ at' = "trial" => pt' <= Points
<1> USE DEF ScriptTypes, InSweep
<1>1. /\ Points \in Nat /\ Trials \in Nat \ {0} /\ pt \in 1..Points
      /\ Len(Prog) \in Nat /\ Rules.empty \in {"none", "zeros", "ERROR", "raise"}
  BY SweepFacts
<1>2. Keep(vals) \subseteq {0, 1} BY DEF Keep
<1>3. \A st \in {"OK", "zeros", "ERROR"} : Row(st) \in Seq(RowSet)
  <2>1. \A st \in {"OK", "zeros", "ERROR"} : [pt |-> pt, status |-> st] \in RowSet
    BY <1>1 DEF RowSet
  <2> QED BY <2>1 DEF Row
<1>4. CASE NextTrial(vals) BY <1>1, <1>2, <1>4 DEF NextTrial
<1>5. CASE EndPoint(vals) BY <1>1, <1>2, <1>3, <1>5 DEF EndPoint
<1>6. CASE EmptyPoint(vals) BY <1>1, <1>6 DEF EmptyPoint, table
<1> QED BY <1>4, <1>5, <1>6 DEF Return

\* One step of a trial leads to the next.
LEMMA StepTypes ==
    ASSUME ScriptTypes, script \in Selected, Fixed, NEW steps, AtStep(steps), GoOn
    PROVE  ip' \in 1..(Len(Prog) + 1) /\ at' = "trial"
<1>1. Len(Prog) \in Nat BY SweepFacts
<1> QED BY <1>1 DEF AtStep, GoOn, ScriptTypes

\* Every step leaves the variables of main() and of the trial in their types.
LEMMA ScriptTypesStep ==
    ASSUME TypeInv, Fixed, [HarnessNext]_harnessVars
    PROVE  ScriptTypes'
<1>1. /\ Points \in Nat /\ Trials \in Nat \ {0} /\ Len(Prog) \in Nat
  BY SweepFacts DEF TypeInv, HarnessTypeOK
<1>2. ScriptTypes /\ script \in Selected BY DEF TypeInv, HarnessTypeOK, ScriptTypes
<1>3. ASSUME UNCHANGED <<at, ip, table, why>> PROVE ScriptTypes'
  BY <1>2, <1>3 DEF ScriptTypes, table, InSweep, Fixed
<1>4. ASSUME NEW steps, AtStep(steps), GoOn, UNCHANGED <<table, why>>
      PROVE  ScriptTypes'
  <2>1. ip' \in 1..(Len(Prog) + 1) /\ at' = "trial" BY <1>2, <1>4, StepTypes
  <2>2. pt <= Points BY <1>4, <1>2 DEF AtStep, ScriptTypes, InSweep
  <2> QED BY <1>2, <1>4, <2>1, <2>2 DEF ScriptTypes, table, InSweep, Fixed
<1>5. ASSUME NEW reason \in {"loadgen", "mpstat", "load"}, Raise(reason)
      PROVE  ScriptTypes'
  BY <1>2, <1>5 DEF Raise, ScriptTypes, table, InSweep, Fixed
<1>6. ASSUME NEW vals \in SUBSET {0, 1}, at \in {"trial", "giveup"}, Return(vals)
      PROVE  ScriptTypes'
  BY <1>2, <1>6, ReturnTypes DEF ScriptTypes, InSweep, Fixed
<1>7. CASE UNCHANGED harnessVars BY <1>3, <1>7 DEF harnessVars, table
<1>8. CASE NextPoint
  BY <1>1, <1>2, <1>8 DEF NextPoint, ScriptTypes, InSweep, Fixed
<1>9. CASE SkipPoint
  <2>1. pt \in 1..Points BY <1>1, <1>2, <1>9 DEF SkipPoint, ScriptTypes
  <2>2. Row("FD_SETSIZE_EXCEEDED") \in Seq(RowSet)
    <3>1. [pt |-> pt, status |-> "FD_SETSIZE_EXCEEDED"] \in RowSet
      BY <2>1 DEF RowSet
    <3> QED BY <1>2, <3>1 DEF Row, ScriptTypes
  <2> QED BY <1>1, <1>2, <1>9, <2>1, <2>2
          DEF SkipPoint, ScriptTypes, InSweep, Fixed
<1>10. CASE SaveTable
  BY <1>2, <1>10 DEF SaveTable, ScriptTypes, table, InSweep, Fixed
<1>11. CASE \/ Popen \/ AwaitUp \/ StartLoad \/ RunMpstat \/ Finish \/ Overrun
            \/ LoadCaught \/ Signal \/ Stopped
  BY <1>4, <1>11 DEF Popen, AwaitUp, StartLoad, RunMpstat, Finish, Overrun,
       LoadEnds, LoadCaught, Signal, Stopped
<1>12. CASE AwaitTimeout
  <2>1. CASE Prog[ip] = "Await"
    BY <1>2, <1>12, <2>1
    DEF AwaitTimeout, AtStep, ScriptTypes, table, InSweep, Fixed
  <2>2. CASE Prog[ip] # "Await" BY <1>4, <1>12, <2>2 DEF AwaitTimeout
  <2> QED BY <2>1, <2>2
<1>13. CASE GiveUp BY <1>6, <1>13 DEF GiveUp
<1>14. CASE NoLoadgen \/ NoMpstat \/ LoadRaises
  BY <1>5, <1>14 DEF NoLoadgen, NoMpstat, LoadRaises
<1>15. CASE StopTimeout
  <2>1. CASE Prog[ip] = "Wait" BY <1>4, <1>15, <2>1 DEF StopTimeout
  <2>2. CASE Prog[ip] # "Wait" BY <1>3, <1>15, <2>2 DEF StopTimeout
  <2> QED BY <2>1, <2>2
<1>16. CASE EndTrial
  <2>1. Figure \in SUBSET {0, 1} BY DEF Figure, TypeInv, HarnessTypeOK
  <2> QED BY <1>6, <1>16, <2>1 DEF EndTrial
<1>17. CASE \E p \in Alive : ServerUp(p) \/ ServerGone(p) \/ ServerObeys(p) \/ Serve(p)
  BY <1>3, <1>17 DEF ServerUp, ServerGone, ServerObeys, Serve, scriptVars, table
<1>18. CASE Stall BY <1>3, <1>18 DEF Stall, scriptVars, table
<1> QED
  BY <1>7, <1>8, <1>9, <1>10, <1>11, <1>12, <1>13, <1>14, <1>15, <1>16, <1>17,
     <1>18
  DEF HarnessNext, ScriptStep

\* The part of it about the clients and the server of the trial.
ClientTypes ==
    /\ own \in 0..last /\ load \in {"off", "on", "stalled"} /\ by \subseteq 1..last
    /\ val \in {0, 1} /\ printed \in BOOLEAN /\ fed \subseteq Nat

\* Every step leaves the variables of the clients in their types.
LEMMA ClientTypesStep ==
    ASSUME TypeInv, [HarnessNext]_harnessVars
    PROVE  ClientTypes'
<1>1. ClientTypes /\ last \in Nat /\ pt \in Nat /\ Alive \subseteq 1..last
  <2>1. ClientTypes /\ last \in Nat BY DEF TypeInv, HarnessTypeOK, ClientTypes
  <2>2. script \in Selected /\ pt \in 1..(Points + 1) BY DEF TypeInv, HarnessTypeOK
  <2>3. pt \in Nat BY <2>2, SweepFacts
  <2> QED BY <2>1, <2>3 DEF TypeInv, Counted
<1>2. ASSUME UNCHANGED <<own, last, clients>> PROVE ClientTypes'
  BY <1>1, <1>2 DEF ClientTypes, clients
<1>3. CASE UNCHANGED harnessVars BY <1>2, <1>3 DEF harnessVars, clients
<1>4. CASE Popen
  <2>1. printed' \in BOOLEAN BY <1>4, Zenon DEF Popen
  <2>2. /\ own' = last + 1 /\ last' = last + 1 /\ by' = {} /\ val' = 0
        /\ load' = load /\ fed' = fed
    BY <1>4, Zenon DEF Popen
  <2> QED BY <1>1, <2>1, <2>2 DEF ClientTypes
<1>5. CASE StartLoad BY <1>1, <1>5 DEF StartLoad, ClientTypes
<1>6. CASE Finish \/ Overrun
  BY <1>1, <1>6 DEF Finish, Overrun, LoadEnds, ClientTypes
<1>7. CASE LoadCaught BY <1>1, <1>7 DEF LoadCaught, ClientTypes
<1>8. CASE \/ NextPoint \/ SkipPoint \/ SaveTable \/ AwaitUp \/ AwaitTimeout
           \/ GiveUp \/ NoLoadgen \/ RunMpstat \/ NoMpstat \/ LoadRaises
           \/ Signal \/ Stopped \/ StopTimeout \/ EndTrial
  BY <1>2, <1>8 DEF NextPoint, SkipPoint, SaveTable, AwaitUp, AwaitTimeout,
       GiveUp, NoLoadgen, RunMpstat, NoMpstat, LoadRaises, Signal, Stopped,
       StopTimeout, EndTrial, Raise
<1>9. ASSUME NEW p \in Alive, ServerUp(p) \/ ServerGone(p)
      PROVE  ClientTypes'
  BY <1>2, <1>9 DEF ServerUp, ServerGone, scriptVars
<1>10. ASSUME NEW p \in Alive, ServerObeys(p) PROVE ClientTypes'
  BY <1>1, <1>10 DEF ServerObeys, scriptVars, ClientTypes
<1>11. ASSUME NEW p \in Alive, Serve(p) PROVE ClientTypes'
  BY <1>1, <1>11 DEF Serve, scriptVars, ClientTypes
<1>12. CASE Stall BY <1>1, <1>12 DEF Stall, scriptVars, ClientTypes
<1> QED
  BY <1>3, <1>4, <1>5, <1>6, <1>7, <1>8, <1>9, <1>10, <1>11, <1>12
  DEF HarnessNext, ScriptStep

\* The type invariant is inductive.
LEMMA TypeInvStep ==
    ASSUME TypeInv, [HarnessNext]_harnessVars
    PROVE  TypeInv'
<1>1. Fixed BY SweepFixed
<1>2. ScriptTypes' BY <1>1, ScriptTypesStep
<1>3. ClientTypes' BY ClientTypesStep
<1>4. ProcessesTypeOK' /\ Counted' /\ last' \in Nat
  BY ProcShape, ProcTypes DEF TypeInv, HarnessTypeOK
<1>5. /\ script' \in Selected /\ installed' \subseteq Uses'
      /\ missing' \subseteq MayMiss
  BY <1>1 DEF TypeInv, HarnessTypeOK, Fixed, environment
<1> QED
  BY <1>2, <1>3, <1>4, <1>5 DEF TypeInv, HarnessTypeOK, ScriptTypes, ClientTypes

\* A script begins in the type invariant.
LEMMA TypeInvInit == HarnessInit => TypeInv
<1> SUFFICES ASSUME HarnessInit PROVE TypeInv
  OBVIOUS
<1> USE DEF HarnessInit
<1>1. Points \in Nat /\ Trials \in Nat \ {0} /\ Len(Prog) \in Nat BY SweepFacts
<1>2. ProcessesTypeOK /\ Counted
  BY DEF ProcessesInit, ProcessesTypeOK, Counted, Alive
<1>3. ScriptTypes
  <2>1. rows \in Seq(RowSet) OBVIOUS
  <2>2. /\ at = "point" /\ ip = 1 /\ pt = 1 /\ tr = 1
        /\ kept = {} /\ why = "none"
    OBVIOUS
  <2> QED BY <1>1, <2>1, <2>2 DEF ScriptTypes, InSweep
<1>4. ClientTypes
  <2>1. printed \in BOOLEAN BY Zenon
  <2>2. own = 0 /\ last = 0 /\ load = "off" /\ by = {} /\ val = 0 /\ fed = {}
    OBVIOUS
  <2> QED BY <2>1, <2>2 DEF ClientTypes
<1>5. last \in Nat /\ script \in Selected /\ installed \subseteq Uses /\ missing \subseteq MayMiss
  OBVIOUS
<1> QED
  BY <1>2, <1>3, <1>4, <1>5 DEF TypeInv, HarnessTypeOK, ScriptTypes, ClientTypes

\* The variables of the scripts stay in their types, whatever the sweep.
THEOREM HarnessTypeCorrect == HarnessSpec => []HarnessTypeOK
<1>1. TypeInv => HarnessTypeOK BY DEF TypeInv
<1> QED BY <1>1, TypeInvInit, TypeInvStep, PTL DEF HarnessSpec

-----------------------------------------------------------------------------
(***************************************************************************)
(* No server but that of the trial.  NothingLeft and OwnAnswers are not    *)
(* inductive: that a Popen() finds no server but dying ones rests on the   *)
(* wait right before it, hence Quiet.                                      *)
(***************************************************************************)

\* Between a wait for the server and the next Popen(), and outside of the
\* trials, only servers with SIGKILL pending are left.
Quiet ==
    \/ at = "trial" /\ (ip = 1 \/ Prog[ip - 1] \in Waits)
    \/ at \in {"point", "done"}
    \/ why = "empty"
    => Alive \subseteq doomed

\* Any other server is that of the trial.
LastOwn == Alive \ doomed \subseteq {own}

\* Only an abort has a reason.
ReasonOfAbort == why # "none" => at = "aborted"

SafeInv == Quiet /\ LastOwn /\ OwnAnswers /\ ReasonOfAbort

\* A step that starts no server and leaves own alone keeps LastOwn, and
\* keeps the servers dying once they all are.
LEMMA DyingStays ==
    ASSUME TypeInv, ProcStep, last' = last, own' = own
    PROVE  /\ LastOwn => LastOwn'
           /\ Alive \subseteq doomed => Alive' \subseteq doomed'
<1>0. last \in Nat BY DEF TypeInv, HarnessTypeOK
<1> USE DEF LastOwn, Alive
<1>1. CASE UNCHANGED procVars BY <1>1 DEF procVars
<1>2. CASE \E p \in Alive : Listens(p) \/ Exits(p) BY <1>2 DEF Listens, Exits
<1>3. CASE Tell(own) \/ KillProc(own) BY <1>3 DEF Tell, KillProc
<1> QED BY <1>0, <1>1, <1>2, <1>3 DEF ProcStep

\* kill() leaves no server but dying ones.
LEMMA KillsOwn ==
    ASSUME LastOwn, KillProc(own)
    PROVE  Alive' \subseteq doomed'
BY DEF LastOwn, KillProc, Alive

\* A step of a trial that starts no server and is no wait.
LEMMA PlainStep ==
    ASSUME TypeInv, SafeInv, Fixed,  ProcStep, last' = last,
           NEW steps, steps \cap Waits = {}, AtStep(steps), GoOn,
           UNCHANGED <<own, by, why>>
    PROVE  SafeInv'
<1>1. LastOwn' BY DyingStays DEF SafeInv
<1>2. ip \in Nat /\ at = "trial" /\ Prog[ip] \notin Waits
  <2>1. script \in Selected /\ ip \in 1..(Len(Prog) + 1) BY DEF TypeInv, HarnessTypeOK
  <2> QED BY <2>1, SweepFacts DEF AtStep
<1>3. ip >= 1 BY DEF TypeInv, HarnessTypeOK
<1>4. ip' = ip + 1 /\ at' = "trial" /\ Prog' = Prog BY <1>2 DEF GoOn, Fixed
<1>5. why' = "none" BY <1>2 DEF SafeInv, ReasonOfAbort
<1>6. Quiet' BY <1>2, <1>3, <1>4, <1>5 DEF Quiet
<1> QED BY <1>1, <1>4, <1>5, <1>6 DEF SafeInv, OwnAnswers, ReasonOfAbort

\* A step after which only dying servers are left, and that starts none.
LEMMA QuietStep ==
    ASSUME SafeInv, Alive' \subseteq doomed', UNCHANGED <<own, by>>,
           why' # "none" => at' = "aborted"
    PROVE  SafeInv'
BY DEF SafeInv, Quiet, LastOwn, OwnAnswers, ReasonOfAbort

\* SafeInv is inductive: one step for each action of the script and of the
\* servers.
LEMMA SafeInvStep ==
    ASSUME TypeInv, SafeInv, [HarnessNext]_harnessVars
    PROVE  SafeInv'
<1>1. Fixed /\ ProcStep BY SweepFixed, ProcShape
<1>2. /\ WellFormed(Prog) /\ Len(Prog) \in Nat /\ ip \in 1..(Len(Prog) + 1)
      /\ last \in Nat /\ own \in 0..last /\ Alive \subseteq 1..last
  <2>1. script \in Selected /\ ip \in 1..(Len(Prog) + 1) /\ last \in Nat /\ own \in 0..last
    BY DEF TypeInv, HarnessTypeOK
  <2> QED BY <2>1, SweepFacts DEF TypeInv, Counted
<1>3. ASSUME UNCHANGED <<at, ip, own, last, why>>, by' \subseteq {own}
      PROVE  SafeInv'
  <2>1. LastOwn' /\ (Alive \subseteq doomed => Alive' \subseteq doomed')
    BY <1>1, <1>3, DyingStays DEF SafeInv
  <2>2. Quiet' BY <1>1, <1>3, <2>1 DEF SafeInv, Quiet, Fixed
  <2> QED BY <1>3, <2>1, <2>2 DEF SafeInv, OwnAnswers, ReasonOfAbort
<1>4. CASE UNCHANGED harnessVars
  BY <1>3, <1>4 DEF harnessVars, SafeInv, OwnAnswers
<1>5. CASE NextPoint \/ SkipPoint \/ SaveTable
  <2>1. /\ at = "point" /\ why' = why /\ at' \in {"point", "trial", "done"}
        /\ UNCHANGED <<own, by>> /\ UNCHANGED procVars
    BY <1>5 DEF NextPoint, SkipPoint, SaveTable, clients
  <2>2. Alive' \subseteq doomed' BY <2>1 DEF SafeInv, Quiet, procVars, Alive
  <2>3. why = "none" BY <2>1 DEF SafeInv, ReasonOfAbort
  <2> QED BY <2>1, <2>2, <2>3, QuietStep
<1>6. CASE Popen
  <2>1. /\ at = "trial" /\ ip <= Len(Prog) /\ Prog[ip] = "Popen"
        /\ Start(last + 1) /\ own' = last + 1 /\ last' = last + 1 /\ by' = {}
        /\ ip' = ip + 1 /\ at' = at /\ why' = why
    BY <1>6, Zenon DEF Popen, AtStep, GoOn
  <2>2. ip = 1 \/ Prog[ip - 1] \in Waits
    <3>1. CASE ip # 1
      <4>1. ip \in 2..Len(Prog) BY <1>2, <2>1, <3>1
      <4> QED BY <1>2, <2>1, <4>1 DEF WellFormed
    <3> QED BY <3>1
  <2>3. Alive \subseteq doomed BY <2>1, <2>2 DEF SafeInv, Quiet
  <2>4. LastOwn' BY <2>1, <2>3 DEF LastOwn, Start, Alive
  <2>5. why = "none" BY <2>1 DEF SafeInv, ReasonOfAbort
  <2>6. Quiet'
    <3>1. ip' # 1 /\ Prog'[ip' - 1] \notin Waits
      BY <1>1, <1>2, <2>1 DEF Fixed, Waits
    <3> QED BY <2>1, <2>5, <3>1 DEF Quiet
  <2> QED BY <2>1, <2>4, <2>5, <2>6 DEF SafeInv, OwnAnswers, ReasonOfAbort
<1>7. CASE \/ AwaitUp \/ RunMpstat \/ StartLoad \/ Finish \/ Overrun
           \/ LoadCaught \/ Signal
  <2>1. PICK steps : /\ steps \cap Waits = {} /\ AtStep(steps) /\ GoOn
                     /\ UNCHANGED <<own, by, why>> /\ last' = last
    <3>1. \A st \in {{"Await", "AwaitAny"}, {"Mpstat"}, Loads, Finishes,
                     {"FinishKills"}, {"FinishCaught"}, {"Signal"}} :
              st \cap Waits = {}
      BY DEF Loads, Finishes, Waits
    <3>2. CASE AwaitUp BY <3>1, <3>2 DEF AwaitUp, clients
    <3>3. CASE RunMpstat BY <3>1, <3>3 DEF RunMpstat, clients
    <3>4. CASE StartLoad BY <3>1, <3>4 DEF StartLoad, clients
    <3>5. CASE Finish BY <3>1, <3>5 DEF Finish, LoadEnds, clients
    <3>6. CASE Overrun BY <3>1, <3>6 DEF Overrun, LoadEnds, clients
    <3>7. CASE LoadCaught BY <3>1, <3>7 DEF LoadCaught, clients
    <3>8. CASE Signal BY <3>1, <3>8 DEF Signal, clients
    <3> QED BY <1>7, <3>2, <3>3, <3>4, <3>5, <3>6, <3>7, <3>8
  <2> QED BY <1>1, <2>1, PlainStep
<1>8. CASE AwaitTimeout
  <2>1. CASE Prog[ip] = "Await"
    <3>1. /\ at = "trial" /\ at' = "giveup" /\ UNCHANGED <<ip, own, by, last, why>>
          /\ UNCHANGED procVars
      BY <1>8, <2>1 DEF AwaitTimeout, AtStep, clients
    <3>2. why = "none" BY <3>1 DEF SafeInv, ReasonOfAbort
    <3> QED BY <3>1, <3>2
            DEF SafeInv, Quiet, LastOwn, OwnAnswers, ReasonOfAbort, procVars, Alive
  <2>2. CASE Prog[ip] # "Await"
    <3>1. {"Await", "AwaitAny"} \cap Waits = {} BY DEF Waits
    <3>2. /\ AtStep({"Await", "AwaitAny"}) /\ GoOn
          /\ UNCHANGED <<own, by, why>> /\ last' = last
      BY <1>8, <2>2 DEF AwaitTimeout, clients
    <3> QED BY <1>1, <3>1, <3>2, PlainStep
  <2> QED BY <2>1, <2>2
<1>9. ASSUME NEW vals, at \in {"trial", "giveup"}, Return(vals),
             UNCHANGED <<own, by>>, Alive' \subseteq doomed'
      PROVE  SafeInv'
  <2>1. why = "none" BY <1>9 DEF SafeInv, ReasonOfAbort
  <2>2. why' # "none" => at' = "aborted"
    BY <1>9, <2>1 DEF Return, NextTrial, EndPoint, EmptyPoint
  <2> QED BY <1>9, <2>2, QuietStep
<1>10. CASE GiveUp
  <2>1. Alive' \subseteq doomed' BY <1>10, KillsOwn DEF GiveUp, SafeInv
  <2> QED BY <1>9, <1>10, <2>1 DEF GiveUp, clients
<1>11. CASE EndTrial
  <2>1. at = "trial" /\ ip = Len(Prog) + 1 BY <1>2, <1>11 DEF EndTrial
  <2>2. Prog[ip - 1] \in Waits BY <1>2, <2>1 DEF WellFormed
  <2>3. Alive \subseteq doomed BY <2>1, <2>2 DEF SafeInv, Quiet
  <2>4. Alive' \subseteq doomed' BY <1>11, <2>3 DEF EndTrial, procVars, Alive
  <2> QED BY <1>9, <1>11, <2>1, <2>4 DEF EndTrial, clients
<1>12. CASE NoLoadgen \/ NoMpstat \/ LoadRaises
  <2>1. PICK reason \in {"loadgen", "mpstat", "load"} : Raise(reason)
    BY <1>12 DEF NoLoadgen, NoMpstat, LoadRaises
  <2>2. /\ at' = "aborted" /\ why' = reason /\ UNCHANGED <<procVars, own, by>>
    BY <2>1 DEF Raise, clients
  <2> QED BY <2>2 DEF SafeInv, Quiet, LastOwn, OwnAnswers, ReasonOfAbort, procVars, Alive
<1>13. CASE Stopped
  <2>1. /\ at = "trial" /\ own \notin Alive /\ at' = at /\ why' = why
        /\ UNCHANGED <<procVars, own, by>>
    BY <1>13 DEF Stopped, AtStep, GoOn, clients
  <2>2. Alive' \subseteq doomed' BY <2>1 DEF SafeInv, LastOwn, procVars, Alive
  <2>3. why = "none" BY <2>1 DEF SafeInv, ReasonOfAbort
  <2> QED BY <2>1, <2>2, <2>3, QuietStep
<1>14. CASE StopTimeout
  <2>1. /\ at = "trial" /\ KillProc(own) /\ at' = at /\ why' = why
        /\ UNCHANGED <<own, by>>
    BY <1>14 DEF StopTimeout, AtStep, GoOn, clients
  <2>2. Alive' \subseteq doomed' BY <2>1, KillsOwn DEF SafeInv
  <2>3. why = "none" BY <2>1 DEF SafeInv, ReasonOfAbort
  <2> QED BY <2>1, <2>2, <2>3, QuietStep
<1>15. ASSUME NEW p \in Alive, ServerUp(p) \/ ServerGone(p) \/ ServerObeys(p)
       PROVE  SafeInv'
  BY <1>3, <1>15
  DEF ServerUp, ServerGone, ServerObeys, scriptVars, clients, SafeInv, OwnAnswers
<1>16. ASSUME NEW p \in Alive, Serve(p) PROVE SafeInv'
  <2>1. p = own BY <1>16 DEF Serve, Answering, SafeInv, LastOwn, Alive
  <2> QED BY <1>3, <1>16, <2>1 DEF Serve, scriptVars, SafeInv, OwnAnswers
<1>17. CASE Stall BY <1>3, <1>17 DEF Stall, scriptVars, SafeInv, OwnAnswers
<1> QED
  BY <1>4, <1>5, <1>6, <1>7, <1>8, <1>10, <1>11, <1>12, <1>13, <1>14, <1>15,
     <1>16, <1>17
  DEF HarnessNext, ScriptStep

\* The invariant of every run of a script.
LEMMA Safe == HarnessSpec => [](TypeInv /\ SafeInv)
<1>1. HarnessInit => SafeInv
  BY DEF HarnessInit, ProcessesInit, SafeInv, Quiet, LastOwn, OwnAnswers,
         ReasonOfAbort, Alive
<1>2. TypeInv /\ SafeInv /\ [HarnessNext]_harnessVars => TypeInv' /\ SafeInv'
  BY TypeInvStep, SafeInvStep
<1> QED BY <1>1, <1>2, TypeInvInit, PTL DEF HarnessSpec

\* A script measures the server it has started and no other: none that an
\* earlier trial left behind answers its clients.
THEOREM OnlyOwnServerAnswers == HarnessSpec => []OwnAnswers
<1>1. SafeInv => OwnAnswers BY DEF SafeInv
<1> QED BY <1>1, Safe, PTL

\* No trial, whatever its servers do, leaves one running that is not being
\* killed, once the script or the trial is over.
THEOREM NoServerLeft == HarnessSpec => []NothingLeft
<1>1. SafeInv => NothingLeft BY DEF SafeInv, Quiet, LastOwn, NothingLeft
<1> QED BY <1>1, Safe, PTL

-----------------------------------------------------------------------------
(* The scripts implement Campaign.                                         *)

\* The points of a table are a sequence as long as the table.
LEMMA PointsOfSeq ==
    ASSUME NEW R, \A r \in R : r.pt \in Nat, NEW rs \in Seq(R)
    PROVE  /\ PointsOf(rs) \in Seq(Nat) /\ Len(PointsOf(rs)) = Len(rs)
           /\ \A i \in 1..Len(rs) : PointsOf(rs)[i] = rs[i].pt
<1>1. Len(rs) \in Nat /\ DOMAIN rs = 1..Len(rs) BY LenProperties
<1>2. \A i \in 1..Len(rs) : rs[i].pt \in Nat BY ElementOfSeq
<1>3. PointsOf(rs) \in [1..Len(rs) -> Nat] BY <1>1, <1>2 DEF PointsOf
<1>4. PointsOf(rs) \in Seq(Nat)
  <2>1. [1..Len(rs) -> Nat] \in {[1..n -> Nat] : n \in Nat} BY <1>1
  <2>2. PointsOf(rs) \in UNION {[1..n -> Nat] : n \in Nat} BY <1>3, <2>1
  <2>3. Seq(Nat) = UNION {[1..n -> Nat] : n \in Nat} BY SeqDef
  <2> QED BY <2>2, <2>3
<1>5. DOMAIN PointsOf(rs) = 1..Len(PointsOf(rs)) /\ Len(PointsOf(rs)) \in Nat
  BY <1>4, LenProperties
<1>6. DOMAIN PointsOf(rs) = 1..Len(rs) BY <1>3
<1>7. Len(PointsOf(rs)) = Len(rs)
  <2>1. \A m, n \in Nat : m < n => n \in 1..n /\ n \notin 1..m OBVIOUS
  <2>2. ~(Len(PointsOf(rs)) < Len(rs)) BY <1>1, <1>5, <1>6, <2>1
  <2>3. ~(Len(rs) < Len(PointsOf(rs))) BY <1>1, <1>5, <1>6, <2>1
  <2>4. \A m, n \in Nat : ~(m < n) /\ ~(n < m) => m = n OBVIOUS
  <2> QED BY <1>1, <1>5, <2>2, <2>3, <2>4, Zenon
<1>8. \A i \in 1..Len(rs) : PointsOf(rs)[i] = rs[i].pt BY <1>1 DEF PointsOf
<1> QED BY <1>4, <1>7, <1>8

\* A new row adds its point to the points of the table.
LEMMA PointsOfAppend ==
    ASSUME NEW R, \A r \in R : r.pt \in Nat, NEW rs \in Seq(R), NEW r \in R
    PROVE  PointsOf(Append(rs, r)) = Append(PointsOf(rs), r.pt)
<1> DEFINE a == PointsOf(Append(rs, r))
           b == Append(PointsOf(rs), r.pt)
<1>0. Len(rs) \in Nat BY LenProperties
<1>1. /\ Append(rs, r) \in Seq(R) /\ Len(Append(rs, r)) = Len(rs) + 1
      /\ \A i \in 1..Len(rs) : Append(rs, r)[i] = rs[i]
      /\ Append(rs, r)[Len(rs) + 1] = r
  BY AppendProperties
<1>2. /\ PointsOf(rs) \in Seq(Nat) /\ Len(PointsOf(rs)) = Len(rs)
      /\ \A i \in 1..Len(rs) : PointsOf(rs)[i] = rs[i].pt
  BY PointsOfSeq
<1>3. /\ a \in Seq(Nat) /\ Len(a) = Len(rs) + 1
      /\ \A i \in 1..(Len(rs) + 1) : a[i] = Append(rs, r)[i].pt
  BY <1>1, PointsOfSeq
<1>4. /\ b \in Seq(Nat) /\ Len(b) = Len(rs) + 1
      /\ \A i \in 1..Len(rs) : b[i] = PointsOf(rs)[i]
      /\ b[Len(rs) + 1] = r.pt
  BY <1>2, AppendProperties
<1> HIDE DEF a, b
<1>5. \A i \in 1..(Len(rs) + 1) : a[i] = b[i]
  <2> TAKE i \in 1..(Len(rs) + 1)
  <2>1. CASE i = Len(rs) + 1 BY <1>0, <1>1, <1>3, <1>4, <2>1
  <2>2. CASE i \in 1..Len(rs) BY <1>1, <1>2, <1>3, <1>4, <2>2
  <2> QED BY <1>0, <2>1, <2>2
<1>6. a = b BY <1>3, <1>4, <1>5, SeqEqual
<1> QED BY <1>6 DEF a, b

\* A step that does not end a point or the script is a stutter of Campaign.
LEMMA SweepStutter ==
    ASSUME Fixed, UNCHANGED <<pt, rows, Phase>>
    PROVE  UNCHANGED Sweep!campaignVars
BY DEF Fixed, Sweep!campaignVars

\* The end of a point: one more point, with a row or without.
LEMMA SweepVisit ==
    ASSUME TypeInv, Fixed, pt \in 1..Points, pt' = pt + 1,
           Phase = "running", Phase' = "running",
           NEW st \in {"OK", "zeros", "ERROR", "FD_SETSIZE_EXCEEDED"},
           rows' \in {rows, Row(st)}
    PROVE  Sweep!CampaignNext
<1>1. Points \in Nat BY SweepFacts DEF TypeInv, HarnessTypeOK
<1>2. (pt - 1) + 1 = pt BY <1>1
<1>3. PointsOf(rows') \in {PointsOf(rows), Append(PointsOf(rows), pt)}
  <2>1. rows \in Seq(RowSet) BY DEF TypeInv, HarnessTypeOK
  <2>2. \A r \in RowSet : r.pt \in Nat BY <1>1 DEF RowSet
  <2>3. [pt |-> pt, status |-> st] \in RowSet BY <1>1 DEF RowSet
  <2>4. PointsOf(Row(st)) = Append(PointsOf(rows), pt)
    BY <2>1, <2>2, <2>3, PointsOfAppend DEF Row
  <2> QED BY <2>4
<1>4. Sweep!Visit((pt - 1) + 1)
  BY <1>1, <1>2, <1>3 DEF Sweep!Visit, Fixed
<1> QED BY <1>4 DEF Sweep!CampaignNext

\* Every step of a script is a step of Campaign or a stutter.
LEMMA SweepStep ==
    ASSUME TypeInv, SafeInv, [HarnessNext]_harnessVars
    PROVE  [Sweep!CampaignNext]_Sweep!campaignVars
<1>1. Fixed BY SweepFixed
<1>2. /\ Points \in Nat /\ pt \in 1..(Points + 1)
      /\ Rules.empty \in {"none", "zeros", "ERROR", "raise"}
  BY SweepFacts DEF TypeInv, HarnessTypeOK
<1>3. ASSUME UNCHANGED <<at, pt, rows>> PROVE UNCHANGED Sweep!campaignVars
  BY <1>1, <1>3, SweepStutter DEF Phase
<1>4. ASSUME at \in {"trial", "giveup"}, at' \in {"trial", "giveup"},
             UNCHANGED <<pt, rows>>
      PROVE  UNCHANGED Sweep!campaignVars
  <2>1. Phase = "running" /\ Phase' = "running" BY <1>4 DEF Phase
  <2> QED BY <1>1, <1>4, <2>1, SweepStutter
<1>5. ASSUME at \in {"trial", "giveup"}, at' = "aborted", UNCHANGED <<pt, rows>>,
             Fragile
      PROVE  Sweep!CampaignNext
  <2>1. Phase = "running" /\ Phase' = "lost" BY <1>5 DEF Phase
  <2> QED BY <1>1, <1>5, <2>1 DEF Sweep!CampaignNext, Sweep!Lose, Fixed
<1>6. ASSUME NEW vals, at \in {"trial", "giveup"}, Return(vals)
      PROVE  [Sweep!CampaignNext]_Sweep!campaignVars
  <2>1. CASE NextTrial(vals) BY <1>4, <1>6, <2>1 DEF NextTrial
  <2>2. CASE EmptyPoint(vals) BY <1>5, <1>6, <2>2 DEF EmptyPoint, table, Fragile
  <2>3. CASE EndPoint(vals)
    <3>1. pt \in 1..Points BY <1>2, <1>6 DEF TypeInv, InSweep
    <3>2. Phase = "running" /\ Phase' = "running"
      BY <1>6, <2>3 DEF EndPoint, Phase
    <3>3. \E st \in {"OK", "zeros", "ERROR", "FD_SETSIZE_EXCEEDED"} :
              rows' \in {rows, Row(st)}
      BY <1>2, <2>3 DEF EndPoint
    <3>4. pt' = pt + 1 BY <2>3 DEF EndPoint
    <3> QED BY <1>1, <3>1, <3>2, <3>3, <3>4, SweepVisit
  <2> QED BY <1>6, <2>1, <2>2, <2>3 DEF Return
<1>7. CASE UNCHANGED harnessVars BY <1>3, <1>7 DEF harnessVars
<1>8. CASE NextPoint
  <2>1. Phase = "running" /\ Phase' = "running" BY <1>8 DEF NextPoint, Phase
  <2> QED BY <1>1, <1>8, <2>1, SweepStutter DEF NextPoint
<1>9. CASE SkipPoint
  <2>1. /\ at = "point" /\ at' = at /\ pt <= Points /\ pt' = pt + 1
        /\ rows' \in {rows, Row("FD_SETSIZE_EXCEEDED")}
    BY <1>9 DEF SkipPoint
  <2>2. Phase = "running" /\ Phase' = "running" BY <2>1 DEF Phase
  <2>3. pt \in 1..Points BY <1>2, <2>1
  <2> QED BY <1>1, <2>1, <2>2, <2>3, SweepVisit
<1>10. CASE SaveTable
  <2>1. /\ at = "point" /\ at' = "done" /\ pt = Points + 1 /\ UNCHANGED <<pt, rows>>
    BY <1>2, <1>10 DEF SaveTable, table
  <2>2. Phase = "running" /\ Phase' = "saved" BY <2>1 DEF Phase
  <2> QED BY <1>1, <1>2, <2>1, <2>2 DEF Sweep!CampaignNext, Sweep!Save, Fixed
<1>11. CASE \/ Popen \/ AwaitUp \/ AwaitTimeout \/ StartLoad \/ RunMpstat
            \/ Finish \/ Overrun \/ LoadCaught \/ Signal \/ Stopped \/ StopTimeout
  <2>1. at = "trial" /\ at' \in {"trial", "giveup"} /\ UNCHANGED <<pt, rows>>
    BY <1>11 DEF Popen, AwaitUp, AwaitTimeout, StartLoad, RunMpstat, Finish,
         Overrun, LoadEnds, LoadCaught, Signal, Stopped, StopTimeout, AtStep,
         GoOn, table
  <2> QED BY <1>4, <2>1
<1>12. CASE NoLoadgen \/ NoMpstat \/ LoadRaises
  <2>1. at = "trial" /\ at' = "aborted" /\ UNCHANGED <<pt, rows>> /\ ip \in DOMAIN Prog
    <3>1. /\ at = "trial" /\ at' = "aborted" /\ UNCHANGED <<pt, rows>>
          /\ ip <= Len(Prog)
      BY <1>12 DEF NoLoadgen, NoMpstat, LoadRaises, Raise, AtStep, table
    <3>2. WellFormed(Prog) /\ Len(Prog) \in Nat /\ ip \in 1..(Len(Prog) + 1)
      BY SweepFacts DEF TypeInv, HarnessTypeOK
    <3> QED BY <3>1, <3>2 DEF WellFormed
  <2>2. CASE NoLoadgen
    <3>1. "loadgen" \in Uses \ installed
      BY <2>1, <2>2 DEF NoLoadgen, NeedsLoadgen, Uses
    <3> QED BY <1>5, <2>1, <3>1 DEF Fragile
  <2>3. CASE NoMpstat
    <3>1. "mpstat" \in Uses \ installed
      BY <2>1, <2>3 DEF NoMpstat, AtStep, Uses
    <3> QED BY <1>5, <2>1, <3>1 DEF Fragile
  <2>4. CASE LoadRaises
    BY <1>5, <2>1, <2>4 DEF LoadRaises, AtStep, Fragile
  <2> QED BY <1>12, <2>2, <2>3, <2>4
<1>13. CASE GiveUp BY <1>6, <1>13 DEF GiveUp
<1>14. CASE EndTrial BY <1>6, <1>14 DEF EndTrial
<1>15. CASE \E p \in Alive : ServerUp(p) \/ ServerGone(p) \/ ServerObeys(p) \/ Serve(p)
  BY <1>3, <1>15 DEF ServerUp, ServerGone, ServerObeys, Serve, scriptVars, table
<1>16. CASE Stall BY <1>3, <1>16 DEF Stall, scriptVars, table
<1> QED
  BY <1>7, <1>8, <1>9, <1>10, <1>11, <1>12, <1>13, <1>14, <1>15, <1>16
  DEF HarnessNext, ScriptStep

\* Every script, for every sweep, is a Campaign: points in order, at most one
\* row each, and a table that is written whole or, by a fragile script only,
\* not at all.
THEOREM ScriptsImplementCampaign == HarnessSpec => ImplementsCampaign
<1>1. HarnessInit => Sweep!CampaignInit
  <2> SUFFICES ASSUME HarnessInit PROVE Sweep!CampaignInit
    OBVIOUS
  <2>1. Points \in Nat BY SweepFacts DEF HarnessInit
  <2>2. pt = 1 /\ rows = <<>> /\ at = "point" BY DEF HarnessInit
  <2>3. Phase = "running" BY <2>2 DEF Phase
  <2>4. PointsOf(rows) = <<>> BY <2>2 DEF PointsOf
  <2>5. Fragile \in BOOLEAN BY DEF Fragile
  <2> QED BY <2>1, <2>2, <2>3, <2>4, <2>5 DEF Sweep!CampaignInit
<1> QED
  BY <1>1, SweepStep, Safe, PTL
  DEF HarnessSpec, ImplementsCampaign, Sweep!CampaignSpec

-----------------------------------------------------------------------------
(* The rows of the table.                                                  *)

RowPoints(rs) == {rs[i].pt : i \in DOMAIN rs}

\* The points up to the m-th that get a row in any case.
Expected(m) == {n \in 1..m : ~Unbuilt(n) /\ (OverLimit(n) => Rules.limit = "row")}

\* What was kept, answered or counted during a trial is about its point: a
\* new point begins with nothing kept, a new trial with nothing answered.
ValuesOfPoint ==
    /\ kept \subseteq Rules.keep
    /\ at \in {"trial", "giveup"} =>
          ~Unbuilt(pt) /\ ~OverLimit(pt) /\ (1 \in kept => pt \in fed)
    /\ at = "trial" /\ ip > 1 => (by # {} \/ val = 1 => pt \in fed)

\* The two parts of TableFaithful, the second one for the points so far.
AnsweredRows ==
    Rules.keep = {1} =>
        \A i \in DOMAIN rows : rows[i].status = "OK" => rows[i].pt \in fed
RowsSoFar == Rules.empty \in {"zeros", "ERROR"} => RowPoints(rows) = Expected(pt - 1)

TableInv == ValuesOfPoint /\ AnsweredRows /\ RowsSoFar

\* A row more.
LEMMA RowAdded ==
    ASSUME NEW rs \in Seq(RowSet), NEW r \in RowSet
    PROVE  /\ RowPoints(Append(rs, r)) = RowPoints(rs) \cup {r.pt}
           /\ \A i \in DOMAIN Append(rs, r) :
                 Append(rs, r)[i] = r \/ \E j \in DOMAIN rs : Append(rs, r)[i] = rs[j]
<1> DEFINE n == Len(rs)
           t == Append(rs, r)
<1>1. n \in Nat /\ DOMAIN rs = 1..n BY LenProperties
<1>2. /\ t \in Seq(RowSet) /\ Len(t) = n + 1
      /\ \A i \in 1..n : t[i] = rs[i]
      /\ t[n + 1] = r
  BY AppendProperties
<1>3. DOMAIN t = 1..(n + 1) BY <1>2, LenProperties
<1> HIDE DEF n, t
<1>4. \A i \in DOMAIN t : i \in DOMAIN rs \/ i = n + 1 BY <1>1, <1>3
<1>5. \A i \in DOMAIN rs : i \in DOMAIN t BY <1>1, <1>3
<1>6. n + 1 \in DOMAIN t BY <1>1, <1>3
<1>7. RowPoints(t) = RowPoints(rs) \cup {r.pt}
  BY <1>1, <1>2, <1>4, <1>5, <1>6, Zenon DEF RowPoints
<1>8. \A i \in DOMAIN t : t[i] = r \/ \E j \in DOMAIN rs : t[i] = rs[j]
  BY <1>1, <1>2, <1>4, Zenon
<1> QED BY <1>7, <1>8 DEF t

\* The points before m and the point m itself.
LEMMA ExpectedNext ==
    ASSUME NEW m \in Nat, m > 0
    PROVE  Expected(m) = Expected(m - 1) \cup
              (IF ~Unbuilt(m) /\ (OverLimit(m) => Rules.limit = "row") THEN {m} ELSE {})
<1>1. 1..m = 1..(m - 1) \cup {m} OBVIOUS
<1> QED BY <1>1, Zenon DEF Expected

\* No step changes which points are left out.
LEMMA PointFixed ==
    ASSUME Fixed, pt' = pt
    PROVE  Unbuilt(pt)' = Unbuilt(pt) /\ OverLimit(pt)' = OverLimit(pt)
BY DEF Fixed, environment, Unbuilt, OverLimit, Server, Level, Width, Rules

\* A step that adds no row keeps the rows faithful.
LEMMA RowsKept ==
    ASSUME AnsweredRows, RowsSoFar, Fixed, UNCHANGED <<rows, pt>>, fed \subseteq fed'
    PROVE  AnsweredRows' /\ RowsSoFar'
<1>1. AnsweredRows' BY DEF AnsweredRows, Fixed
<1>2. Expected(pt - 1)' = Expected(pt - 1)
  BY DEF Fixed, environment, Unbuilt, OverLimit, Expected, Server, Level, Width, Rules
<1> QED BY <1>1, <1>2 DEF RowsSoFar, RowPoints, Fixed

\* The end of a point with the row it must have keeps them faithful.
LEMMA RowVisit ==
    ASSUME TypeInv, AnsweredRows, RowsSoFar, Fixed, pt \in 1..Points, pt' = pt + 1,
           NEW st \in {"OK", "zeros", "ERROR", "FD_SETSIZE_EXCEEDED"},
           rows' \in {rows, Row(st)}, fed' = fed,
           rows' # rows /\ st = "OK" /\ Rules.keep = {1} => pt \in fed,
           Rules.empty \in {"zeros", "ERROR"} =>
               rows' = IF ~Unbuilt(pt) /\ (OverLimit(pt) => Rules.limit = "row")
                       THEN Row(st) ELSE rows
    PROVE  AnsweredRows' /\ RowsSoFar'
<1> DEFINE r == [pt |-> pt, status |-> st]
<1>1. rows \in Seq(RowSet) /\ r \in RowSet /\ r.pt = pt /\ r.status = st
  BY DEF TypeInv, HarnessTypeOK, RowSet
<1>2. rows' = rows \/ rows' = Append(rows, r) BY DEF Row
<1> HIDE DEF r
<1>3. AnsweredRows'
  <2>1. CASE rows' = rows BY <2>1 DEF AnsweredRows, Fixed
  <2>2. CASE rows' # rows
    <3>1. rows' = Append(rows, r) BY <1>2, <2>2
    <3>2. ASSUME NEW i \in DOMAIN rows', Rules.keep = {1}, rows'[i].status = "OK"
          PROVE  rows'[i].pt \in fed
      <4>1. rows'[i] = r \/ \E j \in DOMAIN rows : rows'[i] = rows[j]
        BY <1>1, <3>1, <3>2, RowAdded
      <4> QED BY <1>1, <2>2, <3>2, <4>1 DEF AnsweredRows
    <3> QED BY <3>2 DEF AnsweredRows, Fixed
  <2> QED BY <2>1, <2>2
<1>4. ASSUME Rules.empty \in {"zeros", "ERROR"}
      PROVE  RowPoints(rows') = Expected(pt)
  <2>1. RowPoints(rows) = Expected(pt - 1) BY <1>4 DEF RowsSoFar
  <2>2. Expected(pt) = Expected(pt - 1) \cup
              (IF ~Unbuilt(pt) /\ (OverLimit(pt) => Rules.limit = "row") THEN {pt} ELSE {})
    BY ExpectedNext
  <2>3. CASE ~Unbuilt(pt) /\ (OverLimit(pt) => Rules.limit = "row")
    <3>1. rows' = Append(rows, r) BY <1>4, <2>3 DEF Row, r
    <3>2. RowPoints(rows') = RowPoints(rows) \cup {pt} BY <1>1, <3>1, RowAdded
    <3> QED BY <2>1, <2>2, <2>3, <3>2
  <2>4. CASE ~(~Unbuilt(pt) /\ (OverLimit(pt) => Rules.limit = "row"))
    <3>1. rows' = rows BY <1>4, <2>4
    <3> QED BY <2>1, <2>2, <2>4, <3>1
  <2> QED BY <2>3, <2>4
<1>5. RowsSoFar'
  <2>1. pt' - 1 = pt OBVIOUS
  <2>2. Expected(pt - 1)' = Expected(pt)
    BY <2>1 DEF Fixed, environment, Unbuilt, OverLimit, Expected, Server, Level, Width, Rules
  <2> QED BY <1>4, <2>2 DEF RowsSoFar, RowPoints, Fixed
<1> QED BY <1>3, <1>5

\* A step of the trial, of its servers or of its clients.
LEMMA DuringTrial ==
    ASSUME TypeInv, TableInv, Fixed, UNCHANGED table, fed \subseteq fed',
           \/ at' \notin {"point", "trial", "giveup"}
           \/ at \in {"trial", "giveup"} /\ at' \in {"trial", "giveup"}
           \/ at = "point" /\ at' = "point",
           at' = "trial" /\ ip' > 1 => (by' # {} \/ val' = 1 => pt \in fed')
    PROVE  TableInv'
<1>1. AnsweredRows' /\ RowsSoFar' BY RowsKept DEF TableInv, table
<1>2. Unbuilt(pt)' = Unbuilt(pt) /\ OverLimit(pt)' = OverLimit(pt)
  BY PointFixed DEF table
<1>3. kept' \subseteq Rules' .keep BY DEF table, TableInv, ValuesOfPoint, Fixed
<1>4. at' \in {"trial", "giveup"} =>
          ~Unbuilt(pt) /\ ~OverLimit(pt) /\ (1 \in kept => pt \in fed)
  BY DEF TableInv, ValuesOfPoint
<1>5. ValuesOfPoint'
  BY <1>2, <1>3, <1>4 DEF ValuesOfPoint, table
<1> QED BY <1>1, <1>5 DEF TableInv

\* A trial returns values of its own point.
LEMMA ReturnTable ==
    ASSUME TypeInv, TableInv, Fixed, NEW vals \in SUBSET {0, 1}, Return(vals),
           at \in {"trial", "giveup"}, 1 \in vals => pt \in fed, fed' = fed
    PROVE  TableInv'
<1>1. /\ kept \subseteq Rules.keep /\ ~Unbuilt(pt) /\ ~OverLimit(pt)
      /\ 1 \in kept => pt \in fed
  BY DEF TableInv, ValuesOfPoint
<1>2. /\ Keep(vals) \subseteq Rules.keep
      /\ 1 \in Keep(vals) => pt \in fed
  BY <1>1 DEF Keep
<1>3. CASE NextTrial(vals)
  <2>1. AnsweredRows' /\ RowsSoFar' BY <1>3, RowsKept DEF TableInv, NextTrial
  <2>2. Unbuilt(pt)' = Unbuilt(pt) /\ OverLimit(pt)' = OverLimit(pt)
    BY <1>3, PointFixed DEF NextTrial
  <2>3. at' = "trial" /\ ip' = 1 /\ kept' = Keep(vals) /\ pt' = pt
    BY <1>3 DEF NextTrial
  <2>4. ValuesOfPoint' BY <1>1, <1>2, <2>2, <2>3 DEF ValuesOfPoint, Fixed
  <2> QED BY <2>1, <2>4 DEF TableInv
<1>4. CASE EndPoint(vals)
  <2>1. pt \in 1..Points BY SweepFacts DEF TypeInv, InSweep, HarnessTypeOK
  <2> DEFINE st == IF Keep(vals) # {} THEN "OK" ELSE
                     IF Rules.empty = "none" THEN "zeros" ELSE Rules.empty
  <2>2. Rules.empty \in {"none", "zeros", "ERROR", "raise"}
    BY SweepFacts DEF TypeInv, HarnessTypeOK
  <2>3. /\ st \in {"OK", "zeros", "ERROR", "FD_SETSIZE_EXCEEDED"}
        /\ rows' \in {rows, Row(st)}
        /\ Rules.empty \in {"zeros", "ERROR"} => rows' = Row(st)
    BY <1>4, <2>2 DEF EndPoint
  <2>4. st = "OK" /\ Rules.keep = {1} => pt \in fed
    <3>1. CASE Keep(vals) = {} BY <2>2, <3>1
    <3>2. CASE Keep(vals) # {} BY <1>2, <3>2
    <3> QED BY <3>1, <3>2
  <2> HIDE DEF st
  <2>5. pt' = pt + 1 /\ at' = "point" /\ kept' = Keep(vals) BY <1>4 DEF EndPoint
  <2>6. AnsweredRows' /\ RowsSoFar'
    BY <1>1, <2>1, <2>3, <2>4, <2>5, RowVisit DEF TableInv
  <2>7. ValuesOfPoint' BY <1>2, <2>5 DEF ValuesOfPoint, Fixed
  <2> QED BY <2>6, <2>7 DEF TableInv
<1>5. CASE EmptyPoint(vals)
  BY <1>5, DuringTrial DEF EmptyPoint
<1> QED BY <1>3, <1>4, <1>5 DEF Return

\* Every step keeps the table faithful.
LEMMA TableStep ==
    ASSUME TypeInv, TableInv, [HarnessNext]_harnessVars
    PROVE  TableInv'
<1>1. Fixed BY SweepFixed
<1>2. /\ by # {} \/ val = 1 => (at = "trial" /\ ip > 1 => pt \in fed)
      /\ ip \in Nat /\ pt \in Nat
  <2>1. script \in Selected /\ ip \in 1..(Len(Prog) + 1) /\ pt \in 1..(Points + 1)
    BY DEF TypeInv, HarnessTypeOK
  <2>2. Len(Prog) \in Nat /\ Points \in Nat BY <2>1, SweepFacts
  <2> QED BY <2>1, <2>2 DEF TableInv, ValuesOfPoint
<1>3. ASSUME NEW steps, AtStep(steps), "Popen" \notin steps
      PROVE  at = "trial" /\ ip > 1
  <2>1. Prog[1] = "Popen" BY SweepFacts DEF TypeInv, HarnessTypeOK, WellFormed
  <2> QED BY <1>2, <1>3, <2>1 DEF AtStep, TypeInv, HarnessTypeOK
<1>4. CASE UNCHANGED harnessVars
  BY <1>1, <1>2, <1>4, DuringTrial DEF harnessVars, table, TypeInv, HarnessTypeOK
<1>5. CASE NextPoint
  <2>1. AnsweredRows' /\ RowsSoFar' BY <1>1, <1>5, RowsKept DEF TableInv, NextPoint, clients
  <2>2. Unbuilt(pt)' = Unbuilt(pt) /\ OverLimit(pt)' = OverLimit(pt)
    BY <1>1, <1>5, PointFixed DEF NextPoint
  <2>3. ValuesOfPoint' BY <1>5, <2>2 DEF NextPoint, ValuesOfPoint
  <2> QED BY <2>1, <2>3 DEF TableInv
<1>6. CASE SkipPoint
  <2>1. pt \in 1..Points BY <1>6 DEF SkipPoint, TypeInv, HarnessTypeOK
  <2>2. /\ pt' = pt + 1 /\ rows' \in {rows, Row("FD_SETSIZE_EXCEEDED")}
        /\ fed' = fed /\ at' = "point" /\ kept' = kept
        /\ rows' = IF ~Unbuilt(pt) /\ (OverLimit(pt) => Rules.limit = "row")
                   THEN Row("FD_SETSIZE_EXCEEDED") ELSE rows
    BY <1>6 DEF SkipPoint, clients, OverLimit
  <2>3. AnsweredRows' /\ RowsSoFar' BY <1>1, <2>1, <2>2, RowVisit DEF TableInv
  <2>4. ValuesOfPoint' BY <1>1, <2>2 DEF ValuesOfPoint, TableInv, Fixed
  <2> QED BY <2>3, <2>4 DEF TableInv
<1>7. CASE SaveTable BY <1>1, <1>7, DuringTrial DEF SaveTable, clients
<1>8. CASE NoLoadgen \/ NoMpstat \/ LoadRaises
  BY <1>1, <1>8, DuringTrial DEF NoLoadgen, NoMpstat, LoadRaises, Raise, clients
<1>9. CASE Popen
  BY <1>1, <1>9, DuringTrial DEF Popen, AtStep, GoOn
<1>10. CASE \/ AwaitUp \/ AwaitTimeout \/ StartLoad \/ RunMpstat \/ Signal \/ Stopped
            \/ StopTimeout
  <2>1. /\ at = "trial" /\ at' \in {"trial", "giveup"}
        /\ UNCHANGED <<by, val, fed, table>>
    BY <1>10 DEF AwaitUp, AwaitTimeout, StartLoad, RunMpstat, Signal, Stopped,
         StopTimeout, AtStep, GoOn, clients
  <2>2. ip > 1
    BY <1>3, <1>10 DEF AwaitUp, AwaitTimeout, StartLoad, RunMpstat, Signal, Stopped,
         StopTimeout, Loads, Waits
  <2> QED BY <1>1, <1>2, <2>1, <2>2, DuringTrial
<1>11. CASE Finish \/ Overrun \/ LoadCaught
  <2>1. /\ at = "trial" /\ at' = "trial" /\ UNCHANGED <<by, fed, table>>
        /\ by = {} => val' = 0
    BY <1>11 DEF Finish, Overrun, LoadEnds, LoadCaught, AtStep, GoOn
  <2>2. ip > 1
    BY <1>3, <1>11 DEF Finish, Overrun, LoadEnds, LoadCaught, Finishes
  <2> QED BY <1>1, <1>2, <2>1, <2>2, DuringTrial
<1>12. CASE GiveUp BY <1>1, <1>12, ReturnTable DEF GiveUp, clients
<1>13. CASE EndTrial
  <2>1. /\ at = "trial" /\ ip > 1 /\ fed' = fed /\ Return(Figure)
    <3>1. Len(Prog) > 1 /\ Len(Prog) \in Nat
      BY SweepFacts DEF TypeInv, HarnessTypeOK, WellFormed
    <3> QED BY <1>2, <1>13, <3>1 DEF EndTrial, clients
  <2>2. /\ Figure \in SUBSET {0, 1}
        /\ 1 \in Figure => pt \in fed
    BY <1>2, <2>1 DEF Figure, TypeInv, HarnessTypeOK
  <2> QED BY <1>1, <2>1, <2>2, ReturnTable
<1>14. ASSUME NEW p \in Alive, ServerUp(p) \/ ServerGone(p) \/ ServerObeys(p)
       PROVE  TableInv'
  <2>1. UNCHANGED <<at, ip, table, by, val, fed>>
    BY <1>14 DEF ServerUp, ServerGone, ServerObeys, scriptVars, clients
  <2> QED BY <1>1, <1>2, <2>1, DuringTrial DEF TypeInv, HarnessTypeOK
<1>15. ASSUME NEW p \in Alive, Serve(p)
       PROVE  TableInv'
  <2>1. UNCHANGED <<at, ip, table>> /\ fed' = fed \cup {pt}
    BY <1>15 DEF Serve, scriptVars
  <2> QED BY <1>1, <2>1, DuringTrial DEF TypeInv, HarnessTypeOK
<1>16. CASE Stall
  <2>1. UNCHANGED <<at, ip, table, by, val, fed>> BY <1>16 DEF Stall, scriptVars
  <2> QED BY <1>1, <1>2, <2>1, DuringTrial DEF TypeInv, HarnessTypeOK
<1> QED
  BY <1>4, <1>5, <1>6, <1>7, <1>8, <1>9, <1>10, <1>11, <1>12, <1>13, <1>14, <1>15, <1>16
  DEF HarnessNext, ScriptStep

\* The table is saved after the last point.
AllVisited == at = "done" => pt = Points + 1

\* Only the last step of main() saves it.
LEMMA AllVisitedStep ==
    ASSUME TypeInv, AllVisited, [HarnessNext]_harnessVars
    PROVE  AllVisited'
<1>1. Fixed BY SweepFixed
<1>2. CASE SaveTable
  <2>1. Points \in Nat BY SweepFacts DEF TypeInv, HarnessTypeOK
  <2>2. pt \in 1..(Points + 1) /\ pt > Points /\ pt' = pt
    BY <1>2 DEF SaveTable, table, TypeInv, HarnessTypeOK
  <2> QED BY <1>1, <2>1, <2>2 DEF AllVisited, Fixed
<1>3. CASE UNCHANGED <<at, pt>> BY <1>1, <1>3 DEF AllVisited, Fixed
<1>4. CASE at' # "done" BY <1>4 DEF AllVisited
<1>5. CASE UNCHANGED harnessVars BY <1>3, <1>5 DEF harnessVars
<1>6. CASE ScriptStep /\ ~SaveTable
  BY <1>4, <1>6 DEF ScriptStep, NextPoint, SkipPoint, Popen, AwaitUp, AwaitTimeout, GiveUp,
       StartLoad, NoLoadgen, RunMpstat, NoMpstat, Finish, Overrun, LoadEnds, LoadRaises,
       LoadCaught, Signal, Stopped, StopTimeout, EndTrial, Raise, Return, NextTrial,
       EndPoint, EmptyPoint, AtStep, GoOn
<1>7. CASE \E p \in Alive : ServerUp(p) \/ ServerGone(p) \/ ServerObeys(p) \/ Serve(p)
  BY <1>3, <1>7 DEF ServerUp, ServerGone, ServerObeys, Serve, scriptVars, table
<1>8. CASE Stall BY <1>3, <1>8 DEF Stall, scriptVars, table
<1> QED BY <1>2, <1>5, <1>6, <1>7, <1>8 DEF HarnessNext

\* Every table is faithful, for every sweep: no row is filled with the values
\* of another point or of clients nobody answered, and in the scripts that
\* report empty points no point is missing.
THEOREM TablesAreFaithful == HarnessSpec => []TableFaithful
<1>1. HarnessInit => TableInv
  <2> SUFFICES ASSUME HarnessInit PROVE TableInv
    OBVIOUS
  <2>1. at = "point" /\ pt = 1 /\ kept = {} /\ rows = <<>> /\ DOMAIN rows = {}
    BY DEF HarnessInit
  <2>2. RowPoints(rows) = {} /\ Expected(pt - 1) = {}
    BY <2>1 DEF RowPoints, Expected
  <2> QED BY <2>1, <2>2 DEF TableInv, ValuesOfPoint, AnsweredRows, RowsSoFar
<1>2. TypeInv /\ TableInv /\ [HarnessNext]_harnessVars => TableInv'
  BY TableStep
<1>3. TypeInv /\ TableInv /\ [HarnessNext]_harnessVars => TypeInv'
  BY TypeInvStep
<1>4. TypeInv /\ AllVisited /\ [HarnessNext]_harnessVars => AllVisited'
  BY AllVisitedStep
<1>5. HarnessInit => AllVisited BY DEF HarnessInit, AllVisited
<1>6. TypeInv /\ TableInv /\ AllVisited => TableFaithful
  <2> SUFFICES ASSUME TypeInv, TableInv, AllVisited
               PROVE  TableFaithful
    OBVIOUS
  <2>1. at = "done" => Expected(pt - 1) = Reported
    <3>1. Points \in Nat BY SweepFacts DEF TypeInv, HarnessTypeOK
    <3> QED BY <3>1 DEF AllVisited, Expected, Reported
  <2> QED BY <2>1 DEF TableInv, AnsweredRows, RowsSoFar, RowPoints, TableFaithful
<1> QED
  BY <1>1, <1>2, <1>3, <1>4, <1>5, <1>6, TypeInvInit, PTL DEF HarnessSpec
=============================================================================
