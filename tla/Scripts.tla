------------------------------ MODULE Scripts ------------------------------
(***************************************************************************)
(* The benchmark scripts under code/scripts, each as the program of one    *)
(* trial and the rules by which its main() turns trials into rows.         *)
(*                                                                         *)
(* The steps of a trial (readings of /proc change nothing and are left     *)
(* out):                                                                   *)
(*   Popen         start the server                                        *)
(*   Await         wait_for_server(), or kill() and return None            *)
(*   AwaitAny      wait_for_server() with its answer ignored               *)
(*   Load          start Python clients: tasks of asyncio, or a process    *)
(*   Establish     open idle connections, and wait a fixed time for them   *)
(*   Loadgen       start bin/loadgen, which Popen() may not find           *)
(*   LoadgenIfAny  the same, unless the level is 0                         *)
(*   Mpstat        start mpstat, which Popen() may not find                *)
(*   Finish        wait until the clients are done                         *)
(*   FinishRaises  the same, and an exception of theirs ends the script    *)
(*   FinishCaught  the same, and an exception gives the trial the value 0  *)
(*   FinishKills   the same, and clients that overrun are killed           *)
(*   Signal        SIGTERM or SIGINT to the server                         *)
(*   Wait          wait(timeout) for it, after that kill() and go on       *)
(*   WaitReap      wait(timeout) for it, after that kill() and wait()      *)
(*   WaitForever   wait() without a timeout                                *)
(***************************************************************************)
EXTENDS Naturals, Sequences

Loads == {"Load", "Establish", "Loadgen", "LoadgenIfAny"}
Finishes == {"Finish", "FinishRaises", "FinishCaught", "FinishKills"}
Waits == {"Wait", "WaitReap", "WaitForever"}
Steps ==
    {"Popen", "Await", "AwaitAny", "Mpstat", "Signal"}
        \cup Loads \cup Finishes \cup Waits

-----------------------------------------------------------------------------
(* One trial.                                                              *)

\* The row is made before the server is stopped; nothing can fail between.
benchmark_server == <<"Popen", "Await", "Load", "FinishRaises", "Signal", "Wait">>

\* try ... except ... finally around the load; shared by both scenarios.
bench_run_trial == <<"Popen", "Await", "Load", "FinishCaught", "Signal", "Wait">>

exp1_run_single_trial == <<"Popen", "Await", "Load", "Finish", "Signal", "WaitReap">>

exp2_run_exp2_trial == <<"Popen", "Await", "Load", "Finish", "Signal", "Wait">>

\* One server for the baseline and 1000 connections, a new one for 5000.
exp3_measure_memory_progression ==
    <<"Popen", "Await", "Establish", "FinishRaises", "Signal", "WaitForever",
      "Popen", "AwaitAny", "Establish", "FinishRaises", "Signal", "WaitForever">>

exp4_run_single_idle_trial == <<"Popen", "Await", "Load", "FinishCaught", "Signal", "Wait">>

task1_run_single_trial ==
    <<"Popen", "Await", "Load", "Mpstat", "FinishKills", "Signal", "WaitReap">>

task3_run_calibration_trial == <<"Popen", "Await", "Loadgen", "Finish", "Signal", "WaitReap">>

scenario1_run_trial == <<"Popen", "Await", "Loadgen", "Finish", "Signal", "WaitReap">>

cpu_run_trial == <<"Popen", "Await", "Loadgen", "Finish", "Signal", "WaitReap">>

events_run_trial == <<"Popen", "Await", "Loadgen", "Finish", "Signal", "WaitReap">>

idle_run_trial == <<"Popen", "Await", "Loadgen", "Finish", "Signal", "WaitReap">>

\* The body of the loop in main(); memory is read while the load runs.
task6_trial ==
    <<"Popen", "Await", "LoadgenIfAny", "FinishKills", "Signal", "WaitReap">>

Trial ==
    [benchmark |-> benchmark_server,
     bench_standard |-> bench_run_trial,
     bench_idle |-> bench_run_trial,
     exp1 |-> exp1_run_single_trial,
     exp2 |-> exp2_run_exp2_trial,
     exp3 |-> exp3_measure_memory_progression,
     exp4 |-> exp4_run_single_idle_trial,
     task1 |-> task1_run_single_trial,
     task3 |-> task3_run_calibration_trial,
     scenario1 |-> scenario1_run_trial,
     cpu_per_req |-> cpu_run_trial,
     events_per_wait |-> events_run_trial,
     idle_sweep |-> idle_run_trial,
     task6 |-> task6_trial]

ScriptNames == DOMAIN Trial

-----------------------------------------------------------------------------
(***************************************************************************)
(* The loops of main().                                                    *)
(*   over    what it sweeps: the servers, the levels, or both              *)
(*   repeat  several trials for a point, or one                            *)
(*   exists  does it leave out a server whose program is not there         *)
(*   limit   server_select above its limit: a row, left out, or run        *)
(*   figure  what a trial reports: the client's count, or the counters the *)
(*           server prints when it is stopped                              *)
(*   keep    the values that are kept: 1 for a positive one, 0 for none    *)
(*   empty   a point no trial of which was kept: no row, a row of zeros,   *)
(*           a row marked ERROR, or an exception                           *)
(***************************************************************************)
benchmark_main ==
    [over |-> "both", repeat |-> FALSE, exists |-> TRUE, limit |-> "row",
     figure |-> "client", keep |-> {0, 1}, empty |-> "none"]

benchmark_standard ==
    [over |-> "both", repeat |-> TRUE, exists |-> TRUE, limit |-> "row",
     figure |-> "client", keep |-> {1}, empty |-> "ERROR"]

benchmark_idle ==
    [over |-> "servers", repeat |-> TRUE, exists |-> TRUE, limit |-> "left out",
     figure |-> "client", keep |-> {1}, empty |-> "zeros"]

exp1_main ==
    [over |-> "both", repeat |-> TRUE, exists |-> FALSE, limit |-> "run",
     figure |-> "server", keep |-> {0, 1}, empty |-> "zeros"]

exp2_main ==
    [over |-> "both", repeat |-> FALSE, exists |-> FALSE, limit |-> "left out",
     figure |-> "client", keep |-> {0, 1}, empty |-> "none"]

exp3_main ==
    [over |-> "servers", repeat |-> FALSE, exists |-> FALSE, limit |-> "run",
     figure |-> "client", keep |-> {0, 1}, empty |-> "none"]

exp4_main ==
    [over |-> "both", repeat |-> TRUE, exists |-> FALSE, limit |-> "run",
     figure |-> "client", keep |-> {1}, empty |-> "zeros"]

\* max() and min() of the empty list raise ValueError.
task1_main ==
    [over |-> "both", repeat |-> TRUE, exists |-> FALSE, limit |-> "run",
     figure |-> "client", keep |-> {0, 1}, empty |-> "raise"]

task3_main ==
    [over |-> "levels", repeat |-> TRUE, exists |-> FALSE, limit |-> "run",
     figure |-> "client", keep |-> {0, 1}, empty |-> "zeros"]

scenario1_main ==
    [over |-> "both", repeat |-> TRUE, exists |-> FALSE, limit |-> "left out",
     figure |-> "client", keep |-> {1}, empty |-> "zeros"]

cpu_main ==
    [over |-> "both", repeat |-> TRUE, exists |-> FALSE, limit |-> "left out",
     figure |-> "client", keep |-> {1}, empty |-> "zeros"]

events_main ==
    [over |-> "both", repeat |-> TRUE, exists |-> FALSE, limit |-> "run",
     figure |-> "server", keep |-> {0, 1}, empty |-> "zeros"]

idle_main ==
    [over |-> "both", repeat |-> TRUE, exists |-> FALSE, limit |-> "run",
     figure |-> "client", keep |-> {1}, empty |-> "zeros"]

task6_main ==
    [over |-> "both", repeat |-> FALSE, exists |-> FALSE, limit |-> "left out",
     figure |-> "client", keep |-> {0, 1}, empty |-> "none"]

Main ==
    [benchmark |-> benchmark_main,
     bench_standard |-> benchmark_standard,
     bench_idle |-> benchmark_idle,
     exp1 |-> exp1_main,
     exp2 |-> exp2_main,
     exp3 |-> exp3_main,
     exp4 |-> exp4_main,
     task1 |-> task1_main,
     task3 |-> task3_main,
     scenario1 |-> scenario1_main,
     cpu_per_req |-> cpu_main,
     events_per_wait |-> events_main,
     idle_sweep |-> idle_main,
     task6 |-> task6_main]
=============================================================================
