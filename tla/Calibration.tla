---------------------------- MODULE Calibration ----------------------------
(***************************************************************************)
(* task3_calibration.py chooses the number of client threads for the other *)
(* task4 scripts, which do not receive its choice: each of them reads      *)
(* results/calibration.csv and chooses again, from the rounded figures.    *)
(*                                                                         *)
(* Utilisations are integers, in thousandths of a percent.  A median is    *)
(* kept doubled, so that the mean of two middle values is an integer.      *)
(***************************************************************************)
EXTENDS Integers, Sequences, FiniteSets

CONSTANTS
    THREAD_COUNTS,
    TRIALS,
    ServerUtils,    \* the values a trial may measure on the server's core
    ClientUtils,    \* and for the busiest client thread
    Readers         \* the scripts with get_calibrated_threads()

ASSUME CalibrationAssumption ==
    /\ THREAD_COUNTS \in Seq(Nat \ {0}) /\ Len(THREAD_COUNTS) > 0
    /\ TRIALS \in Nat \ {0}
    /\ ServerUtils \subseteq Nat /\ ClientUtils \subseteq Nat

VARIABLES
    runs,       \* the trials so far of the current thread count
    trials,     \* those that gave figures: <<server, client>>
    calRows,    \* the rows so far
    chosen,     \* chosen_thread_count, 0 for None
    csv,        \* the rows of the file, <<>> when there is none
    used        \* the threads each reader has taken from csv, 0 before

calVars == <<runs, trials, calRows, chosen, csv, used>>

DefaultThreads == 4

CalInit ==
    /\ runs = 0 /\ trials = <<>> /\ calRows = <<>> /\ chosen = 0 /\ csv = <<>>
    /\ used = [r \in Readers |-> 0]

-----------------------------------------------------------------------------
\* The k-th of a list in increasing order.
Ranked(list, k) ==
    CHOOSE v \in {list[i] : i \in DOMAIN list} :
        /\ Cardinality({i \in DOMAIN list : list[i] < v}) < k
        /\ k <= Cardinality({i \in DOMAIN list : list[i] <= v})

\* Twice the median; 0 for an empty list.
Median2(list) ==
    LET n == Len(list)
    IN  IF n = 0 THEN 0 ELSE Ranked(list, (n + 1) \div 2) + Ranked(list, (n + 2) \div 2)

\* round(x, 2) of a doubled value: to the nearest multiple of 0.01 %.
Round2(d) == 20 * ((d + 10) \div 20)

\* Saturated server, client with headroom: 90 % and 85 %, doubled.
Optimal(server, client) == server >= 180000 /\ client <= 170000

Threads == THREAD_COUNTS[Len(calRows) + 1]

\* A trial of the current thread count: figures, or None when its server did
\* not come up.
CalTrial ==
    /\ Len(calRows) < Len(THREAD_COUNTS) /\ runs < TRIALS
    /\ runs' = runs + 1
    /\ \/ \E s \in ServerUtils, c \in ClientUtils : trials' = Append(trials, <<s, c>>)
       \/ UNCHANGED trials
    /\ UNCHANGED <<calRows, chosen, csv, used>>

\* The row of a thread count.  Its status, and with it the choice, is made
\* from the medians; the row holds them rounded.
Judge ==
    /\ Len(calRows) < Len(THREAD_COUNTS) /\ runs = TRIALS
    /\ LET server == Median2([i \in DOMAIN trials |-> trials[i][1]])
           client == Median2([i \in DOMAIN trials |-> trials[i][2]])
       IN  /\ chosen' = IF Optimal(server, client) /\ chosen = 0 THEN Threads ELSE chosen
           /\ calRows' = Append(calRows,
                  [threads |-> Threads, server |-> Round2(server),
                   client |-> Round2(client), optimal |-> Optimal(server, client)])
    /\ runs' = 0 /\ trials' = <<>>
    /\ UNCHANGED <<csv, used>>

\* max(rows, key = server utilisation): the first of the greatest.
BestRow(rs) ==
    CHOOSE i \in DOMAIN rs :
        /\ \A j \in DOMAIN rs : rs[j].server <= rs[i].server
        /\ \A j \in 1..(i - 1) : rs[j].server < rs[i].server

\* The file is written, and without an optimal row the best one is chosen.
SaveCalibration ==
    /\ Len(calRows) = Len(THREAD_COUNTS) /\ csv = <<>>
    /\ csv' = calRows
    /\ chosen' = IF chosen # 0 THEN chosen ELSE calRows[BestRow(calRows)].threads
    /\ UNCHANGED <<runs, trials, calRows, used>>

-----------------------------------------------------------------------------
(* get_calibrated_threads(): the first optimal row; else the first of the  *)
(* greatest positive utilisation; else, and without a file, the default.   *)

\* Mutant: of two equally good rows the later one.
ReadThreadsLast(rs) ==
    LET opt == {i \in DOMAIN rs : Optimal(rs[i].server, rs[i].client)}
        top == {i \in DOMAIN rs :
                  /\ rs[i].server > 0
                  /\ \A j \in DOMAIN rs : rs[j].server <= rs[i].server}
    IN  IF opt # {} THEN rs[CHOOSE i \in opt : \A j \in opt : i <= j].threads
        ELSE IF top # {} THEN rs[CHOOSE i \in top : \A j \in top : i >= j].threads
        ELSE DefaultThreads

ReadThreads(rs) ==
    LET opt == {i \in DOMAIN rs : Optimal(rs[i].server, rs[i].client)}
        top == {i \in DOMAIN rs :
                  /\ rs[i].server > 0
                  /\ \A j \in DOMAIN rs : rs[j].server <= rs[i].server}
    IN  IF opt # {} THEN rs[CHOOSE i \in opt : \A j \in opt : i <= j].threads
        ELSE IF top # {} THEN rs[CHOOSE i \in top : \A j \in top : i <= j].threads
        ELSE DefaultThreads

\* main() of a reader, with or without a calibration before it.
StartReader(r) ==
    /\ used[r] = 0
    /\ used' = [used EXCEPT ![r] = ReadThreads(csv)]
    /\ UNCHANGED <<runs, trials, calRows, chosen, csv>>

CalNext == CalTrial \/ Judge \/ SaveCalibration \/ \E r \in Readers : StartReader(r)

CalSpec == CalInit /\ [][CalNext]_calVars

-----------------------------------------------------------------------------
\* A figure so near its threshold that rounding carries it over.
Borderline(row) == row.optimal # Optimal(row.server, row.client)

\* A reader that starts after the calibration takes the very thread count
\* that the calibration announced "for subsequent benchmarks", except when
\* rounding moved a row over a threshold, or when no trial measured anything;
\* one that starts before it has the default.
ReadersAgree ==
    [][\A r \in Readers : used'[r] # used[r] =>
           \/ csv = <<>> /\ used'[r] = DefaultThreads
           \/ csv # <<>> /\ used'[r] = chosen
           \/ \E i \in DOMAIN csv : Borderline(csv[i])
           \/ csv # <<>> /\ \A i \in DOMAIN csv : csv[i].server = 0]_used
=============================================================================
