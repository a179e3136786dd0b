----------------------------- MODULE Crossover -----------------------------
(***************************************************************************)
(* exp4_idle_sweep.py: main() collects one row for each server and number  *)
(* of idle connections; plot_crossover() then looks for the place where    *)
(* the curves of server_poll and epoll_et_server cross.                    *)
(***************************************************************************)
EXTENDS Integers, Sequences, FiniteSets

CONSTANTS
    SERVERS, IDLE_LEVELS,
    Rates       \* the values of median_req_s; 0 where no trial counted

ASSUME CrossoverAssumption ==
    /\ SERVERS \in Seq(STRING)
    /\ \A i, j \in DOMAIN SERVERS : SERVERS[i] = SERVERS[j] => i = j
    /\ IDLE_LEVELS \in Seq(Nat) /\ Rates \subseteq Nat
    /\ \A i, j \in DOMAIN IDLE_LEVELS : i < j => IDLE_LEVELS[i] < IDLE_LEVELS[j]

VARIABLES
    results,    \* main()'s rows: [server, idle_conns, median_req_s]
    idx,        \* the loop of plot_crossover(), 0 before it
    cross       \* {}, or {[num, den, at]}: crossover_x = num / den, found at idx at

crossVars == <<results, idx, cross>>

CrossInit == results = <<>> /\ idx = 0 /\ cross = {}

\* main(): the next row of the sweep.
AddRow ==
    /\ Len(results) < Len(SERVERS) * Len(IDLE_LEVELS)
    /\ \E y \in Rates :
           results' = Append(results,
               [server |-> SERVERS[1 + (Len(results) \div Len(IDLE_LEVELS))],
                idle_conns |-> IDLE_LEVELS[1 + (Len(results) % Len(IDLE_LEVELS))],
                median_req_s |-> y])
    /\ UNCHANGED <<idx, cross>>

\* data_tps: the rows of a server, in the order of the table.
Curve(s) ==
    LET rows == {i \in DOMAIN results : results[i].server = s}
        Nth(k) == CHOOSE i \in rows : Cardinality({j \in rows : j <= i}) = k
    IN  [k \in 1..Cardinality(rows) |-> results[Nth(k)]]

StartPlot ==
    /\ idx = 0 /\ Len(results) = Len(SERVERS) * Len(IDLE_LEVELS)
    /\ idx' = 1
    /\ UNCHANGED <<results, cross>>

p_y == Curve("server_poll")
e_y == Curve("epoll_et_server")

\* Both servers were swept, and the loop has not ended.
Searching ==
    /\ idx > 0 /\ cross = {} /\ idx < Len(p_y)
    /\ {"server_poll", "epoll_et_server"} \subseteq {SERVERS[i] : i \in DOMAIN SERVERS}

\* How far poll is ahead at the i-th level.
Lead(i) == p_y[i].median_req_s - e_y[i].median_req_s

\* Mutant: only crossings in which poll was ahead before.
CrossesDown(i) == Lead(i) >= 0 /\ Lead(i + 1) <= 0

\* The condition on two neighbouring levels, equalities included.
Crosses(i) ==
    \/ Lead(i) >= 0 /\ Lead(i + 1) <= 0
    \/ Lead(i) <= 0 /\ Lead(i + 1) >= 0

Denom(i) == Lead(i + 1) - Lead(i)

\* x0 + (x1 - x0) * (y_e0 - y_p0) / denom, as a fraction.
Interpolate(i) ==
    [num |-> p_y[i].idle_conns * Denom(i)
               + (p_y[i + 1].idle_conns - p_y[i].idle_conns) * (0 - Lead(i)),
     den |-> Denom(i), at |-> i]

Found ==
    /\ Searching /\ Crosses(idx) /\ Denom(idx) # 0
    /\ cross' = {Interpolate(idx)}
    /\ UNCHANGED <<results, idx>>

Advance ==
    /\ Searching /\ ~(Crosses(idx) /\ Denom(idx) # 0)
    /\ idx' = idx + 1
    /\ UNCHANGED <<results, cross>>

CrossNext == AddRow \/ StartPlot \/ Found \/ Advance

CrossSpec == CrossInit /\ [][CrossNext]_crossVars

\* if crossover_x and crossover_x > 0: drawn with its annotation.
Drawn == {c \in cross : c.num * c.den > 0}
Plotted == idx > 0 /\ ~Searching

-----------------------------------------------------------------------------
Absolute(n) == IF n < 0 THEN 0 - n ELSE n

(***************************************************************************)
(* What is drawn is a crossing: it lies between two levels of the sweep,   *)
(* the straight lines between the measured points meet there, and at no    *)
(* level before it is the other server ahead.  And a lead that changes     *)
(* hands is drawn, unless the two start level: then the search ends at the *)
(* first interval, with a crossing at 0 that is not drawn.                 *)
(***************************************************************************)
CrossoverExact ==
    /\ \A c \in Drawn :
           LET i == c.at
               x0 == p_y[i].idle_conns
               x1 == p_y[i + 1].idle_conns
               x == IF c.den < 0 THEN 0 - c.num ELSE c.num
               d == Absolute(c.den)
           IN  /\ x0 * d <= x /\ x <= x1 * d
               /\ Lead(i) * (x1 * d - x) + Lead(i + 1) * (x - x0 * d) = 0
               /\ \A j, k \in 1..i : Lead(j) * Lead(k) >= 0
    /\ Plotted /\ Len(p_y) > 0 /\ Len(e_y) > 0 =>
           \A k \in DOMAIN p_y : Lead(1) * Lead(k) < 0 => Drawn # {}
=============================================================================
