------------------------------ MODULE Harness ------------------------------
(***************************************************************************)
(* A run of one of the benchmark scripts: the loops of its main(), the     *)
(* steps of its trials, and the server processes they start and stop.      *)
(***************************************************************************)
EXTENDS Processes, Scripts, FiniteSets

CONSTANTS
    Selected,       \* the scripts to run, one of them in each behaviour
    Servers,        \* SERVERS
    Levels,         \* CONNS, IDLE_LEVELS or THREAD_COUNTS
    SelectLimit,    \* the most connections server_select is tried with
    TRIALS,
    MayMiss,        \* the servers whose program may not have been built
    MaxDying        \* bound: servers that SIGKILL has not ended yet when the
                    \* script starts another one

ASSUME HarnessAssumption ==
    /\ Selected \subseteq ScriptNames
    /\ Servers \in Seq(STRING) /\ Len(Servers) > 0
    /\ Levels \in Seq(Nat) /\ Len(Levels) > 0
    /\ SelectLimit \in Nat
    /\ TRIALS \in Nat \ {0}
    /\ MayMiss \subseteq STRING /\ MaxDying \in Nat

VARIABLES
    script,     \* the script that runs
    installed,  \* the optional programs that are there: "loadgen", "mpstat"
    missing,    \* the servers whose program was not built
    at,         \* "point", "trial", "giveup", "done" or "aborted"
    ip,         \* the next step of the trial
    pt,         \* the current point of the sweep
    tr,         \* the current trial of the point
    own,        \* the server of this trial, 0 before the first one
    last,       \* number of servers started
    load,       \* the clients: "off", "on", or "stalled" on an answer
    by,         \* the servers that have answered them
    val,        \* 1 if the clients report something, 0 if nothing
    printed,    \* own has printed its counters
    kept,       \* the values of the trials of this point
    fed,        \* history: the points at which a server answered clients
    rows,       \* the rows so far
    why         \* what ended the script: "none", "loadgen", "mpstat", "load", "empty"

harnessVars ==
    <<procVars, script, installed, missing, at, ip, pt, tr, own, last, load,
      by, val, printed, kept, fed, rows, why>>
environment == <<script, installed, missing>>

Prog == Trial[script]
Rules == Main[script]
Trials == IF Rules.repeat THEN TRIALS ELSE 1

\* The programs that a trial starts besides the server.
Uses ==
    {"loadgen" : i \in {i \in DOMAIN Prog : Prog[i] \in {"Loadgen", "LoadgenIfAny"}}}
        \cup {"mpstat" : i \in {i \in DOMAIN Prog : Prog[i] = "Mpstat"}}

-----------------------------------------------------------------------------
(* The points of the sweep: for server in SERVERS, for conns in CONNS.     *)

Width == IF Rules.over = "servers" THEN 1 ELSE Len(Levels)
Height == IF Rules.over = "levels" THEN 1 ELSE Len(Servers)
Points == Height * Width

Server(n) == Servers[1 + ((n - 1) \div Width)]
Level(n) ==
    IF Rules.over = "servers" THEN Levels[Len(Levels)]
    ELSE Levels[1 + ((n - 1) % Width)]

Unbuilt(n) == Rules.exists /\ Server(n) \in missing
OverLimit(n) ==
    /\ Rules.limit # "run"
    /\ Server(n) = "server_select" /\ Level(n) > SelectLimit

-----------------------------------------------------------------------------
HarnessInit ==
    /\ ProcessesInit
    /\ script \in Selected
    /\ installed \in SUBSET Uses /\ missing \in SUBSET MayMiss
    /\ at = "point" /\ ip = 1 /\ pt = 1 /\ tr = 1
    /\ own = 0 /\ last = 0
    /\ load = "off" /\ by = {} /\ val = 0 /\ printed = FALSE
    /\ kept = {} /\ fed = {} /\ rows = <<>> /\ why = "none"

clients == <<load, by, val, printed, fed>>
table == <<pt, tr, kept, rows>>

Row(status) == Append(rows, [pt |-> pt, status |-> status])

\* An exception nobody catches: what was measured is lost, and what was
\* started goes on running.
Raise(reason) ==
    /\ at' = "aborted" /\ why' = reason
    /\ UNCHANGED <<procVars, environment, ip, own, last, clients, table>>

-----------------------------------------------------------------------------
(* main()                                                                  *)

NextPoint ==
    /\ at = "point" /\ pt <= Points
    /\ ~Unbuilt(pt) /\ ~OverLimit(pt)
    /\ at' = "trial" /\ ip' = 1 /\ tr' = 1 /\ kept' = {}
    /\ UNCHANGED <<procVars, environment, pt, own, last, clients, rows, why>>

SkipPoint ==
    /\ at = "point" /\ pt <= Points
    /\ Unbuilt(pt) \/ OverLimit(pt)
    /\ pt' = pt + 1
    /\ rows' = IF ~Unbuilt(pt) /\ Rules.limit = "row"
               THEN Row("FD_SETSIZE_EXCEEDED") ELSE rows
    /\ UNCHANGED <<procVars, environment, at, ip, tr, own, last, clients, kept, why>>

SaveTable ==
    /\ at = "point" /\ pt > Points
    /\ at' = "done"
    /\ UNCHANGED <<procVars, environment, ip, own, last, clients, table, why>>

\* Mutant: a trial that was answered nothing goes into the medians too.
KeepAll(vals) == kept \cup vals

\* The values of the point once a trial has returned vals: some of the
\* scripts leave out None and trials without an answered request.
Keep(vals) == kept \cup (vals \cap Rules.keep)

NextTrial(vals) ==
    /\ tr < Trials
    /\ at' = "trial" /\ ip' = 1 /\ tr' = tr + 1 /\ kept' = Keep(vals)
    /\ UNCHANGED <<pt, rows, why>>

EndPoint(vals) ==
    /\ tr = Trials /\ (Keep(vals) # {} \/ Rules.empty # "raise")
    /\ at' = "point" /\ ip' = 1 /\ pt' = pt + 1 /\ tr' = 1 /\ kept' = Keep(vals)
    /\ rows' = IF Keep(vals) # {} THEN Row("OK")
               ELSE IF Rules.empty = "none" THEN rows ELSE Row(Rules.empty)
    /\ UNCHANGED why

EmptyPoint(vals) ==
    /\ tr = Trials /\ Keep(vals) = {} /\ Rules.empty = "raise"
    /\ at' = "aborted" /\ why' = "empty"
    /\ UNCHANGED <<ip, table>>

Return(vals) == NextTrial(vals) \/ EndPoint(vals) \/ EmptyPoint(vals)

-----------------------------------------------------------------------------
(* The steps of a trial.                                                   *)

AtStep(steps) == at = "trial" /\ ip <= Len(Prog) /\ Prog[ip] \in steps
GoOn == ip' = ip + 1 /\ UNCHANGED at

Popen ==
    /\ AtStep({"Popen"}) /\ Cardinality(doomed) <= MaxDying
    /\ Start(last + 1) /\ own' = last + 1 /\ last' = last + 1
    /\ by' = {} /\ val' = 0 /\ printed' = FALSE
    /\ GoOn
    /\ UNCHANGED <<environment, load, fed, table, why>>

\* wait_for_server() only knows that some process accepts connections.
AwaitUp ==
    /\ AtStep({"Await", "AwaitAny"}) /\ PortOpen
    /\ GoOn
    /\ UNCHANGED <<procVars, environment, own, last, clients, table, why>>

AwaitTimeout ==
    /\ AtStep({"Await", "AwaitAny"}) /\ ~PortOpen
    /\ IF Prog[ip] = "Await" THEN at' = "giveup" /\ UNCHANGED ip ELSE GoOn
    /\ UNCHANGED <<procVars, environment, own, last, clients, table, why>>

\* Mutant: a server that did not start in time is left alone.
GiveUpLeaves ==
    /\ at = "giveup"
    /\ Return({})
    /\ UNCHANGED <<procVars, environment, own, last, clients>>

\* kill() without a wait(), and the trial returns None.
GiveUp ==
    /\ at = "giveup"
    /\ KillProc(own)
    /\ Return({})
    /\ UNCHANGED <<environment, own, last, clients>>

\* task6_memory.py starts no client for the level 0.
NeedsLoadgen ==
    Prog[ip] = "Loadgen" \/ (Prog[ip] = "LoadgenIfAny" /\ Level(pt) > 0)

StartLoad ==
    /\ AtStep(Loads)
    /\ NeedsLoadgen => "loadgen" \in installed
    /\ load' = IF Prog[ip] = "LoadgenIfAny" /\ Level(pt) = 0 THEN "off" ELSE "on"
    /\ GoOn
    /\ UNCHANGED <<procVars, environment, own, last, by, val, printed, fed, table, why>>

NoLoadgen ==
    /\ AtStep(Loads) /\ NeedsLoadgen /\ "loadgen" \notin installed
    /\ Raise("loadgen")

RunMpstat ==
    /\ AtStep({"Mpstat"}) /\ "mpstat" \in installed
    /\ GoOn
    /\ UNCHANGED <<procVars, environment, own, last, clients, table, why>>

NoMpstat ==
    /\ AtStep({"Mpstat"}) /\ "mpstat" \notin installed
    /\ Raise("mpstat")

\* The clients report something only if they were answered.
LoadEnds(how) ==
    /\ AtStep(how)
    /\ load' = "off"
    /\ val' \in IF by = {} THEN {0} ELSE {0, 1}
    /\ GoOn
    /\ UNCHANGED <<procVars, environment, own, last, by, printed, fed, table, why>>

Finish == load # "stalled" /\ LoadEnds(Finishes)
Overrun == load # "off" /\ LoadEnds({"FinishKills"})

LoadRaises ==
    /\ AtStep({"FinishRaises"}) /\ load = "on"
    /\ Raise("load")

\* Mutant: no except clause around the clients.
LoadUncaught ==
    /\ AtStep({"FinishCaught"}) /\ load = "on"
    /\ Raise("load")

LoadCaught ==
    /\ AtStep({"FinishCaught"}) /\ load = "on"
    /\ load' = "off" /\ val' = 0
    /\ GoOn
    /\ UNCHANGED <<procVars, environment, own, last, by, printed, fed, table, why>>

Signal ==
    /\ AtStep({"Signal"})
    /\ Tell(own)
    /\ GoOn
    /\ UNCHANGED <<environment, own, last, clients, table, why>>

Stopped ==
    /\ AtStep(Waits) /\ own \notin Alive
    /\ GoOn
    /\ UNCHANGED <<procVars, environment, own, last, clients, table, why>>

\* Mutant: a server that does not stop in time is left alone.
StopTimeoutLeaves ==
    /\ AtStep({"Wait", "WaitReap"}) /\ own \in Alive \ doomed
    /\ GoOn
    /\ UNCHANGED <<procVars, environment, own, last, clients, table, why>>

\* Mutant: wait() has no time limit.
StopTimeoutNever ==
    /\ AtStep({"Wait"}) /\ own \in Alive \ doomed
    /\ KillProc(own)
    /\ GoOn
    /\ UNCHANGED <<environment, own, last, clients, table, why>>

\* Only some of the scripts wait again after the kill().
StopTimeout ==
    /\ AtStep({"Wait", "WaitReap"}) /\ own \in Alive \ doomed
    /\ KillProc(own)
    /\ IF Prog[ip] = "Wait" THEN GoOn ELSE UNCHANGED <<ip, at>>
    /\ UNCHANGED <<environment, own, last, clients, table, why>>

\* What the trial returns: the figure of the client, or the counters that
\* the server printed.
Figure ==
    IF Rules.figure = "client" THEN {val}
    ELSE IF printed THEN {IF by = {} THEN 0 ELSE 1} ELSE {}

EndTrial ==
    /\ at = "trial" /\ ip > Len(Prog)
    /\ Return(Figure)
    /\ UNCHANGED <<procVars, environment, own, last, clients>>

-----------------------------------------------------------------------------
(* The servers and the clients meanwhile.                                  *)

scriptVars == <<environment, at, ip, own, last, table, why>>

ServerUp(p) ==
    /\ Listens(p)
    /\ p = own => Server(pt) \notin missing
    /\ UNCHANGED <<scriptVars, clients>>

\* A crash, a missing program, a port that cannot be had, or SIGKILL.
ServerGone(p) ==
    /\ Exits(p)
    /\ UNCHANGED <<scriptVars, clients>>

\* A clean exit; the servers print their counters on the way out.
ServerObeys(p) ==
    /\ p \in told \ doomed
    /\ Exits(p)
    /\ printed' = (printed \/ (p = own /\ p \in up))
    /\ UNCHANGED <<scriptVars, load, by, val, fed>>

Serve(p) ==
    /\ load = "on" /\ p \in Answering \ by
    /\ by' = by \cup {p} /\ fed' = fed \cup {pt}
    /\ UNCHANGED <<procVars, scriptVars, load, val, printed>>

\* An answer that never comes: the Python clients have no time limit for it.
Stall ==
    /\ load = "on" /\ \E i \in 1..(ip - 1) : Prog[i] = "Load"
    /\ load' = "stalled"
    /\ UNCHANGED <<procVars, scriptVars, by, val, printed, fed>>

-----------------------------------------------------------------------------
ScriptStep ==
    \/ NextPoint \/ SkipPoint \/ SaveTable
    \/ Popen \/ AwaitUp \/ AwaitTimeout \/ GiveUp
    \/ StartLoad \/ NoLoadgen \/ RunMpstat \/ NoMpstat
    \/ Finish \/ Overrun \/ LoadRaises \/ LoadCaught
    \/ Signal \/ Stopped \/ StopTimeout \/ EndTrial

Reaped == \E p \in doomed : ServerGone(p)

HarnessNext ==
    \/ ScriptStep
    \/ \E p \in Alive : ServerUp(p) \/ ServerGone(p) \/ ServerObeys(p) \/ Serve(p)
    \/ Stall

HarnessSpec == HarnessInit /\ [][HarnessNext]_harnessVars

HarnessFairSpec ==
    HarnessSpec /\ WF_harnessVars(ScriptStep) /\ WF_harnessVars(Reaped)
-----------------------------------------------------------------------------
RowSet ==
    [pt : 1..Points, status : {"OK", "zeros", "ERROR", "FD_SETSIZE_EXCEEDED"}]

HarnessTypeOK ==
    /\ ProcessesTypeOK
    /\ script \in Selected
    /\ installed \subseteq Uses /\ missing \subseteq MayMiss
    /\ at \in {"point", "trial", "giveup", "done", "aborted"}
    /\ ip \in 1..(Len(Prog) + 1)
    /\ pt \in 1..(Points + 1) /\ tr \in 1..Trials
    /\ own \in 0..last /\ last \in Nat
    /\ load \in {"off", "on", "stalled"} /\ by \subseteq 1..last
    /\ val \in {0, 1} /\ printed \in BOOLEAN
    /\ kept \subseteq {0, 1} /\ fed \subseteq Nat
    /\ rows \in Seq(RowSet)
    /\ why \in {"none", "loadgen", "mpstat", "load", "empty"}

\* The figures of a trial are those of the server it started.  The servers
\* share the port (SO_REUSEPORT), so one that an earlier trial left running
\* would take part of the connections; kill() after the time limit of the
\* stop and after a failed start is what excludes it.
OwnAnswers == by \subseteq {own}

\* A script that comes to its end, or to the exception of an empty list in
\* main(), leaves no server running other than one with SIGKILL pending, and
\* in between no other server than that of the trial.
NothingLeft ==
    /\ Alive \ doomed \subseteq {own}
    /\ at = "done" \/ why = "empty" => Alive \subseteq doomed

\* The points that a script whose empty points get a row must report.
Reported ==
    {n \in 1..Points : ~Unbuilt(n) /\ (OverLimit(n) => Rules.limit = "row")}

\* A row that main() fills with medians, in the scripts that drop the trials
\* without an answered request, is about a point at which the clients were
\* answered, never about the values of the point before; and a table that is
\* written has a row for every point of the sweep where the script makes one
\* for empty points too.
TableFaithful ==
    /\ Rules.keep = {1} =>
           \A i \in DOMAIN rows : rows[i].status = "OK" => rows[i].pt \in fed
    /\ at = "done" /\ Rules.empty \in {"zeros", "ERROR"} =>
           {rows[i].pt : i \in DOMAIN rows} = Reported

\* What may end the script with an exception: a program that it starts but
\* that is not there, clients whose exceptions it does not catch, and the
\* max() of an empty list.
Fragile ==
    \/ Uses \ installed # {}
    \/ \E i \in DOMAIN Prog : Prog[i] = "FinishRaises"
    \/ Rules.empty = "raise"

PointsOf(rs) == [i \in DOMAIN rs |-> rs[i].pt]

Phase ==
    CASE at = "done" -> "saved" [] at = "aborted" -> "lost" [] OTHER -> "running"

Sweep == INSTANCE Campaign WITH
    plan <- Points,
    fragile <- Fragile,
    done <- pt - 1,
    table <- PointsOf(rows),
    phase <- Phase

\* The sweep of the scripts, each as an implementation of Campaign: main()
\* visits the points in order, appends at most one row for each, and writes
\* the file only after the last one.  A script that has its programs, catches
\* what its clients raise and has a default for an empty list never loses the
\* table, whatever servers and clients do.
ImplementsCampaign == Sweep!CampaignSpec

\* The two waits of the scripts that have no time limit: for a Python client
\* whose answer never comes, and (exp3_runner.py) for a server that has
\* missed its signal.
Stuck ==
    /\ AtStep(Finishes \cup Waits)
    /\ \/ load = "stalled" /\ Prog[ip] # "FinishKills"
       \/ Prog[ip] = "WaitForever" /\ own \in Alive

\* The exceptions that nothing catches.
Excused ==
    \/ why = "loadgen" /\ "loadgen" \notin installed
    \/ why = "mpstat" /\ "mpstat" \notin installed
    \/ why = "load" /\ script \in {"benchmark", "exp3"}
    \/ why = "empty" /\ script = "task1"

\* Every script writes its table, whatever its servers do, except for the
\* exceptions above, or stays for ever in one of the two waits above.
Completes ==
    \/ <>(at = "done" \/ (at = "aborted" /\ Excused))
    \/ <>[]Stuck
=============================================================================
