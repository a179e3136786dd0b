----------------------------- MODULE AsyncLoad -----------------------------
(***************************************************************************)
(* The Python load generators: a main coroutine and one coroutine for each *)
(* connection, run by asyncio one at a time from await to await.  A client *)
(* sends a request, takes whatever the next read() returns for the answer, *)
(* and sends the next one, until stop_event is set.                        *)
(***************************************************************************)
EXTENDS Integers, Sequences, FiniteSets, FiniteSetsExt

CONSTANTS
    Loads,      \* the load generators, one of them in each behaviour
    NActive,    \* connections that send requests
    NIdle,      \* connections that do not
    batch_size, \* idle connections that are opened at once
    Size,       \* pieces that an answer may come in
    MaxReq      \* bound: requests of a connection before the time is up

-----------------------------------------------------------------------------
(***************************************************************************)
(* The coroutine of a connection:                                          *)
(*   connect    open_connection(); returns when it fails                   *)
(*   requests   write, read, count, until stop_event or the end of input   *)
(*   idle       sleep, until stop_event                                    *)
(*   close      close() and wait_closed()                                  *)
(*   total      add the count to the statistics                            *)
(*   latencies  add the times to the statistics                            *)
(***************************************************************************)
async_client_worker == <<"connect", "requests", "close", "total", "latencies">>
async_active_worker == <<"connect", "requests", "close", "total", "latencies">>
active_worker == <<"connect", "requests", "close", "total", "latencies">>
worker == <<"connect", "requests", "close", "total">>
async_idle_worker == <<"connect", "idle", "close">>
idle_worker == <<"connect", "idle", "close">>
exp3_idle_worker == <<"connect", "idle", "close">>
None == <<>>

(***************************************************************************)
(* The main coroutine:                                                     *)
(*   idle       create the idle connections, batch by batch                *)
(*   settle     a fixed time for them, connected or not                    *)
(*   active     create the active ones                                     *)
(*   sleep      the duration of the trial, and stop_event.set()            *)
(*   gather_active, gather_idle                                            *)
(*   cancel     asyncio.run() cancels what main left behind                *)
(***************************************************************************)
run_async_load_generator ==
    [main |-> <<"active", "sleep", "gather_active">>,
     active |-> async_client_worker, idle |-> None]

run_standard_load ==
    [main |-> <<"active", "sleep", "gather_active">>,
     active |-> async_active_worker, idle |-> None]

run_idle_active_load ==
    [main |-> <<"idle", "settle", "active", "sleep", "gather_active", "gather_idle">>,
     active |-> async_active_worker, idle |-> async_idle_worker]

run_idle_active_test ==
    [main |-> <<"idle", "settle", "active", "sleep", "gather_active", "gather_idle">>,
     active |-> active_worker, idle |-> idle_worker]

load_worker_main ==
    [main |-> <<"active", "sleep", "gather_active">>, active |-> worker, idle |-> None]

establish_conns ==
    [main |-> <<"idle", "settle", "cancel">>, active |-> None, idle |-> exp3_idle_worker]

Code ==
    [benchmark |-> run_async_load_generator,
     bench_standard |-> run_standard_load,
     bench_idle |-> run_idle_active_load,
     exp4 |-> run_idle_active_test,
     load_worker |-> load_worker_main,
     exp3 |-> establish_conns]

LoadNames == DOMAIN Code

ASSUME AsyncLoadAssumption ==
    /\ Loads \subseteq LoadNames
    /\ NActive \in Nat /\ NIdle \in Nat /\ batch_size \in Nat \ {0}
    /\ Size \in Nat \ {0} /\ MaxReq \in Nat

-----------------------------------------------------------------------------
VARIABLES
    prog,       \* the load generator that runs
    mpc,        \* the next step of its main coroutine
    stop,       \* stop_event
    st,         \* of each coroutine: where it waits
    open,       \* the connections that the client has open
    sent,       \* requests written
    owed,       \* pieces of answers that the server has not sent
    inbuf,      \* pieces that have arrived and have not been read
    gone,       \* the connections that the server has closed
    count,      \* req_count
    split,      \* history: connections one of whose answers came in pieces
    total,      \* stats["total"], stats["total_reqs"]
    lats        \* number of entries in stats["lats"], stats["latencies_ms"]

loadVars ==
    <<prog, mpc, stop, st, open, sent, owed, inbuf, gone, count, split, total, lats>>

Idle == 1..NIdle
Active == (NIdle + 1)..(NIdle + NActive)
Workers == Idle \cup Active

Routine(w) == IF w \in Idle THEN Code[prog].idle ELSE Code[prog].active
Does(w, step) == \E i \in DOMAIN Routine(w) : Routine(w)[i] = step
MainAt(step) == mpc <= Len(Code[prog].main) /\ Code[prog].main[mpc] = step
Returned == mpc > Len(Code[prog].main)

LoadInit ==
    /\ prog \in Loads
    /\ mpc = 1 /\ stop = FALSE
    /\ st = [w \in Workers |-> "unborn"]
    /\ open = {} /\ gone = {} /\ split = {}
    /\ sent = [w \in Workers |-> 0] /\ owed = sent /\ inbuf = sent /\ count = sent
    /\ total = 0 /\ lats = 0

net == <<owed, inbuf, gone, split>>
stats == <<total, lats>>

-----------------------------------------------------------------------------
(* The main coroutine.                                                     *)

MainGoesOn == mpc' = mpc + 1 /\ UNCHANGED <<prog, open, sent, net, count, stats>>

Unborn(ws) == {w \in ws : st[w] = "unborn"}

\* One batch; the tasks run only once main waits.
SpawnIdle ==
    /\ MainAt("idle") /\ Unborn(Idle) # {}
    /\ \E first \in {Min(Unborn(Idle))} :
           st' = [w \in Workers |->
                     IF w \in Unborn(Idle) /\ w < first + batch_size
                     THEN "connect" ELSE st[w]]
    /\ UNCHANGED <<prog, mpc, stop, open, sent, net, count, stats>>

\* exp4_idle_sweep.py is also run with no idle connections at all.
IdleSpawned ==
    /\ MainAt("idle")
    /\ Unborn(Idle) = {} \/ (prog = "exp4" /\ Unborn(Idle) = Idle)
    /\ MainGoesOn /\ UNCHANGED <<stop, st>>

Settle == MainAt("settle") /\ MainGoesOn /\ UNCHANGED <<stop, st>>

SpawnActive ==
    /\ MainAt("active")
    /\ st' = [w \in Workers |-> IF w \in Active THEN "connect" ELSE st[w]]
    /\ MainGoesOn /\ UNCHANGED stop

TimeIsUp == MainAt("sleep") /\ stop' = TRUE /\ MainGoesOn /\ UNCHANGED st

Over(ws) == \A w \in ws : st[w] \in {"done", "unborn"}

\* Mutant: the statistics are read without waiting for the tasks.
GatherNot ==
    /\ MainAt("gather_active") \/ MainAt("gather_idle")
    /\ MainGoesOn /\ UNCHANGED <<stop, st>>

\* gather(..., return_exceptions=True)
Gather ==
    /\ \/ MainAt("gather_active") /\ Over(Active)
       \/ MainAt("gather_idle") /\ Over(Idle)
    /\ MainGoesOn /\ UNCHANGED <<stop, st>>

\* CancelledError is no Exception: a coroutine that is connected ends without
\* close(), and the tasks that main has returned keep its socket open.
Cancel ==
    /\ MainAt("cancel")
    /\ st' = [w \in Workers |-> IF st[w] = "unborn" THEN "unborn" ELSE "done"]
    /\ MainGoesOn /\ UNCHANGED stop

-----------------------------------------------------------------------------
(* The coroutines of the connections.                                      *)

\* The head of the loop: the next request, or the way out.
RequestOrClose(w) ==
    IF stop
    THEN st' = [st EXCEPT ![w] = "close"] /\ UNCHANGED <<sent, owed>>
    ELSE /\ sent' = [sent EXCEPT ![w] = @ + 1] /\ owed' = [owed EXCEPT ![w] = @ + Size]
         /\ st' = [st EXCEPT ![w] = "requests"]

Connected(w) ==
    /\ st[w] = "connect"
    /\ open' = open \cup {w}
    /\ IF Does(w, "requests") THEN RequestOrClose(w)
       ELSE /\ st' = [st EXCEPT ![w] = IF stop THEN "close" ELSE "idle"]
            /\ UNCHANGED <<sent, owed>>
    /\ UNCHANGED <<prog, mpc, stop, inbuf, gone, count, split, stats>>

\* Refused, or not within the time limit: return, without statistics.
ConnectFails(w) ==
    /\ st[w] = "connect"
    /\ st' = [st EXCEPT ![w] = "done"]
    /\ UNCHANGED <<prog, mpc, stop, open, sent, net, count, stats>>

\* Mutant: the answer that comes after stop_event is not counted.
ReadDropsLast(w) ==
    /\ st[w] = "requests" /\ inbuf[w] > 0
    /\ stop \/ sent[w] < MaxReq
    /\ inbuf' = [inbuf EXCEPT ![w] = 0]
    /\ split' = IF inbuf[w] < Size THEN split \cup {w} ELSE split
    /\ count' = [count EXCEPT ![w] = @ + IF stop THEN 0 ELSE 1]
    /\ RequestOrClose(w)
    /\ UNCHANGED <<prog, mpc, stop, open, gone, stats>>

\* Whatever has arrived counts as the answer.
Read(w) ==
    /\ st[w] = "requests" /\ inbuf[w] > 0
    /\ stop \/ sent[w] < MaxReq
    /\ inbuf' = [inbuf EXCEPT ![w] = 0]
    /\ split' = IF inbuf[w] < Size THEN split \cup {w} ELSE split
    /\ count' = [count EXCEPT ![w] = @ + 1]
    /\ RequestOrClose(w)
    /\ UNCHANGED <<prog, mpc, stop, open, gone, stats>>

\* read() returns b"", or read() or drain() raises: break.
ReadEnds(w) ==
    /\ st[w] = "requests" /\ inbuf[w] = 0 /\ w \in gone
    /\ st' = [st EXCEPT ![w] = "close"]
    /\ UNCHANGED <<prog, mpc, stop, open, sent, net, count, stats>>

\* sleep(0.5) is over and stop_event is set.
IdleEnds(w) ==
    /\ st[w] = "idle" /\ stop
    /\ st' = [st EXCEPT ![w] = "close"]
    /\ UNCHANGED <<prog, mpc, stop, open, sent, net, count, stats>>

\* wait_closed() has returned or raised; the statistics follow.
Close(w) ==
    /\ st[w] = "close"
    /\ st' = [st EXCEPT ![w] = "done"]
    /\ open' = open \ {w}
    /\ total' = total + IF Does(w, "total") THEN count[w] ELSE 0
    /\ lats' = lats + IF Does(w, "latencies") THEN count[w] ELSE 0
    /\ UNCHANGED <<prog, mpc, stop, sent, net, count>>

-----------------------------------------------------------------------------
(* The server.                                                             *)

Deliver(w) ==
    /\ owed[w] > 0 /\ w \notin gone
    /\ \E n \in 1..owed[w] :
           /\ owed' = [owed EXCEPT ![w] = @ - n]
           /\ inbuf' = [inbuf EXCEPT ![w] = @ + n]
    /\ UNCHANGED <<prog, mpc, stop, st, open, sent, gone, count, split, stats>>

ServerCloses(w) ==
    /\ w \in open \ gone
    /\ gone' = gone \cup {w}
    /\ UNCHANGED <<prog, mpc, stop, st, open, sent, owed, inbuf, count, split, stats>>

-----------------------------------------------------------------------------
MainStep ==
    \/ SpawnIdle \/ IdleSpawned \/ Settle \/ SpawnActive
    \/ TimeIsUp \/ Gather \/ Cancel

WorkerStep(w) ==
    \/ Connected(w) \/ ConnectFails(w)
    \/ Read(w) \/ ReadEnds(w) \/ IdleEnds(w) \/ Close(w)

LoadNext ==
    \/ MainStep
    \/ \E w \in Workers : WorkerStep(w) \/ Deliver(w) \/ ServerCloses(w)

\* asyncio runs every coroutine that can go on, and timers fire.
LoadSpec ==
    /\ LoadInit /\ [][LoadNext]_loadVars
    /\ WF_loadVars(MainStep) /\ \A w \in Workers : WF_loadVars(WorkerStep(w))

-----------------------------------------------------------------------------
Sum(f) == MapThenSumSet(LAMBDA w : f[w], Active)

\* The report is complete: every answer that any client has read is in the
\* total, also the one that was outstanding when the time was up, and every
\* one has a latency in the scripts that report them.
TotalExact ==
    Returned /\ prog # "exp3" =>
        /\ total = Sum(count)
        /\ prog # "load_worker" => lats = total
        /\ \A w \in Active : w \notin gone /\ w \notin split /\ sent[w] > 0 =>
               count[w] = sent[w]

\* One answer counts once: a client never counts more answers than it has
\* sent requests, has at most one more outstanding, and, as long as no answer
\* came in pieces, has read as much as it has counted.
ClosedLoop ==
    \A w \in Active :
        /\ sent[w] - count[w] \in {0, 1}
        /\ w \notin split => owed[w] + inbuf[w] = Size * (sent[w] - count[w])

Unanswered(w) == st[w] = "requests" /\ inbuf[w] = 0 /\ w \notin gone
=============================================================================
