----------------------------- MODULE MCFigures -----------------------------
(* Model checking of Loadgen, AsyncLoad, Calibration and Crossover: where  *)
(* the figures of the reports come from.  They share no state, and a       *)
(* behaviour is one of them.                                               *)
EXTENDS Loadgen, AsyncLoad, Calibration, Crossover

VARIABLE job

allVars == <<job, vars, loadVars, calVars, crossVars>>

MCInit ==
    /\ job \in {"loadgen", "load", "calibration", "crossover"}
    /\ Init /\ LoadInit /\ CalInit /\ CrossInit
    /\ job # "load" => prog = CHOOSE l \in Loads : TRUE

MCNext ==
    /\ UNCHANGED job
    /\ \/ job = "loadgen" /\ Next /\ UNCHANGED <<loadVars, calVars, crossVars>>
       \/ job = "load" /\ LoadNext /\ UNCHANGED <<vars, calVars, crossVars>>
       \/ job = "calibration" /\ CalNext /\ UNCHANGED <<vars, loadVars, crossVars>>
       \/ job = "crossover" /\ CrossNext /\ UNCHANGED <<vars, loadVars, calVars>>

WorkerOf(A) == job = "loadgen" /\ A /\ UNCHANGED <<job, loadVars, calVars, crossVars>>
LoadStep(A) == job = "load" /\ A /\ UNCHANGED <<job, vars, calVars, crossVars>>

\* The fairness of FairSpec and LoadSpec; calibration and plot may stop at any point.
MCSpec ==
    /\ MCInit /\ [][MCNext]_allVars
    /\ WF_allVars(WorkerOf(Worker)) /\ WF_allVars(WorkerOf(Tick))
    /\ WF_allVars(LoadStep(MainStep))
    /\ \A w \in Workers : WF_allVars(LoadStep(WorkerStep(w)))

\* Each load generator ends.  The worker of loadgen.c does so whatever the
\* server does, as its epoll_wait() has a timeout; the asyncio generators do
\* unless the server for ever owes some client an answer on a connection
\* it keeps open: read() has no time limit.
GeneratorReturns ==
    job \in {"loadgen", "load"} =>
        \/ <>(IF job = "loadgen" THEN pc = "done" ELSE Returned)
        \/ <>[](job = "load" /\ stop /\ \E w \in Active : Unanswered(w))

MCThreads == <<1, 2>>
MCServers == <<"server_poll", "epoll_et_server">>
MCLevels == <<0, 1, 3, 5>>
=============================================================================
