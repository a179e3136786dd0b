----------------------------- MODULE Processes -----------------------------
(***************************************************************************)
(* The server processes that a benchmark script starts, as the operating   *)
(* system shows them.  A process is named by the number of its Popen() and *)
(* is in one of the sets below until it has exited.  make_listener() sets  *)
(* SO_REUSEPORT, so a process that is left over does not keep a new one    *)
(* from listening on the same port: both then get connections.             *)
(***************************************************************************)
EXTENDS Naturals

VARIABLES
    starting,   \* started, not listening yet
    up,         \* listening
    told,       \* sent SIGTERM or SIGINT
    doomed      \* sent SIGKILL

procVars == <<starting, up, told, doomed>>

Alive == starting \cup up

ProcessesInit == starting = {} /\ up = {} /\ told = {} /\ doomed = {}

ProcessesTypeOK ==
    /\ starting \subseteq Nat /\ up \subseteq Nat
    /\ starting \cap up = {}
    /\ told \subseteq Alive /\ doomed \subseteq Alive

\* subprocess.Popen()
Start(p) ==
    /\ starting' = starting \cup {p}
    /\ UNCHANGED <<up, told, doomed>>

\* Nothing runs in a process with SIGKILL pending.
Listens(p) ==
    /\ p \in starting \ doomed
    /\ starting' = starting \ {p}
    /\ up' = up \cup {p}
    /\ UNCHANGED <<told, doomed>>

\* Whatever the reason: a program that is missing, a crash, a signal.
Exits(p) ==
    /\ p \in Alive
    /\ starting' = starting \ {p} /\ up' = up \ {p}
    /\ told' = told \ {p} /\ doomed' = doomed \ {p}

\* send_signal() and kill() do nothing to a process that has exited.
Tell(p) ==
    /\ told' = told \cup ({p} \cap Alive)
    /\ UNCHANGED <<starting, up, doomed>>

KillProc(p) ==
    /\ doomed' = doomed \cup ({p} \cap Alive)
    /\ UNCHANGED <<starting, up, told>>

\* connect_ex() of is_port_open() succeeds also with a process that is being
\* killed; only one that still runs answers a request.
PortOpen == up # {}
Answering == up \ doomed
=============================================================================
