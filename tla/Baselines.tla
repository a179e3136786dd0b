----------------------------- MODULE Baselines -----------------------------
(***************************************************************************)
(* The servers that write with a loop: server_poll, server_select,         *)
(* server_epoll and reference_server, which spin in it, and                *)
(* server_blocking, which sleeps in it.  One of them in each behaviour.    *)
(***************************************************************************)
EXTENDS ServerPoll, ServerSelect, ServerEpoll, ServerBlocking

VARIABLE threaded       \* TRUE: the server is server_blocking

blockOwn == <<main_pc, client_fd, threadVars>>
spinOwn == <<program, spinVars, pollVars, selVars, epollVars>>
allVars == <<threaded, sockVars, blockOwn, spinOwn>>

\* FD_SETSIZE matters to server_select only.
Init ==
    /\ threaded \in BOOLEAN
    /\ PollInit /\ SelectInit /\ EpollInit /\ BlockInit
    /\ program # "server_select" => FD_SETSIZE = Max(SetSizes)
    /\ threaded => program = "server_poll"

\* Only the program that runs has state.
Only(programs) ==
    /\ ~threaded /\ program \in programs
    /\ UNCHANGED <<threaded, program, blockOwn>>
    /\ "server_poll" \notin programs => UNCHANGED pollVars
    /\ "server_select" \notin programs => UNCHANGED selVars
    /\ "server_epoll" \notin programs => UNCHANGED epollVars

Blocking(A) == threaded /\ A /\ UNCHANGED <<threaded, spinOwn>>

Next ==
    \/ Only({"server_poll"}) /\ PollNext
    \/ Only({"server_select"}) /\ SelectNext
    \/ Only({"server_epoll", "reference_server"}) /\ EpollNext
    \/ Blocking(BlockNext)

\* The one thread of a spinning server.
Spinner ==
    \/ Only({"server_poll"}) /\ PollServer
    \/ Only({"server_select"}) /\ SelectServer
    \/ Only({"server_epoll", "reference_server"}) /\ EpollServer

\* The client of server_blocking of which it is assumed that it reads.
Reader == CHOOSE c \in Conns : TRUE
Reads(c) == threaded => c = Reader

\* A client takes what is sent to it, or the reset of one that is gone arrives.
Reading(c) ==
    /\ Reads(c)
    /\ ClientRecv(c) \/ ResetArrives(c)
    /\ UNCHANGED <<threaded, blockOwn, program, spinVars, pollVars, selVars>>
    /\ IF ~threaded /\ program \in {"server_epoll", "reference_server"} THEN EpollWake
       ELSE UNCHANGED epollVars

\* Every thread runs.  The clients of the spinning servers all read; of those
\* of server_blocking one does, and nothing is assumed of the others.
Spec ==
    /\ Init /\ [][Next]_allVars
    /\ WF_allVars(Spinner)
    /\ WF_allVars(Blocking(BlockMain))
    /\ \A c \in Conns : WF_allVars(Reading(c)) /\ WF_allVars(Blocking(Thread(c)))

(***************************************************************************)
(* Each server implements EchoService for every client, however it         *)
(* pipelines and although it may half-close: the write loop finishes an    *)
(* answer before anything else is read, so nothing is lost when the stream *)
(* ends, and a client that server_blocking has given a thread is never     *)
(* turned away (ServedPhase is phase in the other servers).                *)
(***************************************************************************)
Echoer == INSTANCE EchoService WITH phase <- ServedPhase
ImplementsEcho == Echoer!Spec

(***************************************************************************)
(* Nobody is left hanging: an open connection is closed, or reaches a      *)
(* point where all its client sent is echoed and the client is still       *)
(* there; a client that has ended its side is therefore always closed.     *)
(* Only the write outside its table that server_poll.c can make ends this. *)
(* In the spinning servers it depends on all clients.  In server_blocking  *)
(* it takes only that the client itself reads, whatever the others do, who *)
(* may send and never read: that is what a thread for each client buys.    *)
(***************************************************************************)
ServedOrReaped ==
    \A c \in Conns :
        (phase[c] = "open" /\ Reads(c)) ~> (Settled(c) \/ pc = "overrun")
=============================================================================
