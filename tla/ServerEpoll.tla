----------------------------- MODULE ServerEpoll -----------------------------
(***************************************************************************)
(* The two servers that spin on epoll: the baseline code/src/server_epoll.c*)
(* (edge-triggered, read() until EAGAIN) and the calibration target        *)
(* code/src/reference_server.c (level-triggered, one read() per event, and *)
(* a close() on EPOLLERR or EPOLLHUP before anything else).                *)
(***************************************************************************)
EXTENDS SpinEcho

CONSTANTS
    MAX_EVENTS,     \* events one epoll_wait() harvests at most
    CtlAddMayFail   \* TRUE: EPOLL_CTL_ADD may fail (watch limit, memory)

ASSUME ServerEpollAssumption ==
    MAX_EVENTS \in Nat \ {0} /\ CtlAddMayFail \in BOOLEAN

VARIABLES
    batch,  \* events of the last epoll_wait() not yet handled
    rdl     \* edge-triggered epoll's ready list: edges not yet reported

epollVars == <<batch, rdl>>

edge == program = "server_epoll"

EpollInit ==
    /\ SpinInit
    /\ batch = {}
    /\ rdl = {}

EpollBoot == SpinBoot /\ UNCHANGED epollVars

EpollKill ==
    /\ pc \notin {"boot", "exit"}
    /\ SpinExit
    /\ batch' = {} /\ rdl' = {}

-----------------------------------------------------------------------------
(* The loop.                                                               *)

EpollReady ==
    {f \in OpenFds : Readable(owner[f])}
        \cup (IF backlog = <<>> THEN {} ELSE {listen_fd})

\* EPOLLERR and EPOLLHUP are reported unasked, here after a reset.
EpollEvent(f) == [fd |-> f, hup |-> f # listen_fd /\ rst[owner[f]]]

\* Level-triggered epoll reports what is ready; edge-triggered epoll works
\* off its ready list and drops the entries that are no longer ready.
EpollWait ==
    /\ pc = "loop"
    /\ LET listed == IF edge THEN rdl ELSE EpollReady
       IN  \E S \in SUBSET listed :
              /\ S \cap EpollReady # {}
              /\ Cardinality(S \cap EpollReady) <= MAX_EVENTS
              /\ Cardinality(S \cap EpollReady) = MAX_EVENTS \/ S = listed
              /\ batch' = {EpollEvent(f) : f \in S \cap EpollReady}
              /\ rdl' = rdl \ S
    /\ pc' = "next"
    /\ UNCHANGED <<sockVars, cur, buf>>

\* Only the reference server looks at the flags of an event.
EpollDispatch ==
    /\ pc = "next"
    /\ \E e \in batch :
          /\ batch' = batch \ {e}
          /\ cur' = e.fd
          /\ pc' = IF e.hup /\ ~edge THEN "hup"
                   ELSE IF e.fd = listen_fd THEN "accept" ELSE "read"
    /\ UNCHANGED <<sockVars, buf, rdl>>

EpollEndBatch ==
    /\ pc = "next"
    /\ batch = {}
    /\ pc' = "loop"
    /\ UNCHANGED <<sockVars, cur, buf, epollVars>>

-----------------------------------------------------------------------------
(* The listener: accept() until it fails.                                  *)

\* EPOLL_CTL_ADD queues a descriptor that is ready already.
EpollAccept ==
    /\ \E f \in Fds :
          /\ SpinAccept(f)
          /\ rdl' = IF edge /\ Readable(Head(backlog)) THEN rdl \cup {f} ELSE rdl
    /\ UNCHANGED batch

EpollAcceptUnwatched ==
    /\ CtlAddMayFail
    /\ \E f \in Fds : SpinRefuse(f)
    /\ UNCHANGED <<pc, epollVars>>

EpollAcceptStops == SpinAcceptStops /\ UNCHANGED epollVars

-----------------------------------------------------------------------------
(* A client.                                                               *)

EpollRead == SpinRead /\ UNCHANGED epollVars

\* usleep() or not, the write loop stays with this client.
EpollWriteSome == SpinWrite /\ UNCHANGED epollVars

\* Mutant: one read() per edge.
EpollWriteDoneLeaves ==
    /\ pc = "write"
    /\ buf = <<>>
    /\ pc' = "next"
    /\ UNCHANGED <<sockVars, cur, buf, epollVars>>

\* The baseline reads again, the reference server waits for the next event.
EpollWriteDone ==
    /\ pc = "write"
    /\ buf = <<>>
    /\ pc' = IF edge THEN "read" ELSE "next"
    /\ UNCHANGED <<sockVars, cur, buf, epollVars>>

\* close() takes the descriptor out of the epoll set and its ready list.
EpollDisconnect ==
    /\ SpinClose
    /\ rdl' = rdl \ {cur}
    /\ UNCHANGED batch

EpollHangUp == pc = "hup" /\ EpollDisconnect

EpollReadStops ==
    /\ ReadStopped
    /\ IF ReadWouldBlock(owner[cur]) THEN SpinEagain /\ UNCHANGED epollVars
                                     ELSE EpollDisconnect

EpollWriteStops == WriteBroken /\ EpollDisconnect

-----------------------------------------------------------------------------
EpollServer ==
    \/ EpollWait \/ EpollDispatch \/ EpollEndBatch
    \/ EpollAccept \/ EpollAcceptUnwatched \/ EpollAcceptStops
    \/ EpollRead \/ EpollReadStops \/ EpollWriteSome \/ EpollWriteDone \/ EpollWriteStops \/ EpollHangUp

\* Data, a FIN, a reset and a new connection make an edge; a close after a
\* shutdown sends nothing.
EpollWoken ==
    {f \in OpenFds : LET c == owner[f]
                     IN  \/ sent'[c] # sent[c] \/ rst'[c] # rst[c]
                         \/ cl[c] = "up" /\ cl'[c] # "up"}
        \cup (IF backlog' = backlog THEN {} ELSE {listen_fd})

EpollWake ==
    /\ rdl' = IF edge THEN rdl \cup EpollWoken ELSE rdl
    /\ UNCHANGED batch

EpollNetwork == SpinNetwork /\ EpollWake

EpollNext == EpollBoot \/ EpollServer \/ EpollKill \/ EpollNetwork

-----------------------------------------------------------------------------
(***************************************************************************)
(* The baseline never sleeps on a lost edge: when it calls epoll_wait()    *)
(* each connection with data, an end of stream or a reset to be read is on *)
(* the ready list, and so is the listener while clients wait for it.  What *)
(* arrives while the loop spins on some other client (lines 89-100 of      *)
(* server_epoll.c) is not forgotten either.  Only EMFILE breaks it: with a *)
(* client left in the queue the listener has no edge to come.              *)
(***************************************************************************)
NoLostEdge == edge /\ pc = "loop" => EpollReady \subseteq rdl
==============================================================================
