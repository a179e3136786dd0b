------------------------------ MODULE EpollEt ------------------------------
(***************************************************************************)
(* code/src/epoll_et_server.c: the loop of EpollLt with EPOLLET on every   *)
(* registration.  The kernel reports a descriptor once for each time it    *)
(* becomes ready, so what a handler leaves behind must be reported again   *)
(* by a new edge or it is never looked at.                                 *)
(*                                                                         *)
(* Where the two programs have the same text the action of EpollLt is      *)
(* reused; the read loop, the registrations and epoll_wait() differ.       *)
(***************************************************************************)
EXTENDS EpollLt

VARIABLE rdl    \* epoll's ready list: descriptors with an unreported edge

etVars == <<vars, rdl>>

EtInit == Init /\ rdl = {}

FdOf(c) == {f \in Fds : owner[f] = c /\ interest[f] # {}}

\* EPOLL_CTL_ADD and EPOLL_CTL_MOD look at the descriptor and queue it when
\* it is ready at that moment.
Repoll(f) == rdl' = IF (Revents(f) # {})' THEN rdl \cup {f} ELSE rdl

-----------------------------------------------------------------------------
(* Start, stop and the loop.                                               *)

EtBoot == Boot /\ UNCHANGED rdl
EtControl == (LoopTest \/ Enter \/ Dispatch \/ EndBatch) /\ UNCHANGED rdl
EtSignal == Signal /\ UNCHANGED rdl
EtStop == Stop /\ rdl' = {}
EtKill == Kill /\ rdl' = {}

\* epoll_wait() takes entries off the ready list, drops those that are no
\* longer ready, and reports the others with their present state.
EtWait ==
    /\ pc = "wait"
    /\ \E S \in SUBSET rdl :
          LET ready == S \cap Ready
          IN  /\ ready # {}
              /\ Cardinality(ready) <= LOCAL_MAX_EVENTS
              /\ Cardinality(ready) = LOCAL_MAX_EVENTS \/ S = rdl
              /\ batch' = {EventOf(f) : f \in ready}
              /\ rdl' = rdl \ S
    /\ pc' = "next"
    /\ UNCHANGED <<sockVars, cur, dataVars, statVars>>

-----------------------------------------------------------------------------
(* Handlers.                                                               *)

\* while (1) accept(); the registration sees what has already arrived.
EtAccept ==
    \/ AcceptClient /\ \E f \in FreeFds \ FreeFds' : Repoll(f)
    \/ (AcceptRefused \/ AcceptStops) /\ UNCHANGED rdl

EtFlush ==
    \/ (FlushWrite \/ FlushBlocked) /\ UNCHANGED rdl
    \/ FlushBroken /\ rdl' = rdl \ {cur.fd}
    \/ FlushDrained /\ \E f \in {cur.fd} : Repoll(f)

EtRead == ReadSome /\ UNCHANGED rdl

\* EAGAIN ends the loop; EOF or an error closes the connection.
EtReadStops ==
    /\ ReadStops
    /\ rdl' = IF Readable(owner[cur.fd]) THEN rdl \ {cur.fd} ELSE rdl

\* Mutant: a full read ends the loop as well.
AfterEchoBreaks == Done

\* A short read ends the loop, a full one reads again.
AfterEcho ==
    IF Len(buf) < BUF_SIZE THEN Done ELSE pc' = "read" /\ UNCHANGED <<batch, cur>>

EtWrite ==
    \/ EchoAll /\ AfterEcho /\ UNCHANGED rdl
    \/ EchoPart /\ AfterEcho /\ \E f \in {cur.fd} : Repoll(f)
    \/ WriteBroken /\ rdl' = rdl \ {cur.fd}

EtServer ==
    \/ EtControl \/ EtWait \/ EtStop
    \/ EtAccept \/ EtFlush \/ EtRead \/ EtReadStops \/ EtWrite

-----------------------------------------------------------------------------
(* The network makes the edges.                                            *)

\* Data, FIN and RST wake a registered descriptor; a close after a shutdown
\* has nothing left to send.
EtArrives(c) ==
    /\ ClientSend(c) \/ ClientShut(c) \/ ClientClose(c) \/ ResetArrives(c)
    /\ rdl' = IF cl[c] = "shut" /\ rst' = rst THEN rdl ELSE rdl \cup FdOf(c)

\* Space in the socket wakes it only while EPOLLOUT is registered.
EtRecv(c) ==
    /\ ClientRecv(c)
    /\ rdl' = rdl \cup {f \in FdOf(c) : "OUT" \in interest[f]}

EtConnect(c) == Connect(c) /\ rdl' = rdl \cup {listen_fd}

EtNetwork ==
    /\ \E c \in Conns : EtArrives(c) \/ EtRecv(c) \/ EtConnect(c)
    /\ UNCHANGED <<loopVars, dataVars, statVars>>

EtNext == EtBoot \/ EtServer \/ EtSignal \/ EtKill \/ EtNetwork

EtSpec == EtInit /\ [][EtNext]_etVars

EtFairness ==
    /\ WF_etVars(EtServer)
    /\ \A c \in Conns :
          /\ WF_etVars(EtRecv(c) /\ UNCHANGED <<loopVars, dataVars, statVars>>)
          /\ WF_etVars(/\ ResetArrives(c) /\ rdl' = rdl \cup FdOf(c)
                       /\ UNCHANGED <<loopVars, dataVars, statVars>>)

EtFairSpec == EtSpec /\ EtFairness

-----------------------------------------------------------------------------
(* Properties.                                                             *)

(***************************************************************************)
(* The thread never sleeps on a lost edge: unread data, or buffered bytes  *)
(* with room to send them, are always announced by an entry of the ready   *)
(* list, although the short-read break (lines 215-221) leaves the loop     *)
(* without seeing EAGAIN.  The same holds for connections to be accepted,  *)
(* while there are descriptors for them.                                   *)
(***************************************************************************)
NoLostEdge ==
    pc = "wait" =>
        /\ \A f \in OpenFds :
              LET c == owner[f]
              IN  Avail(c) > 0 \/ rst[c] \/ (pend[f] # <<>> /\ Space(c) > 0)
                    => f \in rdl
        /\ backlog # <<>> => listen_fd \in rdl \/ FreeFds = {}
=============================================================================
