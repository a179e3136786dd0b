------------------------------ MODULE SpinEcho ------------------------------
(***************************************************************************)
(* What server_poll.c, server_select.c, server_epoll.c and                 *)
(* reference_server.c do with a ready client: a read(), then write() until *)
(* all of it is written, retrying on EAGAIN without looking at any other   *)
(* descriptor.  A retry that fails again changes nothing and is no step of *)
(* the model.                                                              *)
(***************************************************************************)
EXTENDS Sockets

CONSTANT listen_fd      \* the listener's descriptor, below every client's

ASSUME SpinEchoAssumption ==
    listen_fd \in Nat /\ \A f \in Fds : listen_fd < f

VARIABLES
    program,    \* the one that runs
    pc,         \* where its loop is
    cur,        \* the descriptor in hand
    buf         \* bytes read and not yet written

spinVars == <<pc, cur, buf>>

Programs == {"server_poll", "server_select", "server_epoll", "reference_server"}

SpinInit ==
    /\ SocketsInit
    /\ program \in Programs
    /\ pc = "boot"
    /\ cur = listen_fd
    /\ buf = <<>>

\* make_listener() binds and listens, or exits with EXIT_FAILURE.
SpinBoot ==
    /\ pc = "boot"
    /\ \/ pc' = "loop" /\ listening' = TRUE
       \/ pc' = "exit" /\ UNCHANGED listening
    /\ UNCHANGED <<backlog, phase, owner, cl, rst, sent, taken, echo, got, cur, buf>>

SpinExit ==
    /\ pc' = "exit"
    /\ ProcessExit
    /\ cur' = listen_fd /\ buf' = <<>>

\* accept() returned f and the server keeps it; the accept loop goes on.
SpinAccept(f) ==
    /\ pc = "accept"
    /\ AcceptAs(f)
    /\ owner' = [owner EXCEPT ![f] = Head(backlog)]
    /\ phase' = [phase EXCEPT ![Head(backlog)] = "open"]
    /\ UNCHANGED <<listening, cl, rst, sent, taken, echo, got, spinVars>>

\* accept() returned f and the server closes it at once.
SpinRefuse(f) ==
    /\ pc = "accept"
    /\ AcceptAs(f)
    /\ phase' = [phase EXCEPT ![Head(backlog)] = "done"]
    /\ UNCHANGED <<listening, owner, cl, rst, sent, taken, echo, got, cur, buf>>

\* EAGAIN or another error ends the accept loop.
SpinAcceptStops ==
    /\ pc = "accept"
    /\ AcceptWouldBlock \/ AcceptNoFd
    /\ pc' = "next"
    /\ UNCHANGED <<sockVars, cur, buf>>

SpinRead ==
    /\ pc = "read"
    /\ LET c == owner[cur]
       IN  /\ Avail(c) > 0
           /\ buf' = ReadData(c)
           /\ taken' = [taken EXCEPT ![c] = @ + ReadLen(c)]
    /\ pc' = "write"
    /\ UNCHANGED <<listening, backlog, phase, owner, cl, rst, sent, echo, got, cur>>

\* read() returned EAGAIN.
SpinEagain ==
    /\ pc' = "next"
    /\ UNCHANGED <<sockVars, cur, buf>>

\* Mutant: total_written is not advanced.
SpinWriteStuck ==
    /\ pc = "write"
    /\ buf # <<>>
    /\ Write(owner[cur], buf)
    /\ UNCHANGED <<listening, backlog, phase, owner, cl, rst, sent, taken, got, spinVars>>

SpinWrite ==
    /\ pc = "write"
    /\ buf # <<>>
    /\ Write(owner[cur], buf)
    /\ buf' = SubSeq(buf, WriteLen(owner[cur], buf) + 1, Len(buf))
    /\ UNCHANGED <<listening, backlog, phase, owner, cl, rst, sent, taken, got, pc, cur>>

SpinDone ==
    /\ pc = "write"
    /\ buf = <<>>
    /\ pc' = "next"
    /\ UNCHANGED <<sockVars, cur, buf>>

SpinClose ==
    /\ CloseFd(cur)
    /\ buf' = <<>>
    /\ pc' = "next"
    /\ UNCHANGED <<listening, backlog, cl, rst, sent, taken, echo, got, cur>>

\* read() <= 0, and write() < 0 with an error other than EAGAIN.
ReadStopped == pc = "read" /\ Avail(owner[cur]) = 0
WriteBroken == pc = "write" /\ buf # <<>> /\ WriteFails(owner[cur])

SpinNetwork ==
    /\ \E c \in Conns :
          \/ Connect(c) \/ ClientSend(c) \/ ClientRecv(c)
          \/ ClientShut(c) \/ ClientClose(c) \/ ResetArrives(c)
    /\ UNCHANGED spinVars

=============================================================================
