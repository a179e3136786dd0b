------------------------------ MODULE Sockets ------------------------------
(***************************************************************************)
(* The environment of every echo server of code/src: the kernel's TCP      *)
(* sockets as the servers see them through accept, read, write and close,  *)
(* and the clients at the other end.  It is external to the repository and *)
(* modelled from how the servers and the load generator use it.            *)
(*                                                                         *)
(* Data.  The i-th byte that connection c carries to the server is <<c,i>>,*)
(* so a lost, repeated, reordered or misdirected byte shows in `echo`.  A  *)
(* receive queue is always a contiguous part of what the client sent, so   *)
(* two counters (`sent`, `taken`) stand for it.                            *)
(***************************************************************************)
EXTENDS Integers, Sequences, FiniteSets

CONSTANTS
    Conns,      \* connections the clients may open, each used once
    NoConn,     \* "no connection", the owner of a free descriptor
    Fds,        \* descriptor numbers RLIMIT_NOFILE leaves for clients
    BACKLOG,    \* length of the accept queue
    BUF_SIZE,   \* size of the server's read buffer
    SndCap,     \* bytes of echo that fit between write() and the client
    MaxBytes,   \* bound: bytes one client sends
    Lockstep,   \* TRUE: a client sends only when everything was echoed
    ReqMin,     \* shortest and longest segment of a
    ReqMax,     \* lockstep client
    Window,     \* otherwise: bytes a client may have outstanding
    HalfClose,  \* TRUE: clients may shut down their sending side only
    Polite      \* TRUE: clients leave only when all they sent was echoed

ASSUME SocketsAssumption ==
    /\ NoConn \notin Conns
    /\ Fds \subseteq Nat
    /\ BACKLOG \in Nat \ {0} /\ BUF_SIZE \in Nat \ {0} /\ SndCap \in Nat \ {0}
    /\ MaxBytes \in Nat /\ ReqMin \in Nat /\ ReqMax \in Nat /\ Window \in Nat
    /\ Lockstep \in BOOLEAN /\ HalfClose \in BOOLEAN
    /\ Polite \in BOOLEAN

\* RLIMIT_NOFILE is a number.
ASSUME FdsFinite == IsFiniteSet(Fds)

VARIABLES
    listening,  \* the listener is bound and accepting SYNs
    backlog,    \* established connections not yet accepted, oldest first
    phase,      \* "none", "queued", "open" or "done" for each connection
    owner,      \* the connection behind each descriptor, or NoConn
    cl,         \* the client's end: "up", "shut" (half-closed) or "gone"
    rst,        \* a reset has reached the server
    sent,       \* bytes that have reached the server's receive queue
    taken,      \* bytes the server has read
    echo,       \* bytes the server's write() calls accepted, in order
    got         \* how many bytes of echo the client has received

sockVars == <<listening, backlog, phase, owner, cl, rst, sent, taken, echo, got>>

Byte == Conns \X Nat

SocketsTypeOK ==
    /\ listening \in BOOLEAN
    /\ backlog \in Seq(Conns)
    /\ phase \in [Conns -> {"none", "queued", "open", "done"}]
    /\ owner \in [Fds -> Conns \cup {NoConn}]
    /\ cl \in [Conns -> {"up", "shut", "gone"}]
    /\ rst \in [Conns -> BOOLEAN]
    /\ sent \in [Conns -> Nat]
    /\ taken \in [Conns -> Nat]
    /\ echo \in [Conns -> Seq(Byte)]
    /\ got \in [Conns -> Nat]

SocketsInit ==
    /\ listening = FALSE
    /\ backlog = <<>>
    /\ phase = [c \in Conns |-> "none"]
    /\ owner = [f \in Fds |-> NoConn]
    /\ cl = [c \in Conns |-> "up"]
    /\ rst = [c \in Conns |-> FALSE]
    /\ sent = [c \in Conns |-> 0]
    /\ taken = [c \in Conns |-> 0]
    /\ echo = [c \in Conns |-> <<>>]
    /\ got = [c \in Conns |-> 0]

-----------------------------------------------------------------------------
(* What the kernel knows about a connection.                               *)

Lesser(a, b) == IF a <= b THEN a ELSE b

\* n bytes of connection c, from position lo + 1 on.
Bytes(c, lo, n) == [i \in 1..n |-> <<c, lo + i>>]

Avail(c) == sent[c] - taken[c]
InFlight(c) == Len(echo[c]) - got[c]
Space(c) == SndCap - InFlight(c)
Eof(c) == cl[c] # "up"

\* The server is done with c for now: it has closed it, or has answered all
\* there was and the client may still send.
Settled(c) == phase[c] = "done" \/ (Len(echo[c]) = sent[c] /\ ~Eof(c))

\* The EPOLLIN/POLLIN and EPOLLOUT/POLLOUT conditions of a TCP socket; a
\* reset raises both.
Readable(c) == Avail(c) > 0 \/ Eof(c) \/ rst[c]
Writable(c) == Space(c) > 0 \/ rst[c]

FreeFds == {f \in Fds : owner[f] = NoConn}
OpenFds == {f \in Fds : owner[f] # NoConn}

-----------------------------------------------------------------------------
(* System calls of the server, as conditions and updates.                  *)

\* read(fd, buf, BUF_SIZE): queued data first, then the error, then EOF.
ReadLen(c) == Lesser(Avail(c), BUF_SIZE)
ReadData(c) == Bytes(c, taken[c], ReadLen(c))
ReadWouldBlock(c) == ~Readable(c)
ReadEnds(c) == Avail(c) = 0 /\ (Eof(c) \/ rst[c])

\* write(fd, data) on a non-blocking socket takes what fits.
WriteFails(c) == rst[c]
WriteWouldBlock(c) == ~rst[c] /\ Space(c) <= 0
WriteLen(c, data) == Lesser(Space(c), Len(data))
Write(c, data) ==
    /\ ~rst[c]
    /\ Space(c) > 0
    /\ echo' = [echo EXCEPT ![c] = @ \o SubSeq(data, 1, WriteLen(c, data))]

\* accept() returns the oldest queued connection on the lowest free number.
AcceptAs(f) ==
    /\ backlog # <<>>
    /\ f \in FreeFds
    /\ \A g \in FreeFds : f <= g
    /\ backlog' = Tail(backlog)

AcceptWouldBlock == backlog = <<>>
AcceptNoFd == backlog # <<>> /\ FreeFds = {}

\* close(fd) of an accepted connection.
CloseFd(f) ==
    /\ owner' = [owner EXCEPT ![f] = NoConn]
    /\ phase' = [phase EXCEPT ![owner[f]] = "done"]

\* The process ends: the kernel closes the listener and every descriptor.
ProcessExit ==
    /\ listening' = FALSE
    /\ backlog' = <<>>
    /\ owner' = [f \in Fds |-> NoConn]
    /\ phase' = [c \in Conns |-> IF phase[c] = "none" THEN "none" ELSE "done"]
    /\ UNCHANGED <<cl, rst, sent, taken, echo, got>>

-----------------------------------------------------------------------------
(* The clients and the network.                                            *)

Connected(c) == phase[c] \in {"queued", "open"}

Connect(c) ==
    /\ listening
    /\ phase[c] = "none"
    /\ Len(backlog) < BACKLOG
    /\ phase' = [phase EXCEPT ![c] = "queued"]
    /\ backlog' = Append(backlog, c)
    /\ UNCHANGED <<listening, owner, cl, rst, sent, taken, echo, got>>

\* How far the client's protocol lets it run ahead of the echo.
MaySend(c, n) ==
    IF Lockstep THEN got[c] = sent[c] /\ n \in ReqMin..ReqMax
                ELSE sent[c] + n - got[c] <= Window

\* A segment of n bytes reaches the server.
ClientSend(c) ==
    /\ Connected(c)
    /\ cl[c] = "up"
    /\ \E n \in 1..(MaxBytes - sent[c]) :
          /\ MaySend(c, n)
          /\ sent' = [sent EXCEPT ![c] = @ + n]
    /\ UNCHANGED <<listening, backlog, phase, owner, cl, rst, taken, echo, got>>

ClientRecv(c) ==
    /\ cl[c] # "gone"
    /\ InFlight(c) > 0
    /\ got' = [got EXCEPT ![c] = @ + 1]
    /\ UNCHANGED <<listening, backlog, phase, owner, cl, rst, sent, taken, echo>>

MayLeave(c) == Connected(c) /\ (Polite => got[c] = sent[c])

\* shutdown(SHUT_WR): the client keeps reading.
ClientShut(c) ==
    /\ HalfClose
    /\ MayLeave(c)
    /\ cl[c] = "up"
    /\ cl' = [cl EXCEPT ![c] = "shut"]
    /\ UNCHANGED <<listening, backlog, phase, owner, rst, sent, taken, echo, got>>

\* close(): by a FIN, or at once by a reset (unread data, SO_LINGER).
ClientClose(c) ==
    /\ MayLeave(c)
    /\ cl[c] # "gone"
    /\ cl' = [cl EXCEPT ![c] = "gone"]
    /\ \E r \in BOOLEAN : rst' = [rst EXCEPT ![c] = r]
    /\ UNCHANGED <<listening, backlog, phase, owner, sent, taken, echo, got>>

\* Echo that reaches a closed client is answered by a reset.
ResetArrives(c) ==
    /\ phase[c] = "open"
    /\ cl[c] = "gone"
    /\ InFlight(c) > 0
    /\ ~rst[c]
    /\ rst' = [rst EXCEPT ![c] = TRUE]
    /\ UNCHANGED <<listening, backlog, phase, owner, cl, sent, taken, echo, got>>

-----------------------------------------------------------------------------
(* The two client protocols under which the buffered servers are meant to  *)
(* be exact: one segment at a time, or a window that fits the socket.      *)
SafeClients ==
    IF Lockstep THEN ReqMax <= BUF_SIZE ELSE Window <= SndCap

(***************************************************************************)
(* EchoExact: what write() accepted for a connection is a prefix of what   *)
(* that connection's own client sent: no byte lost, repeated, reordered or *)
(* taken from another connection.                                          *)
(***************************************************************************)
EchoExact ==
    \A c \in Conns : \A i \in 1..Len(echo[c]) : echo[c][i] = <<c, i>>
=============================================================================
