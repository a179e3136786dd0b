------------------------------ MODULE EpollLt ------------------------------
(***************************************************************************)
(* code/src/epoll_lt_server.c: one thread, one level-triggered epoll set,  *)
(* one read() per readiness event, and a per-descriptor buffer that keeps  *)
(* what a non-blocking write() would not take until EPOLLOUT.              *)
(*                                                                         *)
(* Every system call is one step and the clients may act between any two.  *)
(* client_states[fd].wbuf[woffset .. wlen) is pend[fd].                    *)
(***************************************************************************)
EXTENDS Sockets

CONSTANTS
    listen_fd,          \* the listener's descriptor
    MAX_FDS,            \* descriptors from here on are refused
    LOCAL_MAX_EVENTS,   \* events one epoll_wait() harvests at most
    STATS,              \* TRUE: compiled with -DSTATS
    CtlAddMayFail       \* TRUE: EPOLL_CTL_ADD may fail (watch limit, memory)

ASSUME EpollLtAssumption ==
    /\ listen_fd \in Nat \ Fds
    /\ MAX_FDS \in Nat
    /\ LOCAL_MAX_EVENTS \in Nat \ {0}
    /\ STATS \in BOOLEAN /\ CtlAddMayFail \in BOOLEAN

VARIABLES
    pc,         \* where the event loop is
    batch,      \* events of the last epoll_wait() not yet handled
    cur,        \* the event being handled
    buf,        \* bytes read and not yet written
    pend,       \* unsent bytes buffered for each descriptor
    interest,   \* each descriptor's epoll registration; {} when there is none
    g_stop, g_events, g_requests

loopVars == <<pc, batch, cur>>
dataVars == <<buf, pend, interest>>
statVars == <<g_stop, g_events, g_requests>>
vars == <<sockVars, loopVars, dataVars, statVars>>

Flags == {"IN", "OUT"}
NoEvent == [fd |-> listen_fd, rev |-> {}, who |-> NoConn]
\* `who` is a ghost: the connection the kernel reported the event for.
Events == [fd : Fds \cup {listen_fd}, rev : SUBSET Flags, who : Conns \cup {NoConn}]

Init ==
    /\ SocketsInit
    /\ pc = "boot"
    /\ batch = {}
    /\ cur = NoEvent
    /\ buf = <<>>
    /\ pend = [f \in Fds |-> <<>>]
    /\ interest = [f \in Fds |-> {}]
    /\ g_stop = FALSE
    /\ g_events = 0
    /\ g_requests = 0

-----------------------------------------------------------------------------
(* Start, stop and the loop.                                               *)

\* make_listener() binds and listens, or exits with EXIT_FAILURE.
Boot ==
    /\ pc = "boot"
    /\ \/ pc' = "loop" /\ listening' = TRUE
       \/ pc' = "exit" /\ UNCHANGED listening
    /\ UNCHANGED <<backlog, phase, owner, cl, rst, sent, taken, echo, got,
                   batch, cur, dataVars, statVars>>

\* while (!g_stop): the flag is read, and only then epoll_wait() is called.
LoopTest ==
    /\ pc = "loop"
    /\ pc' = IF g_stop THEN "stop" ELSE "enter"
    /\ UNCHANGED <<sockVars, batch, cur, dataVars, statVars>>

Enter ==
    /\ pc = "enter"
    /\ pc' = "wait"
    /\ UNCHANGED <<sockVars, batch, cur, dataVars, statVars>>

\* stats_sig_handler(); only a signal that finds the thread inside
\* epoll_wait() makes it return, with EINTR.
Signal ==
    /\ STATS
    /\ pc \notin {"boot", "exit"}
    /\ ~g_stop
    /\ g_stop' = TRUE
    /\ pc' = IF pc = "wait" THEN "stop" ELSE pc
    /\ UNCHANGED <<sockVars, batch, cur, dataVars, g_events, g_requests>>

\* The statistics are printed and main() returns.
Stop ==
    /\ pc = "stop"
    /\ pc' = "exit"
    /\ ProcessExit
    /\ batch' = {} /\ cur' = NoEvent /\ buf' = <<>>
    /\ pend' = [f \in Fds |-> <<>>] /\ interest' = [f \in Fds |-> {}]
    /\ UNCHANGED statVars

\* SIGKILL, or SIGTERM and SIGINT in a build without -DSTATS.
Kill ==
    /\ pc \notin {"boot", "exit", "stop"}
    /\ pc' = "exit"
    /\ ProcessExit
    /\ batch' = {} /\ cur' = NoEvent /\ buf' = <<>>
    /\ pend' = [f \in Fds |-> <<>>] /\ interest' = [f \in Fds |-> {}]
    /\ UNCHANGED statVars

\* What level-triggered epoll reports of a registered descriptor.
Revents(f) ==
    {e \in interest[f] :
        IF e = "IN" THEN Readable(owner[f]) ELSE Writable(owner[f])}

Ready ==
    {f \in OpenFds : Revents(f) # {}}
        \cup (IF backlog = <<>> THEN {} ELSE {listen_fd})

EventOf(f) ==
    IF f = listen_fd THEN [fd |-> f, rev |-> {"IN"}, who |-> NoConn]
                     ELSE [fd |-> f, rev |-> Revents(f), who |-> owner[f]]

EpollWait ==
    /\ pc = "wait"
    /\ \E S \in SUBSET Ready :
          /\ S # {}
          /\ Cardinality(S) = Lesser(Cardinality(Ready), LOCAL_MAX_EVENTS)
          /\ batch' = {EventOf(f) : f \in S}
    /\ pc' = "next"
    /\ UNCHANGED <<sockVars, cur, dataVars, statVars>>

Dispatch ==
    /\ pc = "next"
    /\ \E e \in batch :
          /\ batch' = batch \ {e}
          /\ cur' = e
          /\ pc' = IF e.fd = listen_fd THEN "accept"
                   ELSE IF "OUT" \in e.rev THEN "flush" ELSE "read"
    /\ UNCHANGED <<sockVars, dataVars, statVars>>

EndBatch ==
    /\ pc = "next"
    /\ batch = {}
    /\ pc' = "loop"
    /\ UNCHANGED <<sockVars, batch, cur, dataVars, statVars>>

Done ==
    /\ cur' = NoEvent
    /\ pc' = "next"
    /\ UNCHANGED batch

\* EPOLL_CTL_DEL, close() and the reset of client_states[fd].
DropClient(f) ==
    /\ CloseFd(f)
    /\ interest' = [interest EXCEPT ![f] = {}]
    /\ pend' = [pend EXCEPT ![f] = <<>>]
    /\ UNCHANGED <<listening, backlog, cl, rst, sent, taken, echo, got>>

-----------------------------------------------------------------------------
(* The listener's event: accept() until it fails.                          *)

\* Mutant: one accept() per event instead of a loop.
AcceptClientOnce ==
    /\ pc = "accept"
    /\ \E f \in Fds :
          /\ f < MAX_FDS
          /\ AcceptAs(f)
          /\ owner' = [owner EXCEPT ![f] = Head(backlog)]
          /\ phase' = [phase EXCEPT ![Head(backlog)] = "open"]
          /\ pend' = [pend EXCEPT ![f] = <<>>]
          /\ interest' = [interest EXCEPT ![f] = {"IN"}]
    /\ Done
    /\ UNCHANGED <<listening, cl, rst, sent, taken, echo, got, buf, statVars>>

AcceptClient ==
    /\ pc = "accept"
    /\ \E f \in Fds :
          /\ f < MAX_FDS
          /\ AcceptAs(f)
          /\ owner' = [owner EXCEPT ![f] = Head(backlog)]
          /\ phase' = [phase EXCEPT ![Head(backlog)] = "open"]
          /\ pend' = [pend EXCEPT ![f] = <<>>]
          /\ interest' = [interest EXCEPT ![f] = {"IN"}]
    /\ UNCHANGED <<listening, cl, rst, sent, taken, echo, got,
                   loopVars, buf, statVars>>

\* A descriptor out of range, or one epoll does not take, is closed at once.
AcceptRefused ==
    /\ pc = "accept"
    /\ \E f \in Fds :
          /\ AcceptAs(f)
          /\ f >= MAX_FDS \/ CtlAddMayFail
          /\ pend' = IF f < MAX_FDS THEN [pend EXCEPT ![f] = <<>>] ELSE pend
          /\ phase' = [phase EXCEPT ![Head(backlog)] = "done"]
    /\ UNCHANGED <<listening, owner, cl, rst, sent, taken, echo, got,
                   loopVars, buf, interest, statVars>>

\* EAGAIN, or any other error such as EMFILE: leave the accept loop.
AcceptStops ==
    /\ pc = "accept"
    /\ AcceptWouldBlock \/ AcceptNoFd
    /\ Done
    /\ UNCHANGED <<sockVars, dataVars, statVars>>

-----------------------------------------------------------------------------
(* EPOLLOUT: write the buffered bytes.                                     *)

AfterFlush == IF "IN" \in cur.rev THEN "read" ELSE "next"

\* Mutant: woffset is not advanced.
FlushWriteStuck ==
    /\ pc = "flush"
    /\ pend[cur.fd] # <<>>
    /\ Write(owner[cur.fd], pend[cur.fd])
    /\ UNCHANGED <<listening, backlog, phase, owner, cl, rst, sent, taken, got,
                   loopVars, dataVars, statVars>>

FlushWrite ==
    /\ pc = "flush"
    /\ LET c == owner[cur.fd]
           p == pend[cur.fd]
       IN  /\ p # <<>>
           /\ Write(c, p)
           /\ pend' = [pend EXCEPT ![cur.fd] = SubSeq(p, WriteLen(c, p) + 1, Len(p))]
    /\ UNCHANGED <<listening, backlog, phase, owner, cl, rst, sent, taken, got,
                   loopVars, buf, interest, statVars>>

FlushBlocked ==
    /\ pc = "flush"
    /\ pend[cur.fd] # <<>>
    /\ WriteWouldBlock(owner[cur.fd])
    /\ pc' = AfterFlush
    /\ cur' = IF pc' = "read" THEN cur ELSE NoEvent
    /\ UNCHANGED <<sockVars, batch, dataVars, statVars>>

\* Mutant: no continue after the close: the EPOLLIN part runs too.
FlushBrokenGoesOn ==
    /\ pc = "flush"
    /\ pend[cur.fd] # <<>>
    /\ WriteFails(owner[cur.fd])
    /\ DropClient(cur.fd)
    /\ pc' = AfterFlush
    /\ UNCHANGED <<batch, cur, buf, statVars>>

FlushBroken ==
    /\ pc = "flush"
    /\ pend[cur.fd] # <<>>
    /\ WriteFails(owner[cur.fd])
    /\ DropClient(cur.fd)
    /\ Done
    /\ UNCHANGED <<buf, statVars>>

\* Mutant: EPOLLOUT stays registered.
FlushDrainedKeepsOut ==
    /\ pc = "flush"
    /\ pend[cur.fd] = <<>>
    /\ g_requests' = IF STATS THEN g_requests + 1 ELSE g_requests
    /\ pc' = AfterFlush
    /\ cur' = IF pc' = "read" THEN cur ELSE NoEvent
    /\ UNCHANGED <<sockVars, batch, buf, pend, interest, g_stop, g_events>>

\* Mutant: the request that a flush completes is not counted.
FlushDrainedUncounted ==
    /\ pc = "flush"
    /\ pend[cur.fd] = <<>>
    /\ interest' = [interest EXCEPT ![cur.fd] = {"IN"}]
    /\ pc' = AfterFlush
    /\ cur' = IF pc' = "read" THEN cur ELSE NoEvent
    /\ UNCHANGED <<sockVars, batch, buf, pend, statVars>>

\* Mutant: EPOLLRDHUP is registered too, and no branch handles it.
FlushDrainedHup ==
    /\ pc = "flush"
    /\ pend[cur.fd] = <<>>
    /\ interest' = [interest EXCEPT ![cur.fd] = {"IN", "RDHUP"}]
    /\ g_requests' = IF STATS THEN g_requests + 1 ELSE g_requests
    /\ pc' = AfterFlush
    /\ cur' = IF pc' = "read" THEN cur ELSE NoEvent
    /\ UNCHANGED <<sockVars, batch, buf, pend, g_stop, g_events>>

FlushDrained ==
    /\ pc = "flush"
    /\ pend[cur.fd] = <<>>
    /\ interest' = [interest EXCEPT ![cur.fd] = {"IN"}]
    /\ g_requests' = IF STATS THEN g_requests + 1 ELSE g_requests
    /\ pc' = AfterFlush
    /\ cur' = IF pc' = "read" THEN cur ELSE NoEvent
    /\ UNCHANGED <<sockVars, batch, buf, pend, g_stop, g_events>>

-----------------------------------------------------------------------------
(* EPOLLIN: exactly one read(), then one write() of what it returned.      *)

ReadSome ==
    /\ pc = "read"
    /\ LET c == owner[cur.fd]
       IN  /\ Avail(c) > 0
           /\ buf' = ReadData(c)
           /\ taken' = [taken EXCEPT ![c] = @ + ReadLen(c)]
    /\ g_events' = IF STATS THEN g_events + 1 ELSE g_events
    /\ pc' = "write"
    /\ UNCHANGED <<listening, backlog, phase, owner, cl, rst, sent, echo, got,
                   batch, cur, pend, interest, g_stop, g_requests>>

\* read() <= 0: EAGAIN leaves the connection alone, anything else ends it.
ReadStops ==
    /\ pc = "read"
    /\ Avail(owner[cur.fd]) = 0
    /\ IF ReadWouldBlock(owner[cur.fd])
         THEN UNCHANGED <<sockVars, pend, interest>>
         ELSE DropClient(cur.fd)
    /\ Done
    /\ UNCHANGED <<buf, statVars>>

\* A complete write().
EchoAll ==
    /\ pc = "write"
    /\ LET c == owner[cur.fd]
       IN  /\ Write(c, buf)
           /\ WriteLen(c, buf) = Len(buf)
    /\ buf' = <<>>
    /\ g_requests' = IF STATS THEN g_requests + 1 ELSE g_requests
    /\ UNCHANGED <<listening, backlog, phase, owner, cl, rst, sent, taken, got,
                   pend, interest, g_stop, g_events>>

\* Mutant: memcpy() from buf, not from buf + n.
EchoPartRepeats ==
    /\ pc = "write"
    /\ LET c == owner[cur.fd]
           n == IF WriteWouldBlock(c) THEN 0 ELSE WriteLen(c, buf)
       IN  /\ ~WriteFails(c)
           /\ n < Len(buf)
           /\ echo' = [echo EXCEPT ![c] = @ \o SubSeq(buf, 1, n)]
           /\ pend' = [pend EXCEPT ![cur.fd] = buf]
    /\ interest' = [interest EXCEPT ![cur.fd] = {"IN", "OUT"}]
    /\ buf' = <<>>
    /\ UNCHANGED statVars
    /\ UNCHANGED <<listening, backlog, phase, owner, cl, rst, sent, taken, got>>

\* Mutant: the rest of a short write is forgotten.
EchoPartForgets ==
    /\ pc = "write"
    /\ LET c == owner[cur.fd]
           n == IF WriteWouldBlock(c) THEN 0 ELSE WriteLen(c, buf)
       IN  /\ ~WriteFails(c)
           /\ n < Len(buf)
           /\ echo' = [echo EXCEPT ![c] = @ \o SubSeq(buf, 1, n)]
           /\ pend' = pend
    /\ interest' = [interest EXCEPT ![cur.fd] = {"IN"}]
    /\ buf' = <<>>
    /\ UNCHANGED statVars
    /\ UNCHANGED <<listening, backlog, phase, owner, cl, rst, sent, taken, got>>

\* Mutant: EPOLLOUT is not registered.
EchoPartUnarmed ==
    /\ pc = "write"
    /\ LET c == owner[cur.fd]
           n == IF WriteWouldBlock(c) THEN 0 ELSE WriteLen(c, buf)
       IN  /\ ~WriteFails(c)
           /\ n < Len(buf)
           /\ echo' = [echo EXCEPT ![c] = @ \o SubSeq(buf, 1, n)]
           /\ pend' = [pend EXCEPT ![cur.fd] = SubSeq(buf, n + 1, Len(buf))]
    /\ interest' = [interest EXCEPT ![cur.fd] = {"IN"}]
    /\ buf' = <<>>
    /\ UNCHANGED statVars
    /\ UNCHANGED <<listening, backlog, phase, owner, cl, rst, sent, taken, got>>

\* A short write, or EAGAIN (n = 0): the rest overwrites client_states[fd].
EchoPart ==
    /\ pc = "write"
    /\ LET c == owner[cur.fd]
           n == IF WriteWouldBlock(c) THEN 0 ELSE WriteLen(c, buf)
       IN  /\ ~WriteFails(c)
           /\ n < Len(buf)
           /\ echo' = [echo EXCEPT ![c] = @ \o SubSeq(buf, 1, n)]
           /\ pend' = [pend EXCEPT ![cur.fd] = SubSeq(buf, n + 1, Len(buf))]
    /\ interest' = [interest EXCEPT ![cur.fd] = {"IN", "OUT"}]
    /\ buf' = <<>>
    /\ UNCHANGED <<listening, backlog, phase, owner, cl, rst, sent, taken, got,
                   statVars>>

WriteAll == EchoAll /\ Done
WritePart == EchoPart /\ Done

WriteBroken ==
    /\ pc = "write"
    /\ WriteFails(owner[cur.fd])
    /\ DropClient(cur.fd)
    /\ buf' = <<>>
    /\ Done
    /\ UNCHANGED statVars

-----------------------------------------------------------------------------
Loop == LoopTest \/ Enter \/ EpollWait \/ Dispatch \/ EndBatch \/ Stop
Accept == AcceptClient \/ AcceptRefused \/ AcceptStops
Flush == FlushWrite \/ FlushBlocked \/ FlushBroken \/ FlushDrained
Serve == ReadSome \/ ReadStops \/ WriteAll \/ WritePart \/ WriteBroken
Server == Loop \/ Accept \/ Flush \/ Serve

Network ==
    /\ \E c \in Conns :
          \/ Connect(c) \/ ClientSend(c) \/ ClientRecv(c)
          \/ ClientShut(c) \/ ClientClose(c) \/ ResetArrives(c)
    /\ UNCHANGED <<loopVars, dataVars, statVars>>

Next == Boot \/ Server \/ Signal \/ Kill \/ Network

Spec == Init /\ [][Next]_vars

Fairness ==
    /\ WF_vars(Server)
    /\ \A c \in Conns :
          /\ WF_vars(ClientRecv(c) /\ UNCHANGED <<loopVars, dataVars, statVars>>)
          /\ WF_vars(ResetArrives(c) /\ UNCHANGED <<loopVars, dataVars, statVars>>)

FairSpec == Spec /\ Fairness

-----------------------------------------------------------------------------
(* Properties.                                                             *)

\* The type invariant of the event loop and of the sockets.
TypeOK ==
    /\ SocketsTypeOK
    /\ pc \in {"boot", "loop", "enter", "wait", "next", "accept", "flush",
               "read", "write", "stop", "exit"}
    /\ batch \subseteq Events
    /\ cur \in Events
    /\ buf \in Seq(Byte)
    /\ pend \in [Fds -> Seq(Byte)]
    /\ interest \in [Fds -> SUBSET Flags]
    /\ g_stop \in BOOLEAN
    /\ g_events \in Nat
    /\ g_requests \in Nat

(***************************************************************************)
(* No event of a batch is handled for a connection other than the one the  *)
(* kernel reported it for: descriptors closed and reused while a batch is  *)
(* being worked off (lines 93-213) never meet a stale event of that batch. *)
(***************************************************************************)
EventsCurrent ==
    \A e \in batch \cup {cur} :
        e.fd # listen_fd => e.who # NoConn /\ owner[e.fd] = e.who

(***************************************************************************)
(* Every byte read from a connection that is still open is in exactly one  *)
(* of three places: written, in client_states[fd], or in the read buffer   *)
(* between lines 167 and 182.  In particular the memcpy of line 200 never  *)
(* overwrites bytes that are still waiting.                                *)
(***************************************************************************)
InHand(f) == IF pc = "write" /\ cur.fd = f THEN Len(buf) ELSE 0
NothingDropped ==
    \A f \in OpenFds :
        taken[owner[f]] = Len(echo[owner[f]]) + Len(pend[f]) + InHand(f)

(***************************************************************************)
(* Whenever the thread is about to sleep, EPOLLOUT is armed for exactly    *)
(* the descriptors with unsent bytes: a missing registration would leave   *)
(* the rest of an echo behind for ever, a spurious one would spin.         *)
(***************************************************************************)
PendingArmed ==
    pc = "wait" =>
        \A f \in Fds :
            interest[f] = CASE owner[f] = NoConn -> {}
                            [] owner[f] # NoConn /\ pend[f] = <<>> -> {"IN"}
                            [] OTHER -> {"IN", "OUT"}

(***************************************************************************)
(* The echoes that are buffered for their descriptors, one for each; among *)
(* them is one whose last byte the loop of line 132 has just written.      *)
(***************************************************************************)
Buffered ==
    Cardinality({f \in Fds : pend[f] # <<>>})
        + (IF pc = "flush" /\ pend[cur.fd] = <<>> THEN 1 ELSE 0)

(***************************************************************************)
(* The counters of a -DSTATS build (g_events at line 179, g_requests at    *)
(* lines 160 and 209).  An echo begins with the read that is counted as an *)
(* event and is unfinished, in the read buffer or in client_states, until  *)
(* it is counted as a request.  What the counters differ by beyond that    *)
(* are the echoes that were abandoned.                                     *)
(***************************************************************************)
Abandoned == g_events - g_requests - Buffered - (IF pc = "write" THEN 1 ELSE 0)

\* An echo to f is cut short: the connection is closed, or a second short
\* write overwrites what waits in client_states[f].
CutShort(f) ==
    /\ owner[f] # NoConn
    /\ \/ owner'[f] = NoConn /\ (pend[f] # <<>> \/ (pc = "write" /\ cur.fd = f))
       \/ pend[f] # <<>> /\ pc = "write" /\ cur.fd = f

CountStep ==
    \/ Abandoned' = Abandoned
    \/ Abandoned' > Abandoned /\ \E f \in Fds : CutShort(f)

(***************************************************************************)
(* No event and no request is missed or counted twice: as long as the      *)
(* server runs, an event is without its request only while its echo is     *)
(* unfinished, or for ever when that echo is cut short.  The printed       *)
(* self-check (lines 227-233) relies on it.                                *)
(***************************************************************************)
StatsExact == [][STATS /\ pc' # "exit" => CountStep]_vars

(***************************************************************************)
(* The level-triggered server implements EchoService: it admits or refuses *)
(* at accept(), its echo is at all times a prefix of what that client      *)
(* sent, and it never hangs up on a client that still wants an answer.     *)
(***************************************************************************)
Echoer == INSTANCE EchoService
ImplementsEcho == Echoer!Spec

(***************************************************************************)
(* Nobody is left hanging: each client that waits to be accepted or has    *)
(* been accepted gets its answer in full or is closed, and a client that   *)
(* is gone is always closed, so that its descriptor returns to the         *)
(* process.  Only a client that waits while there is no descriptor stays   *)
(* where it is: the accept loop of line 99 leaves on EMFILE.               *)
(* Fairness: the thread runs and the client reads.                         *)
(***************************************************************************)
ServedOrReaped ==
    \A c \in Conns :
        (phase[c] \in {"queued", "open"})
            ~> (Settled(c) \/ (phase[c] = "queued" /\ FreeFds = {}))
=============================================================================
