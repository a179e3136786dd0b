------------------------------ MODULE UringOpt ------------------------------
(***************************************************************************)
(* code/src/io_uring_opt_server.c: multishot accept and recv, a ring of    *)
(* provided buffers, and one submit_and_wait() per round.                  *)
(*                                                                         *)
(* An SQE names a descriptor by number and the kernel resolves the number  *)
(* when it issues the SQE; from then on the request holds the connection   *)
(* itself.  user_data carries only the number, so a completion is applied  *)
(* to whatever the number stands for when it is reaped.                    *)
(***************************************************************************)
EXTENDS Sockets, FiniteSetsExt

CONSTANTS
    listen_fd,      \* the listener's descriptor
    MAX_FDS,        \* descriptors from here on are refused
    ENTRIES,        \* capacity of the submission queue
    Bids,           \* buffers of the provided ring (BUF_RING_ENTRIES of them)
    DeferTaskrun,   \* TRUE: completions happen inside submit_and_wait() only
    RecvMayEnd,     \* TRUE: the kernel may end a multishot recv after any data
    MaxNobufs       \* bound: times a recv finds the ring of buffers empty

ASSUME UringOptAssumption ==
    /\ listen_fd \in Nat \ Fds
    /\ MAX_FDS \in Nat
    /\ ENTRIES \in Nat \ {0}
    /\ Bids \subseteq Nat
    /\ DeferTaskrun \in BOOLEAN /\ RecvMayEnd \in BOOLEAN
    /\ MaxNobufs \in Nat

VARIABLES
    pc,         \* "boot", "submit", "wait", "reap", "rearm", "flush" or "exit"
    back,       \* where to continue after a flush of the submission queue
    sq,         \* prepared SQEs, oldest first
    accepting,  \* the multishot accept is armed
    recvs,      \* multishot recvs the kernel holds for each connection
    num,        \* the descriptor number in the recv's user_data
    sends,      \* sends waiting for space
    cq,         \* completions not yet reaped, oldest first
    free,       \* buffers in the provided ring
    store,      \* what each buffer holds
    active,     \* conns[fd].active
    starved,    \* ghost: times a recv found the ring of buffers empty
    g_events, g_requests

kernVars == <<accepting, recvs, num, sends>>
bufVars == <<free, store>>
statVars == <<starved, g_events, g_requests>>
uVars == <<sockVars, kernVars, bufVars, statVars, pc, back, sq, cq, active>>

NoBid == -1
Sqe(op, f, b) == [op |-> op, fd |-> f, bid |-> b]
\* res: "ok", "nobufs" or "bad"; len is 0 at the end of the stream.
Cqe(op, f, b, res, len, more) ==
    [op |-> op, fd |-> f, bid |-> b, res |-> res, len |-> len, more |-> more]

Init ==
    /\ SocketsInit
    /\ pc = "boot"
    /\ back = "reap"
    /\ sq = <<>>
    /\ accepting = FALSE
    /\ recvs = [c \in Conns |-> 0]
    /\ num = [c \in Conns |-> listen_fd]
    /\ sends = {}
    /\ cq = <<>>
    /\ free = {}
    /\ store = [b \in Bids |-> <<>>]
    /\ active = [f \in Fds |-> FALSE]
    /\ starved = 0
    /\ g_events = 0
    /\ g_requests = 0

\* make_listener(), the ring and the buffer ring, or exit(EXIT_FAILURE).
Boot ==
    /\ pc = "boot"
    /\ \/ /\ listening' = TRUE
          /\ free' = Bids
          /\ sq' = <<Sqe("accept", listen_fd, NoBid)>>
          /\ pc' = "submit"
       \/ /\ pc' = "exit"
          /\ UNCHANGED <<listening, free, sq>>
    /\ UNCHANGED <<backlog, phase, owner, cl, rst, sent, taken, echo, got,
                   kernVars, store, statVars, back, cq, active>>

\* The process is stopped; the kernel cancels everything.
Kill ==
    /\ pc \notin {"boot", "exit"}
    /\ pc' = "exit"
    /\ ProcessExit
    /\ sq' = <<>> /\ cq' = <<>> /\ sends' = {} /\ free' = {} /\ accepting' = FALSE
    /\ recvs' = [c \in Conns |-> 0]
    /\ UNCHANGED <<num, store, statVars, back, active>>

-----------------------------------------------------------------------------
(* The kernel issues SQEs in order.                                        *)

Post(e) == cq' = Append(cq, e)

\* A send takes what fits; without space it waits.
Transmit(c, f, b) ==
    IF rst[c] THEN /\ Post(Cqe("send", f, b, "bad", 0, FALSE))
                   /\ UNCHANGED echo
    ELSE /\ Write(c, store[b])
         /\ Post(Cqe("send", f, b, "ok", WriteLen(c, store[b]), FALSE))

Issue ==
    /\ pc \in {"submit", "flush"}
    /\ sq # <<>>
    /\ sq' = Tail(sq)
    /\ LET s == Head(sq)
           c == IF s.op = "accept" THEN NoConn ELSE owner[s.fd]
       IN  \/ /\ s.op = "accept"
              /\ accepting' = TRUE
              /\ UNCHANGED <<recvs, num, sends, cq, echo>>
           \/ /\ s.op # "accept" /\ c = NoConn
              /\ Post(Cqe(s.op, s.fd, s.bid, "bad", 0, FALSE))
              /\ UNCHANGED <<accepting, recvs, num, sends, echo>>
           \/ /\ s.op = "recv" /\ c # NoConn
              /\ recvs' = [recvs EXCEPT ![c] = @ + 1]
              /\ num' = [num EXCEPT ![c] = s.fd]
              /\ UNCHANGED <<accepting, sends, cq, echo>>
           \/ /\ s.op = "send" /\ c # NoConn
              /\ \/ /\ Writable(c)
                    /\ Transmit(c, s.fd, s.bid)
                    /\ UNCHANGED sends
                 \/ /\ ~Writable(c)
                    /\ sends' = sends \cup {[who |-> c, fd |-> s.fd, bid |-> s.bid]}
                    /\ UNCHANGED <<cq, echo>>
              /\ UNCHANGED <<accepting, recvs, num>>
    /\ UNCHANGED <<listening, backlog, phase, owner, cl, rst, sent, taken, got,
                   bufVars, statVars, pc, back, active>>

\* All SQEs are issued: wait for a completion, or go back to the CQE in hand.
Issued ==
    /\ pc \in {"submit", "flush"}
    /\ sq = <<>>
    /\ pc' = IF pc = "submit" THEN "wait" ELSE back
    /\ UNCHANGED <<sockVars, kernVars, bufVars, statVars, back, sq, cq, active>>

-----------------------------------------------------------------------------
(* The kernel completes requests.                                          *)

Working == IF DeferTaskrun THEN pc = "wait" ELSE pc \notin {"boot", "exit"}

CompleteAccept ==
    /\ Working
    /\ accepting
    /\ \/ \E f \in Fds :
             /\ AcceptAs(f)
             /\ owner' = [owner EXCEPT ![f] = Head(backlog)]
             /\ phase' = [phase EXCEPT ![Head(backlog)] = "open"]
             /\ Post(Cqe("accept", f, NoBid, "ok", 0, TRUE))
             /\ UNCHANGED accepting
       \/ /\ AcceptNoFd
          /\ Post(Cqe("accept", listen_fd, NoBid, "bad", 0, FALSE))
          /\ accepting' = FALSE
          /\ UNCHANGED <<owner, phase, backlog>>
    /\ UNCHANGED <<listening, cl, rst, sent, taken, echo, got, recvs, num, sends,
                   bufVars, statVars, pc, back, sq, active>>

\* Data goes to a provided buffer; without one, and at the end of the
\* stream, the multishot request ends.
CompleteRecv(c) ==
    /\ Working
    /\ recvs[c] > 0
    /\ \/ /\ Avail(c) > 0
          /\ \E b \in free, more \in {TRUE, ~RecvMayEnd} :
                /\ \A d \in free : b <= d
                /\ free' = free \ {b}
                /\ store' = [store EXCEPT ![b] = ReadData(c)]
                /\ taken' = [taken EXCEPT ![c] = @ + ReadLen(c)]
                /\ recvs' = [recvs EXCEPT ![c] = IF more THEN @ ELSE @ - 1]
                /\ Post(Cqe("recv", num[c], b, "ok", ReadLen(c), more))
          /\ UNCHANGED starved
       \/ /\ Avail(c) > 0 /\ free = {} /\ starved < MaxNobufs
          /\ starved' = starved + 1
          /\ recvs' = [recvs EXCEPT ![c] = @ - 1]
          /\ Post(Cqe("recv", num[c], NoBid, "nobufs", 0, FALSE))
          /\ UNCHANGED <<bufVars, taken>>
       \/ /\ ReadEnds(c)
          /\ recvs' = [recvs EXCEPT ![c] = @ - 1]
          /\ Post(Cqe("recv", num[c], NoBid, IF rst[c] THEN "bad" ELSE "ok", 0, FALSE))
          /\ UNCHANGED <<bufVars, taken, starved>>
    /\ UNCHANGED <<listening, backlog, phase, owner, cl, rst, sent, echo, got,
                   accepting, num, sends, g_events, g_requests, pc, back, sq, active>>

CompleteSend ==
    /\ Working
    /\ \E s \in sends :
          /\ Writable(s.who)
          /\ Transmit(s.who, s.fd, s.bid)
          /\ sends' = sends \ {s}
    /\ UNCHANGED <<listening, backlog, phase, owner, cl, rst, sent, taken, got,
                   accepting, recvs, num, bufVars, statVars, pc, back, sq, active>>

\* submit_and_wait() returns once there is a completion.
Return ==
    /\ pc = "wait"
    /\ cq # <<>>
    /\ pc' = "reap"
    /\ UNCHANGED <<sockVars, kernVars, bufVars, statVars, back, sq, cq, active>>

-----------------------------------------------------------------------------
(* The loop over the completions.                                          *)

\* get_sqe_safe(): a full queue is submitted first.
Flush ==
    /\ pc \in {"reap", "rearm"}
    /\ Len(sq) >= ENTRIES
    /\ pc' = "flush"
    /\ back' = pc
    /\ UNCHANGED <<sockVars, kernVars, bufVars, statVars, sq, cq, active>>

AddSqe(s) == Len(sq) < ENTRIES /\ sq' = Append(sq, s)

\* close(fd) by number: it may not be ours any more, or be nobody's.
CloseNumber(f) ==
    IF owner[f] = NoConn THEN UNCHANGED <<owner, phase>> ELSE CloseFd(f)

Reaping(op) == pc = "reap" /\ cq # <<>> /\ Head(cq).op = op
NextCqe == cq' = Tail(cq) /\ pc' = "reap"

ReapAccept ==
    /\ Reaping("accept")
    /\ LET e == Head(cq)
       IN  \/ /\ e.res = "ok" /\ e.fd < MAX_FDS
              /\ active' = [active EXCEPT ![e.fd] = TRUE]
              /\ AddSqe(Sqe("recv", e.fd, NoBid))
              /\ UNCHANGED <<owner, phase>>
           \/ /\ e.res = "ok" /\ e.fd >= MAX_FDS
              /\ CloseNumber(e.fd)
              /\ UNCHANGED <<active, sq>>
           \/ /\ e.res # "ok"
              /\ AddSqe(Sqe("accept", listen_fd, NoBid))
              /\ UNCHANGED <<owner, phase, active>>
    /\ NextCqe
    /\ UNCHANGED <<listening, backlog, cl, rst, sent, taken, echo, got,
                   kernVars, bufVars, statVars, back>>

\* Mutant: without a free SQE the data is dropped.
ReapRecvDrops ==
    /\ Reaping("recv")
    /\ LET e == Head(cq)
       IN  /\ e.len > 0
           /\ IF Len(sq) < ENTRIES THEN AddSqe(Sqe("send", e.fd, e.bid)) /\ UNCHANGED free
                                   ELSE free' = free \cup {e.bid} /\ UNCHANGED sq
    /\ g_events' = g_events + 1
    /\ pc' = "rearm"
    /\ UNCHANGED <<sockVars, kernVars, store, back, cq, active, starved, g_requests>>

\* Data is sent back from its buffer; ENOBUFS re-arms the recv.  Both go on
\* to the re-arm test below.
ReapRecv ==
    /\ Reaping("recv")
    /\ LET e == Head(cq)
       IN  \/ /\ e.len > 0
              /\ AddSqe(Sqe("send", e.fd, e.bid))
              /\ g_events' = g_events + 1
           \/ /\ e.res = "nobufs"
              /\ AddSqe(Sqe("recv", e.fd, NoBid))
              /\ UNCHANGED g_events
    /\ pc' = "rearm"
    /\ UNCHANGED <<sockVars, kernVars, bufVars, back, cq, active, starved, g_requests>>

\* Mutant: IORING_CQE_F_MORE is not looked at.
RearmAlways ==
    /\ pc = "rearm"
    /\ IF active[Head(cq).fd] THEN AddSqe(Sqe("recv", Head(cq).fd, NoBid)) ELSE UNCHANGED sq
    /\ NextCqe
    /\ UNCHANGED <<sockVars, kernVars, bufVars, statVars, back, active>>

\* Mutant: a multishot recv is taken to last for ever.
RearmNever ==
    /\ pc = "rearm"
    /\ NextCqe
    /\ UNCHANGED <<sockVars, kernVars, bufVars, statVars, back, sq, active>>

\* if (conns[fd].active && !(flags & IORING_CQE_F_MORE)): re-arm.
Rearm ==
    /\ pc = "rearm"
    /\ LET e == Head(cq)
       IN  IF active[e.fd] /\ ~e.more THEN AddSqe(Sqe("recv", e.fd, NoBid))
                                      ELSE UNCHANGED sq
    /\ NextCqe
    /\ UNCHANGED <<sockVars, kernVars, bufVars, statVars, back, active>>

\* End of stream or a fatal error.
ReapEof ==
    /\ Reaping("recv")
    /\ LET e == Head(cq)
       IN  /\ e.len = 0 /\ e.res # "nobufs"
           /\ active' = [active EXCEPT ![e.fd] = FALSE]
           /\ CloseNumber(e.fd)
    /\ NextCqe
    /\ UNCHANGED <<listening, backlog, cl, rst, sent, taken, echo, got,
                   kernVars, bufVars, statVars, back, sq>>

\* Mutant: the test for a failed send is inverted.
ReapSendInverted ==
    /\ Reaping("send")
    /\ LET e == Head(cq)
       IN  /\ free' = free \cup {e.bid}
           /\ store' = [store EXCEPT ![e.bid] = <<>>]
           /\ active' = [active EXCEPT ![e.fd] = FALSE]
           /\ IF e.res = "ok" THEN CloseNumber(e.fd) ELSE UNCHANGED <<owner, phase>>
    /\ NextCqe
    /\ UNCHANGED <<listening, backlog, cl, rst, sent, taken, echo, got,
                   kernVars, statVars, back, sq>>

\* Mutant: the buffer is not returned to the ring.
ReapSendLeaks ==
    /\ Reaping("send")
    /\ LET e == Head(cq)
       IN  IF e.res = "bad"
           THEN /\ active' = [active EXCEPT ![e.fd] = FALSE]
                /\ CloseNumber(e.fd)
                /\ UNCHANGED g_requests
           ELSE /\ g_requests' = g_requests + 1
                /\ UNCHANGED <<owner, phase, active>>
    /\ NextCqe
    /\ UNCHANGED <<listening, backlog, cl, rst, sent, taken, echo, got,
                   kernVars, bufVars, starved, g_events, back, sq>>

\* The buffer goes back to the ring; a failed send closes, any other counts
\* as a request, however much was sent.
ReapSend ==
    /\ Reaping("send")
    /\ LET e == Head(cq)
       IN  /\ free' = free \cup {e.bid}
           /\ store' = [store EXCEPT ![e.bid] = <<>>]
           /\ \/ /\ e.res = "bad"
                 /\ active' = [active EXCEPT ![e.fd] = FALSE]
                 /\ CloseNumber(e.fd)
                 /\ UNCHANGED g_requests
              \/ /\ e.res = "ok"
                 /\ g_requests' = g_requests + 1
                 /\ UNCHANGED <<owner, phase, active>>
    /\ NextCqe
    /\ UNCHANGED <<listening, backlog, cl, rst, sent, taken, echo, got,
                   kernVars, starved, g_events, back, sq>>

\* cq_advance() and round again.
EndRound ==
    /\ pc = "reap"
    /\ cq = <<>>
    /\ pc' = "submit"
    /\ UNCHANGED <<sockVars, kernVars, bufVars, statVars, back, sq, cq, active>>

-----------------------------------------------------------------------------
Submit == Issue \/ Issued \/ Return
Loop == Flush \/ ReapAccept \/ ReapRecv \/ Rearm \/ ReapEof \/ ReapSend \/ EndRound
Kernel == CompleteAccept \/ CompleteSend \/ \E c \in Conns : CompleteRecv(c)

Network ==
    /\ \E c \in Conns :
          \/ Connect(c) \/ ClientSend(c) \/ ClientRecv(c)
          \/ ClientShut(c) \/ ClientClose(c) \/ ResetArrives(c)
    /\ UNCHANGED <<kernVars, bufVars, statVars, pc, back, sq, cq, active>>

Next == Boot \/ Submit \/ Kernel \/ Loop \/ Kill \/ Network

Spec == Init /\ [][Next]_uVars

\* The thread runs, every call of submit_and_wait() works off what is ready,
\* and the clients read.
Fairness ==
    /\ WF_uVars(Submit \/ Loop)
    /\ SF_uVars(CompleteAccept)
    /\ SF_uVars(CompleteSend)
    /\ \A c \in Conns :
          /\ SF_uVars(CompleteRecv(c))
          /\ WF_uVars(/\ ClientRecv(c) \/ ResetArrives(c)
                     /\ UNCHANGED <<kernVars, bufVars, statVars, pc, back, sq, cq, active>>)

FairSpec == Spec /\ Fairness

-----------------------------------------------------------------------------
(* Properties.                                                             *)

Up == pc \notin {"boot", "exit"}

\* The completions whose handling has not begun.
Unreaped ==
    IF pc = "rearm" \/ (pc = "flush" /\ back = "rearm") THEN Tail(cq) ELSE cq

Count(s, Test(_)) == Cardinality({i \in DOMAIN s : Test(s[i])})

(***************************************************************************)
(* No buffer of the provided ring is lost or handed out twice: at any time *)
(* each one is in the ring, in a recv completion, in a send that is queued,*)
(* waiting or completed, and in one of these places only (lines 53-57, 86, *)
(* 211 and 234), whatever happened to the connection meanwhile.            *)
(***************************************************************************)
BuffersConserved ==
    Up => \A b \in Bids :
        LET Holds(x) == x.bid = b
        IN  Cardinality({b} \cap free) + Count(sq, Holds) + Count(Unreaped, Holds)
                + Cardinality({s \in sends : s.bid = b}) = 1

(***************************************************************************)
(* While the ring has buffers no more than one multishot recv is alive for *)
(* a connection, in the submission queue or in the kernel: with two, the   *)
(* end of the stream would complete twice and line 223 would close the     *)
(* number a second time, when it may belong to another client.             *)
(***************************************************************************)
OneRecv ==
    \A f \in OpenFds :
        LET Rearms(x) == x.op = "recv" /\ x.fd = f
        IN  recvs[owner[f]] + Count(sq, Rearms) <= 1

(***************************************************************************)
(* No connection is forgotten: whenever the thread sleeps, each open one   *)
(* has a recv in the kernel or a completion on its way that will arm one,  *)
(* although the kernel may end a multishot recv at any time (lines 212-230)*)
(* and a connection has no other timer or event to wake it.                *)
(***************************************************************************)
RecvArmed ==
    pc = "wait" => \A f \in OpenFds :
        \/ recvs[owner[f]] > 0
        \/ \E i \in DOMAIN cq : cq[i].fd = f /\ cq[i].op # "send"

(***************************************************************************)
(* Every byte received for an open connection is sent or still on its way: *)
(* in a recv completion, in the submission queue or in a waiting send.     *)
(***************************************************************************)
OnItsWay(f) ==
    LET From(b) == store[b] # <<>> /\ store[b][1][1] = owner[f]
        InSq == {sq[i].bid : i \in {j \in DOMAIN sq : sq[j].op = "send"}}
        InCq == {Unreaped[i].bid : i \in {j \in DOMAIN Unreaped : Unreaped[j].op = "recv"}}
    IN  {b \in (InSq \cup InCq \cup {s.bid : s \in sends}) \ {NoBid} : From(b)}
NothingDropped ==
    \A f \in OpenFds :
        taken[owner[f]] = Len(echo[owner[f]])
            + MapThenSumSet(LAMBDA b : Len(store[b]), OnItsWay(f))

(***************************************************************************)
(* "Closes strictly on res == 0 (EOF) or fatal errors" (CHANGES.md): as    *)
(* long as no descriptor is out of range, only connections whose client    *)
(* has ended its side are closed.                                          *)
(***************************************************************************)
NoInnocentClosed ==
    listening /\ (\A f \in Fds : f < MAX_FDS) =>
        \A c \in Conns : phase[c] = "done" => cl[c] # "up"

(***************************************************************************)
(* The io_uring server implements EchoService, for clients that leave when *)
(* they have been answered, with buffers and descriptors for all of them.  *)
(***************************************************************************)
Echoer == INSTANCE EchoService
ImplementsEcho == Echoer!Spec

\* Every byte a served client sent is echoed, unless its connection ends.
EveryByteEchoed ==
    \A c \in Conns : \A n \in 1..MaxBytes :
        (phase[c] = "open" /\ sent[c] >= n)
            ~> (Len(echo[c]) >= n \/ phase[c] = "done")
=============================================================================
