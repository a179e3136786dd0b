----------------------------- MODULE ServerUring -----------------------------
(***************************************************************************)
(* code/src/server_uring.c, the baseline io_uring server: one-shot accept, *)
(* read and write, each naming a struct conn_info on the heap, whose `type`*)
(* says what the completion is of.  (The snapshot io_uring_server_v1.c has *)
(* the same program text.)  An operation for which the submission queue has*)
(* no room is dropped: add_read(), add_write() and add_accept() return     *)
(* without a word.                                                         *)
(*                                                                         *)
(* A conn_info is named by its connection, and accept_conn by NoConn.  As  *)
(* in the kernel the measurements were made on (6.6), a read or an accept  *)
(* on a non-blocking socket waits in the ring until there is something.    *)
(***************************************************************************)
EXTENDS Sockets, FiniteSetsExt

CONSTANTS
    listen_fd,      \* the listener's descriptor
    ENTRIES,        \* capacity of the submission queue
    MAX_EVENTS,     \* completions in one batch
    AcceptMayFail,  \* TRUE: accept may fail for other reasons than its limit
    MallocMayFail   \* TRUE: malloc() of a conn_info may fail

ASSUME ServerUringAssumption ==
    /\ listen_fd \in Nat \ Fds
    /\ ENTRIES \in Nat \ {0} /\ MAX_EVENTS \in Nat \ {0}
    /\ AcceptMayFail \in BOOLEAN /\ MallocMayFail \in BOOLEAN

VARIABLES
    pc,         \* "boot", "wait", "reap", "submit" or "exit"
    count,      \* completions of the batch not yet handled
    conn,       \* the conn_info of each connection
    sq,         \* SQEs prepared since the last submit, oldest first
    ring,       \* SQEs the kernel has not completed
    cq          \* CQEs not yet seen, oldest first

uringVars == <<sockVars, pc, count, conn, sq, ring, cq>>

Accepting == [op |-> "accept", who |-> NoConn]
Reading(c) == [op |-> "read", who |-> c]
Writing(c) == [op |-> "write", who |-> c]

NoInfo == [fd |-> listen_fd, type |-> "freed", buf |-> <<>>]

UringInit ==
    /\ SocketsInit
    /\ pc = "boot"
    /\ count = 0
    /\ conn = [c \in Conns |-> NoInfo]
    /\ sq = <<>>
    /\ ring = {}
    /\ cq = <<>>

\* make_listener(), the ring and the first accept, or exit(EXIT_FAILURE).
UringBoot ==
    /\ pc = "boot"
    /\ \/ pc' = "submit" /\ listening' = TRUE /\ sq' = <<Accepting>>
       \/ pc' = "exit" /\ UNCHANGED <<listening, sq>>
    /\ UNCHANGED <<backlog, phase, owner, cl, rst, sent, taken, echo, got, count, conn, ring, cq>>

UringKill ==
    /\ pc \notin {"boot", "exit"}
    /\ pc' = "exit"
    /\ ProcessExit
    /\ sq' = <<>> /\ ring' = {} /\ cq' = <<>> /\ count' = 0
    /\ conn' = [c \in Conns |-> NoInfo]

-----------------------------------------------------------------------------
(* The kernel completes what it can, in any order.                         *)

\* res is what the system call would have returned, -1 for any error.
Done(s, res) ==
    /\ ring' = ring \ {s}
    /\ cq' = Append(cq, [who |-> s.who, res |-> res])

KernelAccept ==
    /\ Accepting \in ring
    /\ \/ \E f \in Fds :
             /\ AcceptAs(f)
             /\ owner' = [owner EXCEPT ![f] = Head(backlog)]
             /\ phase' = [phase EXCEPT ![Head(backlog)] = "open"]
             /\ Done(Accepting, f)
       \/ /\ AcceptNoFd \/ (AcceptMayFail /\ backlog # <<>>)
          /\ Done(Accepting, -1)
          /\ UNCHANGED <<backlog, phase, owner>>
    /\ UNCHANGED <<listening, cl, rst, sent, taken, echo, got, pc, count, conn, sq>>

KernelRead(c) ==
    /\ Reading(c) \in ring
    /\ LET s == owner[conn[c].fd]
       IN  \/ /\ Avail(s) > 0
              /\ conn' = [conn EXCEPT ![c].buf = ReadData(s)]
              /\ taken' = [taken EXCEPT ![s] = @ + ReadLen(s)]
              /\ Done(Reading(c), ReadLen(s))
           \/ /\ ReadEnds(s)
              /\ Done(Reading(c), IF rst[s] THEN -1 ELSE 0)
              /\ UNCHANGED <<conn, taken>>
    /\ UNCHANGED <<listening, backlog, phase, owner, cl, rst, sent, echo, got, pc, count, sq>>

\* A write takes what fits, which may be less than all.
KernelWrite(c) ==
    /\ Writing(c) \in ring
    /\ LET s == owner[conn[c].fd]
       IN  \/ /\ Write(s, conn[c].buf)
              /\ Done(Writing(c), WriteLen(s, conn[c].buf))
           \/ /\ WriteFails(s)
              /\ Done(Writing(c), -1)
              /\ UNCHANGED echo
    /\ UNCHANGED <<listening, backlog, phase, owner, cl, rst, sent, taken, got,
                   pc, count, conn, sq>>

-----------------------------------------------------------------------------
(* The loop.                                                               *)

\* io_uring_wait_cqe() and io_uring_peek_batch_cqe().
UringWait ==
    /\ pc = "wait"
    /\ cq # <<>>
    /\ count' = Lesser(Len(cq), MAX_EVENTS)
    /\ pc' = "reap"
    /\ UNCHANGED <<sockVars, conn, sq, ring, cq>>

\* io_uring_get_sqe() has a free SQE, or add_...() returns.
Room(q) == Len(q) < ENTRIES
Prepared(q, s) == IF Room(q) THEN Append(q, s) ELSE q

\* `type` is set together with the SQE.
Typed(info, t) == IF Room(sq) THEN [info EXCEPT !.type = t] ELSE info

Reap ==
    /\ pc = "reap"
    /\ count > 0
    /\ cq' = Tail(cq)
    /\ count' = count - 1
    /\ UNCHANGED <<listening, backlog, cl, rst, sent, taken, echo, got, pc, ring>>

\* Mutant: accept is re-armed only after a success.
ReapAcceptForgets ==
    /\ Reap
    /\ Head(cq).who = NoConn
    /\ LET f == Head(cq).res
       IN  \/ /\ f >= 0
              /\ conn' = [conn EXCEPT ![owner[f]] = Typed([NoInfo EXCEPT !.fd = f], "read")]
              /\ sq' = Prepared(Prepared(sq, Reading(owner[f])), Accepting)
              /\ UNCHANGED <<owner, phase>>
           \/ f < 0 /\ UNCHANGED <<owner, phase, conn, sq>>

\* accept() completed: read from the client, and accept the next one.
ReapAccept ==
    /\ Reap
    /\ Head(cq).who = NoConn
    /\ LET f == Head(cq).res
       IN  \/ /\ f >= 0
              /\ conn' = [conn EXCEPT ![owner[f]] = Typed([NoInfo EXCEPT !.fd = f], "read")]
              /\ sq' = Prepared(Prepared(sq, Reading(owner[f])), Accepting)
              /\ UNCHANGED <<owner, phase>>
           \/ /\ f >= 0 /\ MallocMayFail
              /\ CloseFd(f)
              /\ sq' = Prepared(sq, Accepting)
              /\ UNCHANGED conn
           \/ /\ f < 0
              /\ sq' = Prepared(sq, Accepting)
              /\ UNCHANGED <<owner, phase, conn>>

Completed(t) == Reap /\ Head(cq).who # NoConn /\ conn[Head(cq).who].type = t

\* close(conn->fd); free(conn);
Free(c) ==
    /\ CloseFd(conn[c].fd)
    /\ conn' = [conn EXCEPT ![c] = NoInfo]
    /\ UNCHANGED sq

\* Mutant: only the end of the stream closes, an error does not.
ReapReadOnlyEof ==
    /\ Completed("read")
    /\ LET c == Head(cq).who
       IN  \/ Head(cq).res = 0 /\ Free(c)
           \/ /\ Head(cq).res # 0
              /\ sq' = IF Head(cq).res < 0 THEN sq ELSE Prepared(sq, Writing(c))
              /\ conn' = [conn EXCEPT ![c] = Typed(@, "write")]
              /\ UNCHANGED <<owner, phase>>

ReapRead ==
    /\ Completed("read")
    /\ LET c == Head(cq).who
       IN  \/ Head(cq).res <= 0 /\ Free(c)
           \/ /\ Head(cq).res > 0
              /\ sq' = Prepared(sq, Writing(c))
              /\ conn' = [conn EXCEPT ![c] = Typed(@, "write")]
              /\ UNCHANGED <<owner, phase>>

\* Mutant: a completed write is followed by another.
ReapWriteAgain ==
    /\ Completed("write")
    /\ sq' = Prepared(sq, Writing(Head(cq).who))
    /\ UNCHANGED <<owner, phase, conn>>

\* However much was written, the next read follows.
ReapWrite ==
    /\ Completed("write")
    /\ LET c == Head(cq).who
       IN  \/ Head(cq).res <= 0 /\ Free(c)
           \/ /\ Head(cq).res > 0
              /\ sq' = Prepared(sq, Reading(c))
              /\ conn' = [conn EXCEPT ![c] = Typed(@, "read")]
              /\ UNCHANGED <<owner, phase>>

\* After the batch io_uring_submit() hands over all that is prepared.
UringSubmit ==
    /\ pc = "submit" \/ (pc = "reap" /\ count = 0)
    /\ ring' = ring \cup {sq[i] : i \in DOMAIN sq}
    /\ sq' = <<>>
    /\ pc' = "wait"
    /\ UNCHANGED <<sockVars, count, conn, cq>>

UringServer ==
    \/ UringWait \/ ReapAccept \/ ReapRead \/ ReapWrite \/ UringSubmit

UringKernel(c) == KernelRead(c) \/ KernelWrite(c)

UringNetwork ==
    /\ \E c \in Conns :
          \/ Connect(c) \/ ClientSend(c) \/ ClientRecv(c)
          \/ ClientShut(c) \/ ClientClose(c) \/ ResetArrives(c)
    /\ UNCHANGED <<pc, count, conn, sq, ring, cq>>

UringNext ==
    \/ UringBoot \/ UringServer \/ UringKill \/ UringNetwork
    \/ KernelAccept \/ \E c \in Conns : UringKernel(c)

UringSpec == UringInit /\ [][UringNext]_uringVars

\* A client takes what is sent to it, or the reset of one that is gone arrives.
Takes(c) ==
    /\ ClientRecv(c) \/ ResetArrives(c)
    /\ UNCHANGED <<pc, count, conn, sq, ring, cq>>

\* The thread runs, the kernel works off each connection's operation, and
\* every client that stays reads.
UringFairSpec ==
    /\ UringSpec
    /\ WF_uringVars(UringServer)
    /\ \A c \in Conns : WF_uringVars(UringKernel(c)) /\ WF_uringVars(Takes(c))

-----------------------------------------------------------------------------
Up == pc \notin {"boot", "exit"}

\* How many operations name a conn_info: prepared, in the kernel or completed.
Operations(who) ==
    Cardinality({i \in DOMAIN sq : sq[i].who = who})
        + Cardinality({s \in ring : s.who = who})
        + Cardinality({i \in DOMAIN cq : cq[i].who = who})

\* The completion that will tell of descriptor f has not been handled yet.
Announced(f) == \E i \in DOMAIN cq : cq[i].who = NoConn /\ cq[i].res = f

(***************************************************************************)
(* One accept is always underway, and one operation for each conn_info that*)
(* has not been freed: the memory a completion points to is still there and*)
(* `type` still says what was completed.  This rests on the room in the    *)
(* submission queue: a batch has at most one completion per client and one *)
(* accept, so ENTRIES must exceed the number of clients by one.            *)
(***************************************************************************)
OneOperation ==
    Up =>
    /\ Operations(NoConn) = 1
    /\ \A f \in OpenFds : Announced(f) \/ conn[owner[f]].fd = f
    /\ \A c \in Conns :
          /\ Operations(c) = IF conn[c].type = "freed" THEN 0 ELSE 1
          /\ \A s \in ring \cup {sq[i] : i \in DOMAIN sq} : s.who = c => s.op = conn[c].type

(***************************************************************************)
(* No request is dropped: while a connection is open something is underway *)
(* for it.  final_report.md says that the server scales to 5,000 clients   *)
(* "without dropping requests", thanks to a queue of 16,384 entries and a  *)
(* flush of the queue when it is full; server_uring.c has neither.         *)
(***************************************************************************)
NoRequestDropped ==
    \A f \in OpenFds : Announced(f) \/ Operations(owner[f]) > 0

\* A client is served from when accept_conn's completion has been handled.
ServedPhase ==
    [c \in Conns |->
        IF \E f \in OpenFds : owner[f] = c /\ Announced(f) THEN "queued" ELSE phase[c]]

(***************************************************************************)
(* The server implements EchoService for clients whose answers fit the     *)
(* socket (a short write is taken for a whole one), half-closing or not.   *)
(***************************************************************************)
Echoer == INSTANCE EchoService WITH phase <- ServedPhase
ImplementsEcho == Echoer!Spec

(***************************************************************************)
(* Nobody is left hanging: an open connection is closed, or reaches a point*)
(* where all its client sent is echoed and the client is still there.      *)
(***************************************************************************)
ServedOrReaped ==
    \A c \in Conns : (phase[c] = "open") ~> Settled(c)
=============================================================================
