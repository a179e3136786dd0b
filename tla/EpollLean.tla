----------------------------- MODULE EpollLean -----------------------------
(***************************************************************************)
(* code/src/epoll_lt_lean_server.c: EpollLt with the per-descriptor buffer *)
(* replaced by a pointer to a pending_write that malloc() provides when a  *)
(* write() falls short and free() takes back when it is drained or the     *)
(* connection ends.  pend[fd] # <<>> stands for a non-NULL pointer with    *)
(* unsent bytes.                                                           *)
(***************************************************************************)
EXTENDS EpollLt

CONSTANT MallocMayFail      \* TRUE: malloc() may return NULL

ASSUME EpollLeanAssumption == MallocMayFail \in BOOLEAN

VARIABLE heap               \* pending_write blocks allocated and not freed

leanVars == <<vars, heap>>

LeanInit == Init /\ heap = 0

\* What free(pw) of the descriptor in hand gives back.
Held(f) == IF pend[f] = <<>> THEN 0 ELSE 1

LeanBoot == Boot /\ UNCHANGED heap
LeanLoop ==
    /\ LoopTest \/ Enter \/ EpollWait \/ Dispatch \/ EndBatch \/ Signal
    /\ UNCHANGED heap
LeanExit == (Stop \/ Kill) /\ heap' = 0

\* The pointer is set to NULL without a look at its old value.
LeanAccept == (AcceptClient \/ AcceptRefused \/ AcceptStops) /\ UNCHANGED heap

\* Mutant: the drained block is not freed.
LeanFlushKeeps ==
    \/ (FlushWrite \/ FlushBlocked \/ FlushDrained) /\ UNCHANGED heap
    \/ FlushBroken /\ heap' = heap - 1

LeanFlush ==
    \/ (FlushWrite \/ FlushBlocked) /\ UNCHANGED heap
    \/ (FlushBroken \/ FlushDrained) /\ heap' = heap - 1

\* EAGAIN frees nothing; EOF or an error ends the connection.
LeanRead ==
    \/ ReadSome /\ UNCHANGED heap
    \/ ReadStops /\ heap' = IF Readable(owner[cur.fd]) THEN heap - Held(cur.fd) ELSE heap

\* The new block replaces pending_writes[fd]; an old one is not freed.
LeanWrite ==
    \/ WriteAll /\ UNCHANGED heap
    \/ WritePart /\ heap' = heap + 1
    \/ WriteBroken /\ heap' = heap - Held(cur.fd)

\* Without memory the rest of the echo is silently dropped.
LeanNoMemory ==
    /\ MallocMayFail
    /\ pc = "write"
    /\ LET c == owner[cur.fd]
           n == IF WriteWouldBlock(c) THEN 0 ELSE WriteLen(c, buf)
       IN  /\ ~WriteFails(c)
           /\ n < Len(buf)
           /\ echo' = [echo EXCEPT ![c] = @ \o SubSeq(buf, 1, n)]
    /\ buf' = <<>>
    /\ Done
    /\ UNCHANGED <<listening, backlog, phase, owner, cl, rst, sent, taken, got,
                   pend, interest, statVars, heap>>

LeanNetwork == Network /\ UNCHANGED heap

LeanNext ==
    \/ LeanBoot \/ LeanLoop \/ LeanExit \/ LeanAccept \/ LeanFlush \/ LeanRead
    \/ LeanWrite \/ LeanNoMemory \/ LeanNetwork

LeanSpec == LeanInit /\ [][LeanNext]_leanVars

-----------------------------------------------------------------------------
\* Blocks in use that pending_writes[] does not point to.
Leaked == heap - Buffered

(***************************************************************************)
(* For clients that wait for their answer, or whose window the socket      *)
(* takes (SafeClients): no block is leaked and none is freed twice.        *)
(***************************************************************************)
NoLeak == Leaked = 0

BlockStep ==
    \/ Leaked' = Leaked
    \/ pc' = "exit" /\ Leaked' = 0
    \/ /\ pc = "write" /\ pend[cur.fd] # <<>>
       /\ owner'[cur.fd] = owner[cur.fd]
       /\ Leaked' = Leaked + 1

(***************************************************************************)
(* For every client: each block is freed once, when it is drained or its   *)
(* connection ends, and is lost only where line 204 puts a new one in the  *)
(* place of one whose bytes still wait, which a client that pipelines can  *)
(* make it do.  Line 111 never finds a block in its place.                 *)
(***************************************************************************)
BlocksAccounted == [][BlockStep]_leanVars

\* Bytes read from the client of an open descriptor that are nowhere.
Lost(f) == taken[owner[f]] - Len(echo[owner[f]]) - Len(pend[f]) - InHand(f)

LossStep(f) ==
    \/ Lost(f)' = Lost(f)
    \/ /\ pc = "write" /\ cur.fd = f
       /\ \/ Lost(f)' = Lost(f) + Len(pend[f])
          \/ MallocMayFail /\ pend' = pend /\ Lost(f)' > Lost(f)

(***************************************************************************)
(* For every client: as long as a connection is open, no byte of it is     *)
(* lost and none is written twice, but in the two places where the code    *)
(* gives bytes up: line 204 loses what waits in the block it replaces, and *)
(* lines 197-206 the rest of the echo in hand, when malloc() returns NULL. *)
(***************************************************************************)
LossAccounted ==
    [][\A f \in OpenFds : owner'[f] = owner[f] => LossStep(f)]_leanVars
=============================================================================
