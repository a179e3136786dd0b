------------------------------ MODULE Loadgen ------------------------------
(***************************************************************************)
(* code/loadgen/loadgen.c: one worker thread and the report of main().     *)
(* The worker opens its connections, keeps one request outstanding on each *)
(* active one, and counts what completes in the steady-state window.       *)
(*                                                                         *)
(* The server is external: it echoes byte by byte, and may close or reset. *)
(* Bytes are counted, not named; a wrong echo is a choice of Corrupts.     *)
(***************************************************************************)
EXTENDS Integers, FiniteSets, FiniteSetsExt

CONSTANTS
    NumConns,           \* num_conns of this worker
    NumActive,          \* num_active of this worker
    PAYLOAD_LEN,        \* bytes of a request
    MAX_EVENTS_PER_WAIT,    \* events one epoll_wait() harvests at most
    HISTOGRAM_BUCKETS,  \* latencies from here on are counted as overflow
    LatMax,             \* bound: longest latency
    MaxBytes,           \* bound: bytes the server echoes on one connection
    ConnectMayFail,     \* TRUE: socket(), connect() or epoll_ctl() may fail
    Corrupts            \* TRUE: a response may differ from the request

ASSUME LoadgenAssumption ==
    /\ NumConns \in Nat /\ NumActive \in 0..NumConns
    /\ PAYLOAD_LEN \in Nat \ {0} /\ HISTOGRAM_BUCKETS \in Nat \ {0}
    /\ MAX_EVENTS_PER_WAIT \in Nat \ {0}
    /\ LatMax \in Nat /\ MaxBytes \in Nat
    /\ ConnectMayFail \in BOOLEAN /\ Corrupts \in BOOLEAN

C == 1..NumConns
IsActive(c) == c <= NumActive

VARIABLES
    pc,             \* "connect", "loop", "wait", "next", "send", "recv",
                    \* "report" or "done"
    time,           \* where the clock is: "warmup", "steady" or "over"
    g_stop,
    in_steady_state,
    batch, cur,     \* events still to handle, and the connection in hand
    fd,             \* "zero" (calloc), "open", "failed" (-1) or "left"
    state,          \* 1: sending, 2: receiving
    send_offset, recv_offset,
    interest,       \* "none", "OUT" or "IN"
    wrote, echoed, read,    \* bytes of each connection so far
    peer,           \* "up", "fin" or "reset"
    completed_requests, errors, histogram, overflow_latencies,
    mismatches,     \* ghost: responses that differed
    p50, p99, p999  \* the report

connVars == <<fd, state, send_offset, recv_offset, interest>>
netVars == <<wrote, echoed, read, peer>>
statVars == <<completed_requests, errors, histogram, overflow_latencies, mismatches>>
outVars == <<p50, p99, p999>>
ctlVars == <<pc, time, g_stop, in_steady_state, batch, cur>>
vars == <<ctlVars, connVars, netVars, statVars, outVars>>

Init ==
    /\ pc = "connect" /\ time = "warmup" /\ g_stop = FALSE
    /\ in_steady_state = FALSE
    /\ batch = {} /\ cur = 1
    /\ fd = [c \in C |-> "zero"]
    /\ state = [c \in C |-> 1]
    /\ send_offset = [c \in C |-> 0] /\ recv_offset = [c \in C |-> 0]
    /\ interest = [c \in C |-> "none"]
    /\ wrote = [c \in C |-> 0] /\ echoed = [c \in C |-> 0] /\ read = [c \in C |-> 0]
    /\ peer = [c \in C |-> "up"]
    /\ completed_requests = 0 /\ errors = 0 /\ overflow_latencies = 0
    /\ histogram = [b \in 0..(HISTOGRAM_BUCKETS - 1) |-> 0]
    /\ mismatches = 0
    /\ p50 = 0 /\ p99 = 0 /\ p999 = 0

-----------------------------------------------------------------------------
(* The kernel and the server (external).                                   *)

Pending(c) == echoed[c] - read[c]

EchoByte(c) ==
    /\ peer[c] = "up"
    /\ echoed[c] < wrote[c]
    /\ echoed[c] < MaxBytes
    /\ echoed' = [echoed EXCEPT ![c] = @ + 1]
    /\ UNCHANGED <<ctlVars, connVars, wrote, read, peer, statVars, outVars>>

PeerLeaves(c) ==
    /\ fd[c] = "open"
    /\ peer[c] # "reset"
    /\ \E p \in {"fin", "reset"} \ {peer[c]} : peer' = [peer EXCEPT ![c] = p]
    /\ UNCHANGED <<ctlVars, connVars, wrote, echoed, read, statVars, outVars>>

Tick ==
    /\ pc \notin {"connect", "done"}
    /\ time # "over"
    /\ time' = IF time = "warmup" THEN "steady" ELSE "over"
    /\ UNCHANGED <<pc, g_stop, in_steady_state, batch, cur, connVars, netVars,
                   statVars, outVars>>

\* sig_handler(); a thread inside epoll_wait() returns from it with EINTR.
Signal ==
    /\ ~g_stop
    /\ g_stop' = TRUE
    /\ pc' \in {pc} \cup (IF pc = "wait" THEN {"loop"} ELSE {})
    /\ UNCHANGED <<time, in_steady_state, batch, cur, connVars, netVars,
                   statVars, outVars>>

-----------------------------------------------------------------------------
(* Opening the connections.                                                *)

\* A failed socket() leaves fd as calloc() made it; later failures close.
ConnectOne ==
    /\ pc = "connect"
    /\ cur \in C
    /\ cur' = cur + 1
    /\ \/ /\ fd' = [fd EXCEPT ![cur] = "open"]
          /\ interest' = [interest EXCEPT ![cur] = IF IsActive(cur) THEN "OUT" ELSE "none"]
          /\ UNCHANGED errors
       \/ /\ ConnectMayFail
          /\ \E r \in {"zero", "failed"} : fd' = [fd EXCEPT ![cur] = r]
          /\ errors' = errors + 1
          /\ UNCHANGED interest
    /\ UNCHANGED <<pc, time, g_stop, in_steady_state, batch, state, send_offset,
                   recv_offset, netVars, completed_requests, histogram,
                   overflow_latencies, mismatches, outVars>>

AllConnected ==
    /\ pc = "connect"
    /\ cur \notin C
    /\ pc' = "loop"
    /\ UNCHANGED <<time, g_stop, in_steady_state, batch, cur, connVars, netVars,
                   statVars, outVars>>

-----------------------------------------------------------------------------
(* The event loop.                                                         *)

LoopTest ==
    /\ pc = "loop"
    /\ in_steady_state' = (in_steady_state \/ (~g_stop /\ time # "warmup"))
    /\ pc' = IF g_stop \/ time = "over" THEN "report" ELSE "wait"
    /\ UNCHANGED <<time, g_stop, batch, cur, connVars, netVars, statVars, outVars>>

\* The events reported for c; EPOLLERR and EPOLLHUP need no registration.
Revents(c) ==
    IF fd[c] # "open" THEN {}
    ELSE IF peer[c] = "reset" THEN {"ERR"}
    ELSE {r \in {"OUT", "IN"} :
             /\ interest[c] = r
             /\ r = "OUT" \/ Pending(c) > 0 \/ peer[c] = "fin"}

Ready == UNION {{c} \X Revents(c) : c \in C}

\* Mutant: no timeout.
EpollWaitForever ==
    /\ pc = "wait"
    /\ Ready # {}
    /\ batch' = Ready
    /\ pc' = "next"
    /\ UNCHANGED <<time, g_stop, in_steady_state, cur, connVars, netVars, statVars, outVars>>

\* epoll_wait() with a timeout of 100 ms: without events the batch is empty.
EpollWait ==
    /\ pc = "wait"
    /\ batch' \in {S \in SUBSET Ready : Cardinality(S) =
          IF Cardinality(Ready) < MAX_EVENTS_PER_WAIT THEN Cardinality(Ready)
                                                      ELSE MAX_EVENTS_PER_WAIT}
    /\ pc' = "next"
    /\ UNCHANGED <<time, g_stop, in_steady_state, cur, connVars, netVars, statVars, outVars>>

\* errors++; close(fd); fd = -1
Fail(c) ==
    /\ fd' = [fd EXCEPT ![c] = "failed"]
    /\ errors' = errors + 1

Dispatch ==
    /\ pc = "next"
    /\ \E e \in batch :
          LET c == e[1]
          IN  /\ batch' = batch \ {e}
              /\ cur' = c
              /\ IF e[2] = "ERR" THEN Fail(c) ELSE UNCHANGED <<fd, errors>>
              /\ pc' = CASE e[2] = "OUT" /\ state[c] = 1 -> "send"
                          [] e[2] = "IN" /\ state[c] = 2 -> "recv"
                          [] OTHER -> "next"
    /\ UNCHANGED <<time, g_stop, in_steady_state, state, send_offset, recv_offset,
                   interest, netVars, completed_requests, histogram,
                   overflow_latencies, mismatches, outVars>>

EndBatch ==
    /\ pc = "next"
    /\ batch = {}
    /\ pc' = "loop"
    /\ UNCHANGED <<time, g_stop, in_steady_state, batch, cur, connVars, netVars,
                   statVars, outVars>>

-----------------------------------------------------------------------------
(* One request.                                                            *)

\* write() takes some of the bytes left; all of them ends the send path.
SendSome ==
    /\ pc = "send"
    /\ peer[cur] # "reset"
    /\ LET left == PAYLOAD_LEN - send_offset[cur]
       IN  \E n \in 1..left :
           /\ wrote' = [wrote EXCEPT ![cur] = @ + n]
           /\ IF n = left
                THEN /\ state' = [state EXCEPT ![cur] = 2]
                     /\ send_offset' = [send_offset EXCEPT ![cur] = 0]
                     /\ recv_offset' = [recv_offset EXCEPT ![cur] = 0]
                     /\ interest' = [interest EXCEPT ![cur] = "IN"]
                     /\ pc' = "next"
                ELSE /\ send_offset' = [send_offset EXCEPT ![cur] = @ + n]
                     /\ UNCHANGED <<state, recv_offset, interest, pc>>
    /\ UNCHANGED <<time, g_stop, in_steady_state, batch, cur, fd, echoed, read, peer,
                   statVars, outVars>>

\* Mutant: EAGAIN is counted as an error.
SendStopsCounts ==
    /\ pc = "send"
    /\ fd' = IF peer[cur] = "reset" THEN [fd EXCEPT ![cur] = "failed"] ELSE fd
    /\ errors' = errors + 1
    /\ pc' = "next"
    /\ UNCHANGED <<time, g_stop, in_steady_state, batch, cur, state, send_offset,
                   recv_offset, interest, netVars, completed_requests, histogram,
                   overflow_latencies, mismatches, outVars>>

\* EAGAIN waits for the next EPOLLOUT, another error ends the connection.
SendStops ==
    /\ pc = "send"
    /\ \/ /\ peer[cur] # "reset"
          /\ UNCHANGED <<fd, errors>>
       \/ /\ peer[cur] = "reset"
          /\ Fail(cur)
    /\ pc' = "next"
    /\ UNCHANGED <<time, g_stop, in_steady_state, batch, cur, state, send_offset,
                   recv_offset, interest, netVars, completed_requests, histogram,
                   overflow_latencies, mismatches, outVars>>

\* read() until the response is complete.
RecvSome ==
    /\ pc = "recv"
    /\ recv_offset[cur] < PAYLOAD_LEN
    /\ Pending(cur) > 0
    /\ LET left == PAYLOAD_LEN - recv_offset[cur]
           n == IF left <= Pending(cur) THEN left ELSE Pending(cur)
       IN  /\ read' = [read EXCEPT ![cur] = @ + n]
           /\ recv_offset' = [recv_offset EXCEPT ![cur] = @ + n]
    /\ UNCHANGED <<ctlVars, fd, state, send_offset, interest, wrote, echoed, peer,
                   statVars, outVars>>

RecvStops ==
    /\ pc = "recv"
    /\ recv_offset[cur] < PAYLOAD_LEN
    /\ Pending(cur) <= 0
    /\ \/ peer[cur] = "up" /\ UNCHANGED <<fd, errors>>
       \/ peer[cur] # "up" /\ Fail(cur)
    /\ pc' = "next"
    /\ UNCHANGED <<time, g_stop, in_steady_state, batch, cur, state, send_offset,
                   recv_offset, interest, netVars, completed_requests, histogram,
                   overflow_latencies, mismatches, outVars>>

\* The response is compared and, in the steady state, counted.
Count(lat) ==
    IF ~in_steady_state
    THEN UNCHANGED <<completed_requests, histogram, overflow_latencies>>
    ELSE /\ completed_requests' = completed_requests + 1
         /\ IF lat < HISTOGRAM_BUCKETS
              THEN /\ histogram' = [histogram EXCEPT ![lat] = @ + 1]
                   /\ UNCHANGED overflow_latencies
              ELSE /\ overflow_latencies' = overflow_latencies + 1
                   /\ UNCHANGED histogram

Verify ==
    \/ /\ Corrupts
       /\ mismatches' = mismatches + 1
       /\ UNCHANGED <<completed_requests, histogram, overflow_latencies>>
    \/ /\ \E lat \in 0..LatMax : Count(lat)
       /\ UNCHANGED mismatches

\* Mutant: recv_offset is not reset.
CompleteNoReset ==
    /\ pc = "recv"
    /\ recv_offset[cur] = PAYLOAD_LEN
    /\ peer[cur] # "reset"
    /\ Verify
    /\ UNCHANGED recv_offset
    /\ \E n \in 0..PAYLOAD_LEN :
           /\ wrote' = [wrote EXCEPT ![cur] = @ + n]
           /\ state' = [state EXCEPT ![cur] = IF n = PAYLOAD_LEN THEN 2 ELSE 1]
           /\ send_offset' = [send_offset EXCEPT ![cur] = IF n = PAYLOAD_LEN THEN 0 ELSE n]
           /\ interest' = [interest EXCEPT ![cur] = IF n = PAYLOAD_LEN THEN "IN" ELSE "OUT"]
    /\ errors' = errors + mismatches' - mismatches
    /\ pc' = "next"
    /\ UNCHANGED <<time, g_stop, in_steady_state, batch, cur, fd, echoed, read, peer, outVars>>

\* The next request is written at once, without waiting for EPOLLOUT.
Complete ==
    /\ pc = "recv"
    /\ recv_offset[cur] = PAYLOAD_LEN
    /\ Verify
    /\ recv_offset' = [recv_offset EXCEPT ![cur] = 0]
    /\ LET bad == mismatches' - mismatches
       IN  \/ /\ peer[cur] = "reset"
              /\ fd' = [fd EXCEPT ![cur] = "failed"]
              /\ errors' = errors + bad + 1
              /\ state' = [state EXCEPT ![cur] = 1]
              /\ UNCHANGED <<wrote, send_offset, interest>>
           \/ /\ peer[cur] # "reset"
              /\ wrote' = [wrote EXCEPT ![cur] = @ + PAYLOAD_LEN]
              /\ errors' = errors + bad
              /\ UNCHANGED <<fd, state, send_offset, interest>>
           \/ /\ peer[cur] # "reset"
              /\ \E n \in 0..(PAYLOAD_LEN - 1) :      \* 0: EAGAIN
                    /\ wrote' = [wrote EXCEPT ![cur] = @ + n]
                    /\ send_offset' = [send_offset EXCEPT ![cur] = n]
              /\ errors' = errors + bad
              /\ state' = [state EXCEPT ![cur] = 1]
              /\ interest' = [interest EXCEPT ![cur] = "OUT"]
              /\ UNCHANGED fd
    /\ pc' = "next"
    /\ UNCHANGED <<time, g_stop, in_steady_state, batch, cur, echoed, read, peer, outVars>>

-----------------------------------------------------------------------------
(* The end.                                                                *)

\* The first bucket at which the running count reaches n, if there is one.
Upto(b) == MapThenSumSet(LAMBDA k : histogram[k], 0..b)
\* Mutant: the count is compared before the bucket is added to it.
ReachedBefore(n) == {b \in DOMAIN histogram : Upto(b - 1) >= n}

Reached(n) == {b \in DOMAIN histogram : Upto(b) >= n}
Quantile(num, den) ==
    LET found == Reached((completed_requests * num) \div den)
    IN  IF found = {} THEN 0 ELSE Min(found)

\* Connections are closed; main() merges and prints the percentiles.
Report ==
    /\ pc = "report"
    /\ fd' = [c \in C |-> IF fd[c] = "failed" THEN "failed" ELSE "left"]
    /\ IF completed_requests = 0 THEN UNCHANGED outVars
       ELSE /\ p50' = Quantile(50, 100)
            /\ p99' = Quantile(99, 100)
            /\ p999' = IF /\ Reached((completed_requests * 999) \div 1000) = {}
                          /\ overflow_latencies > 0
                         THEN HISTOGRAM_BUCKETS ELSE Quantile(999, 1000)
    /\ pc' = "done"
    /\ UNCHANGED <<time, g_stop, in_steady_state, batch, cur, state, send_offset,
                   recv_offset, interest, netVars, statVars>>

-----------------------------------------------------------------------------
Worker ==
    \/ ConnectOne \/ AllConnected \/ LoopTest \/ EpollWait \/ Dispatch \/ EndBatch
    \/ SendSome \/ SendStops \/ RecvSome \/ RecvStops \/ Complete \/ Report

Next ==
    \/ Worker \/ Tick \/ Signal
    \/ \E c \in C : EchoByte(c) \/ PeerLeaves(c)

Spec == Init /\ [][Next]_vars

\* The thread runs and time passes; nothing is asked of the server.
FairSpec == Spec /\ WF_vars(Worker) /\ WF_vars(Tick)

-----------------------------------------------------------------------------
(* Properties.                                                             *)

(***************************************************************************)
(* The load is closed-loop: the bytes outstanding on a connection are      *)
(* exactly those of the one request in progress, sent so far or still to   *)
(* be answered.  The servers with a bounded write buffer rely on it.       *)
(***************************************************************************)
OneOutstanding ==
    \A c \in C : fd[c] = "open" =>
        wrote[c] - read[c] = IF state[c] = 2 THEN PAYLOAD_LEN - recv_offset[c]
                                             ELSE send_offset[c]

(***************************************************************************)
(* The error count that decides whether a trial is valid counts every lost *)
(* connection once and every wrong response once, and nothing else.        *)
(***************************************************************************)
ErrorsExact ==
    LET tried == IF pc = "connect" THEN {c \in C : c < cur} ELSE C
        lost == {c \in tried : fd[c] \in {"failed", "zero"}}
    IN  pc # "done" => errors = Cardinality(lost) + mismatches

(***************************************************************************)
(* "Compute percentiles (p50, p99, p99.9)" (line 478): the percentiles of  *)
(* one distribution are in order, if none of the latencies lies beyond the *)
(* histogram (lines 504-506 know about those for p99.9 only).              *)
(***************************************************************************)
PercentilesOrdered == overflow_latencies = 0 => p50 <= p99 /\ p99 <= p999
=============================================================================
