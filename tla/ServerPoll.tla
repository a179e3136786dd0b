----------------------------- MODULE ServerPoll -----------------------------
(***************************************************************************)
(* code/src/server_poll.c: one thread around poll() and an array of        *)
(* pollfds that grows with realloc() and is compacted after a round in     *)
(* which a client was closed.  The counters and the stop flag of its       *)
(* -DSTATS build are left out: EpollLt has them.                           *)
(***************************************************************************)
EXTENDS SpinEcho, SequencesExt

CONSTANTS
    INITIAL_POLL_CAP,   \* entries allocated at the start
    ReallocMayFail      \* TRUE: realloc() may return NULL

ASSUME ServerPollAssumption ==
    /\ INITIAL_POLL_CAP \in Nat \ {0}
    /\ ReallocMayFail \in BOOLEAN

VARIABLES
    fds,            \* fds[0 .. nfds), first entry at position 1
    poll_cap,       \* the capacity the program believes in
    allocated,      \* the entries the block really has
    i,              \* position being scanned
    current_nfds,   \* nfds when the scan began
    compress_array

capVars == <<poll_cap, allocated>>
scanVars == <<i, current_nfds, compress_array>>
pollVars == <<fds, capVars, scanVars>>

ClosedEntry == -1    \* fds[i].fd of a client closed in this round
Entry(f, r) == [fd |-> f, revents |-> r]

PollInit ==
    /\ SpinInit
    /\ fds = <<Entry(listen_fd, FALSE)>>
    /\ poll_cap = INITIAL_POLL_CAP
    /\ allocated = INITIAL_POLL_CAP
    /\ i = 0
    /\ current_nfds = 0
    /\ compress_array = FALSE

PollBoot == SpinBoot /\ UNCHANGED pollVars

-----------------------------------------------------------------------------
(* The loop.                                                               *)

PollKill ==
    /\ pc \notin {"boot", "exit"}
    /\ SpinExit
    /\ UNCHANGED pollVars

Revents(f) == IF f = listen_fd THEN backlog # <<>> ELSE Readable(owner[f])

Poll ==
    /\ pc = "loop"
    /\ \E k \in DOMAIN fds : Revents(fds[k].fd)
    /\ fds' = [k \in DOMAIN fds |-> Entry(fds[k].fd, Revents(fds[k].fd))]
    /\ current_nfds' = Len(fds)
    /\ compress_array' = FALSE
    /\ i' = 0
    /\ pc' = "next"
    /\ UNCHANGED <<sockVars, cur, buf, capVars>>

PollScan ==
    /\ pc = "next"
    /\ i < current_nfds
    /\ i' = i + 1
    /\ LET e == fds[i + 1]
       IN  IF ~e.revents THEN UNCHANGED <<pc, cur>>
           ELSE /\ cur' = e.fd
                /\ pc' = IF e.fd = listen_fd THEN "accept" ELSE "read"
    /\ UNCHANGED <<sockVars, buf, fds, capVars, current_nfds, compress_array>>

\* Mutant: without i-- the entry after a closed one is not looked at.
CompactSkips(s) ==
    LET kept == {k \in DOMAIN s : s[k].fd # ClosedEntry \/ (k > 1 /\ s[k - 1].fd = ClosedEntry)}
        at == SetToSortSeq(kept, <)
    IN  [j \in 1..Len(at) |-> s[at[j]]]

\* Shifting the tail over every closed entry keeps the others, in order: each
\* moves down past the closed entries before it.
Kept(s) == {k \in DOMAIN s : s[k].fd # ClosedEntry}
Place(s, k) == Cardinality({m \in Kept(s) : m <= k})
Compact(s) ==
    [j \in 1..Cardinality(Kept(s)) |-> s[CHOOSE k \in Kept(s) : Place(s, k) = j]]

PollEndScan ==
    /\ pc = "next"
    /\ i = current_nfds
    /\ fds' = IF compress_array THEN Compact(fds) ELSE fds
    /\ i' = 0 /\ current_nfds' = 0
    /\ pc' = "loop"
    /\ UNCHANGED <<sockVars, cur, buf, capVars, compress_array>>

-----------------------------------------------------------------------------
(* The listener.                                                           *)

\* nfds < poll_cap, or realloc() doubles the array.
PollAccept ==
    /\ LET cap == IF Len(fds) >= poll_cap THEN 2 * poll_cap ELSE poll_cap
           room == IF Len(fds) >= poll_cap THEN cap ELSE allocated
       IN  /\ Len(fds) < room
           /\ poll_cap' = cap
           /\ allocated' = room
    /\ \E f \in Fds :
          /\ SpinAccept(f)
          /\ fds' = Append(fds, Entry(f, FALSE))
    /\ UNCHANGED scanVars

\* realloc() fails: the client is closed and the accept loop left, but
\* poll_cap has been doubled already.
PollAcceptNoMemory ==
    /\ ReallocMayFail
    /\ Len(fds) >= poll_cap
    /\ poll_cap' = 2 * poll_cap
    /\ \E f \in Fds : SpinRefuse(f)
    /\ pc' = "next"
    /\ UNCHANGED <<fds, allocated, scanVars>>

\* The store to fds[nfds] is outside the block: nothing is known from here.
PollAcceptOverrun ==
    /\ Len(fds) < poll_cap
    /\ Len(fds) >= allocated
    /\ \E f \in Fds : SpinRefuse(f)
    /\ pc' = "overrun"
    /\ UNCHANGED pollVars

PollAcceptStops == SpinAcceptStops /\ UNCHANGED pollVars

-----------------------------------------------------------------------------
(* A client.                                                               *)

PollRead == SpinRead /\ UNCHANGED pollVars

PollWriteSome == SpinWrite /\ UNCHANGED pollVars

PollWriteDone == SpinDone /\ UNCHANGED pollVars

\* close(), and the entry is marked for the compaction.
PollClose ==
    /\ SpinClose
    /\ fds' = [fds EXCEPT ![i].fd = ClosedEntry]
    /\ compress_array' = TRUE

PollReadStops ==
    /\ ReadStopped
    /\ IF ReadWouldBlock(owner[cur]) THEN SpinEagain /\ UNCHANGED <<fds, compress_array>>
                                     ELSE PollClose
    /\ UNCHANGED <<capVars, i, current_nfds>>

PollWriteStops ==
    /\ WriteBroken
    /\ PollClose
    /\ UNCHANGED <<capVars, i, current_nfds>>

-----------------------------------------------------------------------------
PollServer ==
    \/ Poll \/ PollScan \/ PollEndScan
    \/ PollAccept \/ PollAcceptNoMemory \/ PollAcceptOverrun \/ PollAcceptStops
    \/ PollRead \/ PollReadStops \/ PollWriteSome \/ PollWriteDone \/ PollWriteStops

PollNetwork == SpinNetwork /\ UNCHANGED pollVars

PollNext == PollBoot \/ PollServer \/ PollKill \/ PollNetwork

-----------------------------------------------------------------------------
(***************************************************************************)
(* When poll() is called the table has the listener first and every open   *)
(* client exactly once, and no entry of a closed one: neither the appends  *)
(* during a scan nor the compaction (lines 151-162) loses or repeats one.  *)
(***************************************************************************)
TableExact ==
    program = "server_poll" /\ pc = "loop" =>
        /\ fds[1].fd = listen_fd
        /\ {fds[k].fd : k \in 2..Len(fds)} = OpenFds
        /\ Len(fds) = Cardinality(OpenFds) + 1
=============================================================================
