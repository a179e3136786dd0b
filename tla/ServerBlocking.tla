--------------------------- MODULE ServerBlocking ---------------------------
(***************************************************************************)
(* code/src/server_blocking.c: main() accepts, and a detached thread for   *)
(* each client reads and writes with blocking calls.  The threads share the*)
(* table of descriptors, from which accept() takes the numbers that        *)
(* close() of some thread gave back, and nothing else.  The number goes to *)
(* the thread through a cell of the heap that main() allocates for it.     *)
(*                                                                         *)
(* A thread is named by the connection it is created for.                  *)
(***************************************************************************)
EXTENDS Sockets

CONSTANTS
    NoFd,           \* no descriptor of a client
    AcceptMayFail,  \* TRUE: accept() may fail for other reasons than its limit
    ThreadMayFail   \* TRUE: malloc() of the cell or pthread_create() may fail

ASSUME ServerBlockingAssumption ==
    /\ NoFd \notin Fds
    /\ AcceptMayFail \in BOOLEAN /\ ThreadMayFail \in BOOLEAN

VARIABLES
    main_pc,    \* main(): "boot", "accept", "hand", "leave" or "exit"
    client_fd,  \* its local variable
    cell,       \* the cell each thread is given
    thread,     \* "none", "new", "read", "write" or "ended"
    fd,         \* client_fd in client_handler()
    bufs        \* bytes each thread has read and not yet written

threadVars == <<cell, thread, fd, bufs>>

BlockInit ==
    /\ SocketsInit
    /\ main_pc = "boot"
    /\ client_fd = NoFd
    /\ cell = [t \in Conns |-> NoFd]
    /\ thread = [t \in Conns |-> "none"]
    /\ fd = [t \in Conns |-> NoFd]
    /\ bufs = [t \in Conns |-> <<>>]

\* make_listener() binds and listens, or exits with EXIT_FAILURE.
BlockBoot ==
    /\ main_pc = "boot"
    /\ \/ main_pc' = "accept" /\ listening' = TRUE
       \/ main_pc' = "exit" /\ UNCHANGED listening
    /\ UNCHANGED <<backlog, phase, owner, cl, rst, sent, taken, echo, got, client_fd, threadVars>>

\* The process ends, and all threads with it.
BlockExit ==
    /\ main_pc' = "exit"
    /\ ProcessExit
    /\ thread' = [t \in Conns |-> IF thread[t] = "none" THEN "none" ELSE "ended"]
    /\ UNCHANGED <<client_fd, cell, fd, bufs>>

BlockKill == main_pc \notin {"boot", "exit"} /\ BlockExit

-----------------------------------------------------------------------------
(* main().                                                                 *)

BlockAccept ==
    /\ main_pc = "accept"
    /\ \E f \in Fds :
          /\ AcceptAs(f)
          /\ owner' = [owner EXCEPT ![f] = Head(backlog)]
          /\ client_fd' = f
    /\ phase' = [phase EXCEPT ![Head(backlog)] = "open"]
    /\ main_pc' = "hand"
    /\ UNCHANGED <<listening, cl, rst, sent, taken, echo, got, threadVars>>

\* Any error but EINTR ends the loop: no descriptor left, no memory...
BlockAcceptFails ==
    /\ main_pc = "accept"
    /\ AcceptNoFd \/ (AcceptMayFail /\ backlog # <<>>)
    /\ main_pc' = "leave"
    /\ UNCHANGED <<sockVars, client_fd, threadVars>>

\* ... and main() returns, while threads are serving.
BlockLeave == main_pc = "leave" /\ BlockExit

\* Mutant: the thread is given the address of main()'s own variable.
HandOverShared ==
    /\ main_pc = "hand"
    /\ LET t == owner[client_fd]
       IN  /\ cell' = [u \in Conns |-> client_fd]
           /\ thread' = [thread EXCEPT ![t] = "new"]
    /\ main_pc' = "accept"
    /\ UNCHANGED <<sockVars, client_fd, fd, bufs>>

HandOver ==
    /\ main_pc = "hand"
    /\ LET t == owner[client_fd]
       IN  /\ cell' = [cell EXCEPT ![t] = client_fd]
           /\ thread' = [thread EXCEPT ![t] = "new"]
    /\ main_pc' = "accept"
    /\ UNCHANGED <<sockVars, client_fd, fd, bufs>>

\* Mutant: the descriptor is not closed.
HandOverFailsLeaks ==
    /\ main_pc = "hand"
    /\ ThreadMayFail
    /\ main_pc' = "accept"
    /\ UNCHANGED <<sockVars, client_fd, threadVars>>

HandOverFails ==
    /\ main_pc = "hand"
    /\ ThreadMayFail
    /\ CloseFd(client_fd)
    /\ main_pc' = "accept"
    /\ UNCHANGED <<listening, backlog, cl, rst, sent, taken, echo, got, client_fd, threadVars>>

BlockMain ==
    \/ BlockAccept \/ BlockAcceptFails \/ BlockLeave
    \/ HandOver \/ HandOverFails

-----------------------------------------------------------------------------
(* client_handler().                                                       *)

\* int client_fd = *(int * )arg; free(arg);
TakeCell(t) ==
    /\ thread[t] = "new"
    /\ fd' = [fd EXCEPT ![t] = cell[t]]
    /\ thread' = [thread EXCEPT ![t] = "read"]
    /\ UNCHANGED <<sockVars, main_pc, client_fd, cell, bufs>>

ThreadRead(t) ==
    /\ thread[t] = "read"
    /\ LET c == owner[fd[t]]
       IN  /\ Avail(c) > 0
           /\ bufs' = [bufs EXCEPT ![t] = ReadData(c)]
           /\ taken' = [taken EXCEPT ![c] = @ + ReadLen(c)]
    /\ thread' = [thread EXCEPT ![t] = "write"]
    /\ UNCHANGED <<listening, backlog, phase, owner, cl, rst, sent, echo, got,
                   main_pc, client_fd, cell, fd>>

\* A blocking write() hands over what fits and sleeps until more does.
ThreadWrite(t) ==
    /\ thread[t] = "write"
    /\ LET c == owner[fd[t]]
       IN  /\ Write(c, bufs[t])
           /\ bufs' = [bufs EXCEPT ![t] = SubSeq(@, WriteLen(c, @) + 1, Len(@))]
    /\ thread' = [thread EXCEPT ![t] = IF bufs'[t] = <<>> THEN "read" ELSE "write"]
    /\ UNCHANGED <<listening, backlog, phase, owner, cl, rst, sent, taken, got,
                   main_pc, client_fd, cell, fd>>

\* read() or write() returned 0 or an error: close(client_fd).
ThreadEnds(t) ==
    /\ \/ thread[t] = "read" /\ ReadEnds(owner[fd[t]])
       \/ thread[t] = "write" /\ WriteFails(owner[fd[t]])
    /\ CloseFd(fd[t])
    /\ thread' = [thread EXCEPT ![t] = "ended"]
    /\ UNCHANGED <<listening, backlog, cl, rst, sent, taken, echo, got,
                   main_pc, client_fd, cell, fd, bufs>>

Thread(t) == TakeCell(t) \/ ThreadRead(t) \/ ThreadWrite(t) \/ ThreadEnds(t)

-----------------------------------------------------------------------------
BlockNetwork ==
    /\ \E c \in Conns :
          \/ Connect(c) \/ ClientSend(c) \/ ClientRecv(c)
          \/ ClientShut(c) \/ ClientClose(c) \/ ResetArrives(c)
    /\ UNCHANGED <<main_pc, client_fd, threadVars>>

BlockNext ==
    \/ BlockBoot \/ BlockMain \/ BlockKill \/ BlockNetwork
    \/ \E t \in Conns : Thread(t)

-----------------------------------------------------------------------------
\* The threads that have descriptor f: in their variable, or yet in the cell.
ThreadsOf(f) ==
    {t \in Conns : \/ thread[t] = "new" /\ cell[t] = f
                   \/ thread[t] \in {"read", "write"} /\ fd[t] = f}

(***************************************************************************)
(* Each accepted descriptor has one thread, which is the one created for   *)
(* the connection behind it, and a descriptor that is closed has none.  In *)
(* between, numbers are given back and handed out again, and a new thread  *)
(* may look into its cell long after main() has accepted other clients.    *)
(***************************************************************************)
OneThreadEach ==
    main_pc # "boot" => \A f \in Fds :
        ThreadsOf(f) = IF owner[f] = NoConn \/ (main_pc = "hand" /\ client_fd = f)
                       THEN {} ELSE {owner[f]}

\* A client is served from when it has a thread; until then main() may still
\* turn it away, as if it had never left the queue.
InHand(c) == main_pc = "hand" /\ owner[client_fd] = c
ServedPhase == [c \in Conns |-> IF InHand(c) THEN "queued" ELSE phase[c]]
=============================================================================
