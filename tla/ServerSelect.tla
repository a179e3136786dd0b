---------------------------- MODULE ServerSelect ----------------------------
(***************************************************************************)
(* code/src/server_select.c: one thread around select(), with the set of   *)
(* watched descriptors and the highest of them kept by hand.               *)
(***************************************************************************)
EXTENDS SpinEcho, FiniteSetsExt

CONSTANT SetSizes   \* the values of FD_SETSIZE to try, one in each behaviour

\* The listener, opened first, fits the set.
ASSUME ServerSelectAssumption ==
    SetSizes \subseteq Nat /\ SetSizes # {} /\ \A n \in SetSizes : listen_fd < n

VARIABLES
    FD_SETSIZE,     \* descriptors from here on do not fit an fd_set
    master_set,     \* descriptors to watch
    readfds,        \* what the last select() left in its copy
    max_fd          \* highest descriptor select() looks at

selVars == <<FD_SETSIZE, master_set, readfds, max_fd>>

SelectInit ==
    /\ SpinInit
    /\ FD_SETSIZE \in SetSizes
    /\ master_set = {listen_fd}
    /\ readfds = {}
    /\ max_fd = listen_fd

SelectBoot == SpinBoot /\ UNCHANGED selVars

SelectKill ==
    /\ pc \notin {"boot", "exit"}
    /\ SpinExit
    /\ UNCHANGED selVars

\* select(max_fd + 1, &readfds) looks at no descriptor above max_fd.
Select ==
    /\ pc = "loop"
    /\ readfds' = {f \in master_set : f <= max_fd /\
                     IF f = listen_fd THEN backlog # <<>> ELSE Readable(owner[f])}
    /\ readfds' # {}
    /\ pc' = "next"
    /\ UNCHANGED <<sockVars, cur, buf, FD_SETSIZE, master_set, max_fd>>

\* for (i = 0; i <= max_fd; ++i): both bounds are looked at anew each time.
\* A position that has been handled is taken out of readfds.
Ahead == {f \in readfds : f <= max_fd}

SelectScan ==
    /\ pc = "next"
    /\ Ahead # {}
    /\ cur' = Min(Ahead)
    /\ readfds' = readfds \ {cur'}
    /\ pc' = IF cur' = listen_fd THEN "accept" ELSE "read"
    /\ UNCHANGED <<sockVars, buf, FD_SETSIZE, master_set, max_fd>>

SelectEndScan ==
    /\ pc = "next"
    /\ Ahead = {}
    /\ pc' = "loop"
    /\ readfds' = {}
    /\ UNCHANGED <<sockVars, cur, buf, FD_SETSIZE, master_set, max_fd>>

-----------------------------------------------------------------------------
(* The listener.                                                           *)

SelectAccept ==
    \E f \in Fds :
        /\ f < FD_SETSIZE
        /\ SpinAccept(f)
        /\ master_set' = master_set \cup {f}
        /\ max_fd' = IF f > max_fd THEN f ELSE max_fd
        /\ UNCHANGED <<FD_SETSIZE, readfds>>

SelectReject ==
    \E f \in Fds :
        /\ f >= FD_SETSIZE
        /\ SpinRefuse(f)
        /\ UNCHANGED <<pc, selVars>>

SelectAcceptStops == SpinAcceptStops /\ UNCHANGED selVars

-----------------------------------------------------------------------------
(* A client.                                                               *)

SelectEcho == (SpinRead \/ SpinWrite \/ SpinDone) /\ UNCHANGED selVars

\* Mutant: max_fd goes down by one only.
SelectDropOneDown ==
    /\ SpinClose
    /\ master_set' = master_set \ {cur}
    /\ max_fd' = IF cur = max_fd THEN max_fd - 1 ELSE max_fd
    /\ UNCHANGED <<FD_SETSIZE, readfds>>

\* close(), FD_CLR() and, for the highest descriptor, the walk down to the
\* next one that is set.
SelectDrop ==
    /\ SpinClose
    /\ master_set' = master_set \ {cur}
    /\ max_fd' = IF cur = max_fd
                   THEN Max({0} \cup {f \in master_set' : f <= max_fd})
                   ELSE max_fd
    /\ UNCHANGED <<FD_SETSIZE, readfds>>

SelectReadStops ==
    /\ ReadStopped
    /\ IF ReadWouldBlock(owner[cur]) THEN SpinEagain /\ UNCHANGED selVars ELSE SelectDrop

SelectWriteStops == WriteBroken /\ SelectDrop

-----------------------------------------------------------------------------
SelectServer ==
    \/ Select \/ SelectScan \/ SelectEndScan \/ SelectAccept \/ SelectReject \/ SelectAcceptStops
    \/ SelectEcho \/ SelectReadStops \/ SelectWriteStops

SelectNetwork == SpinNetwork /\ UNCHANGED selVars

SelectNext == SelectBoot \/ SelectServer \/ SelectKill \/ SelectNetwork

-----------------------------------------------------------------------------
(***************************************************************************)
(* Whenever select() is called max_fd is exactly the highest descriptor in *)
(* use and the set holds the listener and every open client: lines 57-60   *)
(* and 70-77 and 92-99 keep three pieces of state together by hand, and a  *)
(* client above max_fd would never be heard again.  At no time is there a  *)
(* descriptor in the set that an fd_set cannot hold.                       *)
(***************************************************************************)
WatchesAll ==
    /\ \A f \in master_set : f < FD_SETSIZE
    /\ program = "server_select" /\ pc = "loop" =>
           /\ master_set = OpenFds \cup {listen_fd}
           /\ max_fd = Max(master_set)
=============================================================================
