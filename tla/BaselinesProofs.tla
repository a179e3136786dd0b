--------------------------- MODULE BaselinesProofs ---------------------------
(***************************************************************************)
(* Proofs about the servers that write with a loop, for every set of       *)
(* connections and descriptors, every buffer, socket and table size, and   *)
(* every choice of the server among the five.                              *)
(*                                                                         *)
(*   BaselinesImplementEcho   Spec => ImplementsEcho                       *)
(*   TableIsExact             Spec => []TableExact                         *)
(*   AllAreWatched            Spec => []WatchesAll                         *)
(*   NoEdgeIsLost             Spec => []NoLostEdge, unless accept() meets  *)
(*                            a full descriptor table, which               *)
(*   NoEdgeIsLostWithEnoughFds  excludes with enough descriptors           *)
(*   OneThreadForEach         Spec => []OneThreadEach                      *)
(*                                                                         *)
(* A step of a spinning server is one of few (Moves), whatever tables the  *)
(* program keeps: that these steps echo is shown once, and of each program *)
(* only that it makes no others, because its tables name open descriptors. *)
(***************************************************************************)
EXTENDS Baselines, SocketsProofs, FunctionTheorems, WellFoundedInduction, TLAPS

-----------------------------------------------------------------------------
(* What a spinning server does to its sockets.                             *)

Serving == {"read", "write", "hup"}

\* What is in the buffer for c.
Unwritten(c) == IF pc = "write" /\ owner[cur] = c THEN buf ELSE <<>>

\* The descriptor in hand is open, and the bytes of each connection are one
\* run over the socket and the buffer.
SpinInv ==
    /\ SocketsTypeOK /\ OwnerInv
    /\ main_pc = "boot"
    /\ pc = "boot" => ~listening /\ backlog = <<>>
    /\ pc \in Serving => cur \in OpenFds
    /\ buf \in Seq(Byte)
    /\ \A c \in Conns :
          phase[c] # "done" => Run(c, echo[c], Unwritten(c), taken[c], sent[c])
    /\ GoneInv

\* The loop moves on, to a descriptor that is open or to none.
Quiet ==
    /\ UNCHANGED <<sockVars, buf>>
    /\ pc = "write" => buf = <<>>
    /\ pc' \notin {"boot", "write"}
    /\ pc' \in Serving => cur' \in OpenFds

Refusal == (\E f \in Fds : SpinRefuse(f)) /\ pc' \notin Serving \cup {"boot"}

\* A client is closed that is gone, or has ended its side and is answered.
HangUp ==
    /\ pc \in Serving /\ SpinClose
    /\ LET c == owner[cur] IN rst[c] \/ (pc = "read" /\ Avail(c) = 0 /\ Eof(c))

Leave == pc \notin {"boot", "exit"} /\ SpinExit

Moves ==
    \/ SpinBoot \/ Leave \/ Quiet \/ (\E f \in Fds : SpinAccept(f)) \/ Refusal
    \/ SpinRead \/ SpinWrite \/ HangUp \/ SpinNetwork
    \/ UNCHANGED <<sockVars, spinVars>>

EchoStep == [Echoer!Next]_(Echoer!echoVars)

\* The descriptor in hand and its connection.
LEMMA InHandOpen ==
    ASSUME SpinInv, pc \in Serving
    PROVE  /\ cur \in Fds /\ cur \in OpenFds
           /\ owner[cur] \in Conns /\ phase[owner[cur]] = "open"
  BY SocketsAssumption DEF SpinInv, SocketsTypeOK, OwnerInv, OpenFds

\* In a spinning server every client is served from accept() on.
LEMMA SpinPhase ==
    ASSUME SpinInv, SpinInv'
    PROVE  ServedPhase = phase /\ ServedPhase' = phase'
  BY DEF SpinInv, SocketsTypeOK, ServedPhase, InHand

\* Steps after which every stream is what it was.
LEMMA SameStreams ==
    ASSUME SpinInv, UNCHANGED <<cl, rst, sent, taken, echo>>,
           \A c \in Conns : phase'[c] # "done" =>
                phase[c] # "done" /\ Unwritten(c)' = Unwritten(c)
    PROVE  /\ \A c \in Conns :
                phase'[c] # "done" => Run(c, echo'[c], Unwritten(c)', taken'[c], sent'[c])
           /\ GoneInv'
  BY DEF SpinInv, GoneInv

\* A step that touches no socket and no byte keeps the invariant.
LEMMA QuietKeeps ==
    ASSUME SpinInv, main_pc' = "boot", Quiet \/ UNCHANGED <<sockVars, spinVars>>
    PROVE  SpinInv'
  <1>1. UNCHANGED <<sockVars, buf>>
    BY DEF Quiet, spinVars
  <1>2. SocketsTypeOK' /\ OwnerInv' /\ OpenFds' = OpenFds /\ buf' \in Seq(Byte)
    BY <1>1 DEF SpinInv, SocketsTypeOK, OwnerInv, OpenFds, sockVars
  <1>3. ASSUME NEW c \in Conns PROVE Unwritten(c)' = Unwritten(c)
    BY <1>1 DEF Quiet, Unwritten, sockVars, spinVars
  <1>4. /\ \A c \in Conns :
             phase'[c] # "done" => Run(c, echo'[c], Unwritten(c)', taken'[c], sent'[c])
        /\ GoneInv'
    BY <1>1, <1>3, SameStreams DEF sockVars
  <1>5. /\ pc' = "boot" => ~listening' /\ backlog' = <<>>
        /\ pc' \in Serving => cur' \in OpenFds
    BY <1>1 DEF SpinInv, Quiet, Serving, sockVars, spinVars
  <1> QED
    BY <1>2, <1>4, <1>5 DEF SpinInv

\* So does make_listener(), before which there is no client.
LEMMA BootKeeps ==
    ASSUME SpinInv, main_pc' = "boot", SpinBoot
    PROVE  SpinInv'
  <1>1. /\ pc' \in {"loop", "exit"} /\ pc # "write" /\ listening' \in BOOLEAN
        /\ UNCHANGED <<backlog, phase, owner, cl, rst, sent, taken, echo, got, buf>>
    BY DEF SpinBoot, SpinInv, SocketsTypeOK
  <1>2. SocketsTypeOK' /\ OwnerInv'
    BY <1>1 DEF SpinInv, SocketsTypeOK, OwnerInv, OpenFds
  <1>3. \A c \in Conns : Unwritten(c)' = Unwritten(c)
    BY <1>1 DEF Unwritten
  <1> QED
    BY <1>1, <1>2, <1>3, SameStreams DEF SpinInv, Serving

\* The end of the process closes all and empties the buffer.
LEMMA LeaveKeeps ==
    ASSUME SpinInv, main_pc' = "boot", Leave
    PROVE  SpinInv'
  <1>1. ProcessExit /\ pc' = "exit" /\ buf' = <<>>
    BY DEF Leave, SpinExit
  <1>2. SocketsTypeOK' /\ OwnerInv'
    BY <1>1, ExitTypes DEF SpinInv
  <1>3. UNCHANGED <<cl, rst, sent, taken, echo>>
    BY <1>1 DEF ProcessExit
  <1>4. \A c \in Conns : phase'[c] # "done" => phase[c] = "none" /\ phase'[c] = "none"
    BY <1>1 DEF ProcessExit
  <1>5. \A c \in Conns : phase[c] = "none" => Unwritten(c) = <<>>
    BY InHandOpen DEF Unwritten, Serving
  <1>6. \A c \in Conns : Unwritten(c)' = <<>>
    BY <1>1 DEF Unwritten
  <1>7. \A c \in Conns : phase'[c] # "done" =>
             phase[c] # "done" /\ Unwritten(c)' = Unwritten(c)
    BY <1>4, <1>5, <1>6
  <1>8. buf' \in Seq(Byte)
    BY <1>1
  <1> QED
    BY <1>1, <1>2, <1>3, <1>7, <1>8, SameStreams DEF SpinInv, Serving

\* accept() changes no stream: who is served was queued before.
LEMMA AcceptKeeps ==
    ASSUME SpinInv, main_pc' = "boot", (\E f \in Fds : SpinAccept(f)) \/ Refusal
    PROVE  SpinInv'
  <1>1. PICK f \in Fds : SpinAccept(f) \/ (SpinRefuse(f) /\ pc' \notin Serving \cup {"boot"})
    BY DEF Refusal
  <1>2. /\ pc = "accept" /\ AcceptAs(f) /\ buf' = buf
        /\ \/ /\ owner' = [owner EXCEPT ![f] = Head(backlog)]
              /\ phase' = [phase EXCEPT ![Head(backlog)] = "open"]
           \/ /\ owner' = owner
              /\ phase' = [phase EXCEPT ![Head(backlog)] = "done"]
        /\ UNCHANGED <<listening, cl, rst, sent, taken, echo, got>>
        /\ pc' \notin Serving \cup {"boot"}
    BY <1>1 DEF SpinAccept, SpinRefuse, spinVars, Serving
  <1>3. /\ OwnerInv' /\ Head(backlog) \in Conns /\ phase[Head(backlog)] = "queued"
        /\ backlog' \in Seq(Conns)
        /\ owner' \in [Fds -> Conns \cup {NoConn}]
        /\ phase' \in [Conns -> {"none", "queued", "open", "done"}]
    BY <1>2, AcceptOwner DEF SpinInv
  <1>4. SocketsTypeOK'
    BY <1>2, <1>3 DEF SpinInv, SocketsTypeOK
  <1>5. \A c \in Conns : Unwritten(c) = <<>> /\ Unwritten(c)' = <<>>
    BY <1>2 DEF Unwritten, Serving
  <1>6. \A c \in Conns : phase'[c] # "done" => phase[c] # "done"
    BY <1>2, <1>3 DEF SpinInv, SocketsTypeOK
  <1> QED
    BY <1>2, <1>3, <1>4, <1>5, <1>6, SameStreams DEF SpinInv

\* read() puts into the buffer what comes next in its stream.
LEMMA ReadKeeps ==
    ASSUME SpinInv, main_pc' = "boot", SpinRead
    PROVE  SpinInv'
  <1> DEFINE c == owner[cur]
  <1>1. /\ pc = "read" /\ pc' = "write" /\ Avail(c) > 0
        /\ buf' = Bytes(c, taken[c], ReadLen(c))
        /\ taken' = [taken EXCEPT ![c] = @ + ReadLen(c)]
        /\ UNCHANGED <<listening, backlog, phase, owner, cl, rst, sent, echo, got, cur>>
    BY DEF SpinRead, ReadData
  <1>2. cur \in OpenFds /\ c \in Conns /\ phase[c] = "open"
    BY <1>1, InHandOpen DEF Serving
  <1> HIDE DEF c
  <1>3. /\ ReadLen(c) \in Nat \ {0} /\ taken[c] + ReadLen(c) <= sent[c]
        /\ taken[c] + ReadLen(c) \in Nat /\ taken[c] \in Nat /\ sent[c] \in Nat
    BY <1>1, <1>2, ReadLenType, ConnParts DEF SpinInv
  <1>4. buf' \in Seq(Byte)
    BY <1>1, <1>2, <1>3, BytesType
  <1>5. SocketsTypeOK' /\ OwnerInv' /\ OpenFds' = OpenFds
    <2>1. taken' \in [Conns -> Nat]
      BY <1>1, <1>2, <1>3 DEF SpinInv, SocketsTypeOK
    <2> QED
      BY <1>1, <2>1 DEF SpinInv, SocketsTypeOK, OwnerInv, OpenFds
  <1>6. Run(c, echo[c], buf', taken'[c], sent[c])
    <2>1. Run(c, echo[c], <<>>, taken[c], sent[c])
      BY <1>1, <1>2 DEF SpinInv, Unwritten
    <2>2. taken'[c] = taken[c] + ReadLen(c)
      BY <1>1, <1>2 DEF SpinInv, SocketsTypeOK
    <2> QED
      BY <1>1, <1>2, <1>3, <2>1, <2>2, ReadRun
  <1>7. ASSUME NEW d \in Conns, phase'[d] # "done"
        PROVE  Run(d, echo'[d], Unwritten(d)', taken'[d], sent'[d])
    <2>1. CASE d = c
      BY <1>1, <1>6, <2>1 DEF Unwritten, c
    <2>2. CASE d # c
      <3>1. Unwritten(d)' = Unwritten(d) /\ taken'[d] = taken[d]
        BY <1>1, <1>2, <2>2 DEF Unwritten, c, SpinInv, SocketsTypeOK
      <3> QED
        BY <1>1, <1>7, <3>1 DEF SpinInv
    <2> QED
      BY <2>1, <2>2
  <1> QED
    BY <1>1, <1>2, <1>4, <1>5, <1>7 DEF SpinInv, GoneInv

\* The spinning write() goes on with the rest.
LEMMA WriteKeeps ==
    ASSUME SpinInv, main_pc' = "boot", SpinWrite
    PROVE  SpinInv'
  <1> DEFINE c == owner[cur]
  <1>1. /\ pc = "write" /\ pc' = "write" /\ Write(c, buf)
        /\ buf' = SubSeq(buf, WriteLen(c, buf) + 1, Len(buf))
        /\ UNCHANGED <<listening, backlog, phase, owner, cl, rst, sent, taken, got, cur>>
    BY DEF SpinWrite
  <1>2. cur \in OpenFds /\ c \in Conns /\ phase[c] = "open" /\ buf \in Seq(Byte)
    BY <1>1, InHandOpen DEF Serving, SpinInv
  <1> HIDE DEF c
  <1>3. Run(c, echo[c], buf, taken[c], sent[c])
    BY <1>1, <1>2 DEF SpinInv, Unwritten, c
  <1>4. /\ echo' \in [Conns -> Seq(Byte)] /\ buf' \in Seq(Byte)
        /\ Run(c, echo'[c], buf', taken[c], sent[c])
        /\ \A d \in Conns \ {c} : echo'[d] = echo[d]
    BY <1>1, <1>2, <1>3, WriteSplits DEF SpinInv
  <1>5. SocketsTypeOK' /\ OwnerInv' /\ OpenFds' = OpenFds
    BY <1>1, <1>4 DEF SpinInv, SocketsTypeOK, OwnerInv, OpenFds
  <1>6. ASSUME NEW d \in Conns, phase'[d] # "done"
        PROVE  Run(d, echo'[d], Unwritten(d)', taken'[d], sent'[d])
    <2>1. CASE d = c
      BY <1>1, <1>4, <2>1 DEF Unwritten, c
    <2>2. CASE d # c
      <3>1. Unwritten(d) = <<>> /\ Unwritten(d)' = <<>> /\ echo'[d] = echo[d]
        BY <1>1, <1>4, <2>2 DEF Unwritten, c
      <3>2. Run(d, echo[d], <<>>, taken[d], sent[d])
        BY <1>1, <1>6, <3>1 DEF SpinInv
      <3> QED
        BY <1>1, <3>1, <3>2
    <2> QED
      BY <2>1, <2>2
  <1> QED
    BY <1>1, <1>2, <1>4, <1>5, <1>6 DEF SpinInv, GoneInv

\* close() of the descriptor in hand: the buffer goes with it.
LEMMA HangUpKeeps ==
    ASSUME SpinInv, main_pc' = "boot", HangUp
    PROVE  SpinInv'
  <1> DEFINE c == owner[cur]
  <1>1. /\ pc \in Serving /\ CloseFd(cur) /\ buf' = <<>> /\ pc' = "next"
        /\ UNCHANGED <<listening, backlog, cl, rst, sent, taken, echo, got, cur>>
    BY DEF HangUp, SpinClose
  <1>2. cur \in Fds /\ c \in Conns /\ phase[c] = "open"
    BY <1>1, InHandOpen
  <1>3. /\ OwnerInv' /\ owner' \in [Fds -> Conns \cup {NoConn}]
        /\ phase' \in [Conns -> {"none", "queued", "open", "done"}]
    BY <1>1, <1>2, CloseOwner DEF SpinInv
  <1>4. SocketsTypeOK' /\ buf' \in Seq(Byte)
    BY <1>1, <1>3 DEF SpinInv, SocketsTypeOK
  <1>5. phase' = [phase EXCEPT ![c] = "done"]
    BY <1>1 DEF CloseFd
  <1>6. ASSUME NEW d \in Conns, phase'[d] # "done"
        PROVE  phase[d] # "done" /\ Unwritten(d)' = Unwritten(d)
    <2>1. d # c /\ phase[d] # "done"
      BY <1>2, <1>5, <1>6 DEF SpinInv, SocketsTypeOK
    <2> QED
      BY <1>1, <2>1 DEF Unwritten
  <1> QED
    BY <1>1, <1>3, <1>4, <1>6, SameStreams DEF SpinInv, Serving

\* The network leaves what is in hand alone.
LEMMA NetworkKeeps ==
    ASSUME SpinInv, main_pc' = "boot", SpinNetwork
    PROVE  SpinInv'
  <1>1. UNCHANGED spinVars
    BY DEF SpinNetwork
  <1>2. PICK c \in Conns : \/ Connect(c) \/ ClientSend(c) \/ ClientRecv(c)
                           \/ ClientShut(c) \/ ClientClose(c) \/ ResetArrives(c)
    BY DEF SpinNetwork
  <1>3. SocketsTypeOK' /\ OwnerInv'
    BY <1>2, ClientTypes, ClientOwner DEF SpinInv
  <1>4. /\ GoneInv'
        /\ UNCHANGED <<owner, taken, echo>>
        /\ \A d \in Conns : phase'[d] # "done" => phase[d] # "done"
        /\ \A d \in Conns : sent[d] <= sent'[d]
        /\ ~listening /\ backlog = <<>> => ~listening' /\ backlog' = <<>>
    BY <1>2, ClientStreams DEF SpinInv
  <1>5. ASSUME NEW d \in Conns, phase'[d] # "done"
        PROVE  Run(d, echo'[d], Unwritten(d)', taken'[d], sent'[d])
    <2>1. Run(d, echo[d], Unwritten(d), taken[d], sent[d])
      BY <1>4, <1>5 DEF SpinInv
    <2>2. sent[d] \in Nat /\ sent'[d] \in Nat /\ taken[d] \in Nat
      BY <1>3 DEF SpinInv, SocketsTypeOK
    <2>3. Run(d, echo[d], Unwritten(d), taken[d], sent'[d])
      BY <1>4, <2>1, <2>2, LongerRun
    <2>4. Unwritten(d)' = Unwritten(d)
      BY <1>1, <1>4 DEF Unwritten, spinVars
    <2> QED
      BY <1>4, <2>3, <2>4
  <1> QED
    BY <1>1, <1>3, <1>4, <1>5 DEF SpinInv, spinVars, OpenFds

\* The spinning servers' invariant survives whatever they do.
LEMMA SpinKeeps ==
    ASSUME SpinInv, main_pc' = "boot", Moves
    PROVE  SpinInv'
  BY QuietKeeps, BootKeeps, LeaveKeeps, AcceptKeeps, ReadKeeps, WriteKeeps, HangUpKeeps,
     NetworkKeeps DEF Moves

-----------------------------------------------------------------------------
(* A spinning server echoes.                                               *)

\* So is every step of a client.
LEMMA ClientEchoes ==
    ASSUME SocketsTypeOK, NEW c \in Conns,
           \/ Connect(c) \/ ClientSend(c) \/ ClientRecv(c)
           \/ ClientShut(c) \/ ClientClose(c) \/ ResetArrives(c),
           \A d \in Conns : InHand(d)' = InHand(d),
           \A d \in Conns : InHand(d) => phase[d] = "open"
    PROVE  EchoStep
  <1>1. CASE Connect(c)
    <2>1. /\ listening /\ phase[c] = "none" /\ phase' = [phase EXCEPT ![c] = "queued"]
          /\ UNCHANGED <<listening, cl, sent, echo>>
      BY <1>1 DEF Connect
    <2>2. ServedPhase[c] = "none" /\ ServedPhase' = [ServedPhase EXCEPT ![c] = "queued"]
      BY <2>1 DEF ServedPhase, SocketsTypeOK
    <2> QED
      BY <2>1, <2>2 DEF Echoer!Arrive, Echoer!Next, EchoStep
  <1>2. CASE ~Connect(c)
    <2>1. ServedPhase' = ServedPhase /\ UNCHANGED <<listening, echo>>
      <3>1. UNCHANGED <<listening, phase, echo>>
        BY <1>2 DEF ClientSend, ClientRecv, ClientShut, ClientClose, ResetArrives
      <3> QED
        BY <3>1 DEF ServedPhase
    <2>2. Connected(c) => ServedPhase[c] \in {"queued", "open"}
      BY DEF Connected, ServedPhase
    <2>3. CASE ClientSend(c)
      <3>1. PICK n \in 1..(MaxBytes - sent[c]) : sent' = [sent EXCEPT ![c] = @ + n]
        BY <2>3 DEF ClientSend
      <3>2. sent'[c] > sent[c] /\ sent' = [sent EXCEPT ![c] = sent'[c]]
        BY <3>1 DEF SocketsTypeOK
      <3>3. Connected(c) /\ cl[c] = "up" /\ cl' = cl
        BY <2>3 DEF ClientSend
      <3> QED
        BY <2>1, <2>2, <3>2, <3>3 DEF Echoer!Send, Echoer!Next, EchoStep
    <2>4. CASE ClientRecv(c) \/ ResetArrives(c)
      BY <2>1, <2>4 DEF ClientRecv, ResetArrives, EchoStep, Echoer!echoVars
    <2>5. CASE ClientShut(c) \/ ClientClose(c)
      <3>1. /\ Connected(c) /\ sent' = sent
            /\ \/ cl[c] = "up" /\ cl' = [cl EXCEPT ![c] = "shut"]
               \/ cl[c] # "gone" /\ cl' = [cl EXCEPT ![c] = "gone"]
        BY <2>5 DEF ClientShut, ClientClose, MayLeave
      <3> QED
        BY <2>1, <2>2, <3>1 DEF Echoer!Leave, Echoer!Next, EchoStep
    <2> QED
      BY <1>2, <2>3, <2>4, <2>5
  <1> QED
    BY <1>1, <1>2

\* Every move is a step of EchoService or is not seen there.
LEMMA SpinEchoes ==
    ASSUME SpinInv, SpinInv', main_pc' = "boot", Moves
    PROVE  EchoStep
  <1>1. ServedPhase = phase /\ ServedPhase' = phase'
    BY SpinPhase
  <1>2. CASE UNCHANGED <<listening, phase, cl, sent, echo>>
    BY <1>1, <1>2 DEF EchoStep, Echoer!echoVars
  <1>3. CASE SpinBoot
    <2>1. listening' = TRUE \/ listening' = listening
      BY <1>3 DEF SpinBoot
    <2>2. UNCHANGED <<phase, cl, sent, echo>>
      BY <1>3 DEF SpinBoot
    <2>3. CASE listening' = TRUE
      BY <1>1, <2>2, <2>3 DEF EchoStep, Echoer!Next, Echoer!Start
    <2> QED
      BY <1>2, <2>1, <2>2, <2>3
  <1>4. CASE Leave
    BY <1>1, <1>4 DEF Leave, SpinExit, ProcessExit, EchoStep, Echoer!Next, Echoer!Shutdown
  <1>5. CASE (\E f \in Fds : SpinAccept(f)) \/ Refusal
    <2>1. PICK f \in Fds : SpinAccept(f) \/ SpinRefuse(f)
      BY <1>5 DEF Refusal
    <2>2. /\ AcceptAs(f)
          /\ \/ /\ owner' = [owner EXCEPT ![f] = Head(backlog)]
                /\ phase' = [phase EXCEPT ![Head(backlog)] = "open"]
             \/ /\ owner' = owner
                /\ phase' = [phase EXCEPT ![Head(backlog)] = "done"]
          /\ UNCHANGED <<listening, cl, sent, echo>>
      BY <2>1 DEF SpinAccept, SpinRefuse
    <2>3. Head(backlog) \in Conns /\ phase[Head(backlog)] = "queued"
      BY <2>2, AcceptOwner DEF SpinInv
    <2>4. Echoer!Admit(Head(backlog))
      BY <1>1, <2>2, <2>3 DEF Echoer!Admit
    <2> QED
      BY <2>3, <2>4 DEF EchoStep, Echoer!Next
  <1>6. CASE SpinWrite
    <2> DEFINE c == owner[cur]
    <2>1. /\ pc = "write" /\ buf # <<>> /\ Write(c, buf)
          /\ UNCHANGED <<listening, phase, cl, sent>>
      BY <1>6 DEF SpinWrite
    <2>2. c \in Conns /\ phase[c] = "open" /\ buf \in Seq(Byte)
      BY <2>1, InHandOpen DEF Serving, SpinInv
    <2>3. Run(c, echo[c], buf, taken[c], sent[c])
      BY <2>1, <2>2 DEF SpinInv, Unwritten
    <2> HIDE DEF c
    <2>4. /\ Len(echo'[c]) \in (Len(echo[c]) + 1)..sent[c]
          /\ echo' = [echo EXCEPT ![c] = [k \in 1..Len(echo'[c]) |-> <<c, k>>]]
      BY <2>1, <2>2, <2>3, RunGrows DEF SpinInv
    <2>5. Echoer!Echo(c)
      BY <1>1, <2>1, <2>2, <2>4 DEF Echoer!Echo
    <2> QED
      BY <2>2, <2>5 DEF EchoStep, Echoer!Next
  <1>7. CASE HangUp
    <2> DEFINE c == owner[cur]
    <2>1. /\ pc \in Serving /\ UNCHANGED <<listening, cl, sent, echo>>
          /\ phase' = [phase EXCEPT ![c] = "done"]
          /\ rst[c] \/ (pc = "read" /\ Avail(c) = 0 /\ Eof(c))
      BY <1>7 DEF HangUp, SpinClose, CloseFd
    <2>2. c \in Conns /\ phase[c] = "open"
      BY <2>1, InHandOpen
    <2> HIDE DEF c
    <2>3. cl[c] = "gone" \/ (cl[c] = "shut" /\ Len(echo[c]) = sent[c])
      <3>1. rst[c] => cl[c] = "gone"
        BY <2>2 DEF SpinInv, GoneInv
      <3>2. ASSUME pc = "read", Avail(c) = 0, Eof(c)
            PROVE  cl[c] = "gone" \/ (cl[c] = "shut" /\ Len(echo[c]) = sent[c])
        <4>1. /\ taken[c] \in Nat /\ sent[c] \in Nat /\ Len(echo[c]) \in Nat
              /\ cl[c] \in {"shut", "gone"}
          BY <2>2, <3>2, ConnParts DEF SpinInv, Eof
        <4>2. taken[c] = Len(echo[c]) + 0
          BY <2>2, <3>2 DEF SpinInv, Run, Unwritten
        <4> QED
          BY <3>2, <4>1, <4>2 DEF Avail
      <3> QED
        BY <2>1, <3>1, <3>2
    <2>4. Echoer!Hangup(c)
      BY <1>1, <2>1, <2>2, <2>3 DEF Echoer!Hangup
    <2> QED
      BY <2>2, <2>4 DEF EchoStep, Echoer!Next
  <1>8. CASE SpinNetwork
    <2>1. PICK c \in Conns : \/ Connect(c) \/ ClientSend(c) \/ ClientRecv(c)
                             \/ ClientShut(c) \/ ClientClose(c) \/ ResetArrives(c)
      BY <1>8 DEF SpinNetwork
    <2>2. main_pc = "boot"
      BY DEF SpinInv
    <2> QED
      BY <2>1, <2>2, ClientEchoes DEF SpinInv, InHand
  <1> QED
    BY <1>2, <1>3, <1>4, <1>5, <1>6, <1>7, <1>8
       DEF Moves, Quiet, SpinRead, sockVars
-----------------------------------------------------------------------------
(* server_select: the set and its maximum.                                 *)

\* A set of numbers that is not empty has a least one.
LEMMA MinExists ==
    ASSUME NEW S, S \subseteq Nat, S # {}
    PROVE  Min(S) \in S /\ \A x \in S : Min(S) <= x
  <1>1. PICK m \in S : \A y \in S : ~ (<<y, m>> \in OpToRel(<, Nat))
    BY WFMin, NatLessThanWellFounded, Zenon
  <1>2. \A y \in S : ~(y < m)
    BY <1>1, Zenon DEF OpToRel
  <1>3. \A y \in S : m <= y
    <2>1. m \in Nat /\ \A y \in S : y \in Nat
      OBVIOUS
    <2> QED
      BY <1>2, <2>1
  <1> QED
    BY <1>3 DEF Min

\* One that is bounded has a greatest one.
LEMMA MaxExists ==
    ASSUME NEW S, S \subseteq Nat, NEW b \in Nat, S # {}, \A x \in S : x <= b
    PROVE  Max(S) \in S /\ \A x \in S : x <= Max(S)
  <1> DEFINE T == {b - x : x \in S}
  <1>0. \A x \in S : x \in Nat
    OBVIOUS
  <1>1. T \subseteq Nat
    BY <1>0
  <1>2. T # {}
    <2>1. PICK x \in S : TRUE
      OBVIOUS
    <2> QED
      BY <2>1
  <1>3. Min(T) \in T /\ \A y \in T : Min(T) <= y
    <2> HIDE DEF T
    <2> QED
      BY <1>1, <1>2, MinExists
  <1>4. PICK x \in S : Min(T) = b - x
    BY <1>3
  <1>5. \A y \in S : x >= y
    <2> TAKE y \in S
    <2>1. b - x <= b - y
      BY <1>3, <1>4
    <2> QED
      BY <1>0, <2>1
  <1> QED
    BY <1>5 DEF Max

\* What is greatest is the maximum.
LEMMA MaxIs ==
    ASSUME NEW S, S \subseteq Nat, NEW m \in S, \A x \in S : x <= m
    PROVE  Max(S) = m
  <1>1. Max(S) \in S /\ \A x \in S : x <= Max(S)
    BY MaxExists
  <1>2. m \in Nat /\ Max(S) \in Nat /\ Max(S) <= m /\ m <= Max(S)
    BY <1>1
  <1> QED
    BY <1>2

\* The set holds the listener and the open descriptors and max_fd is its
\* greatest; what select() left is in it, and not in hand.
SelInv ==
    /\ \A f \in master_set : f \in Nat
    /\ pc # "exit" => master_set = OpenFds \cup {listen_fd}
    /\ \A f \in master_set : f < FD_SETSIZE
    /\ max_fd \in master_set /\ \A f \in master_set : f <= max_fd
    /\ readfds \subseteq master_set
    /\ pc \in {"read", "write"} => cur \notin readfds
    /\ pc # "hup"

\* At first only the listener is watched.
LEMMA SelectStarts ==
    ASSUME SelectInit
    PROVE  SelInv
  <1>1. FD_SETSIZE \in Nat /\ listen_fd < FD_SETSIZE /\ OpenFds = {}
    BY ServerSelectAssumption, SocketsStart DEF SelectInit, SpinInit
  <1> QED
    BY <1>1, SpinEchoAssumption DEF SelectInit, SpinInit, SelInv

\* The tables name open descriptors, so the server makes no other moves.
LEMMA SelectMoves ==
    ASSUME SpinInv, SelInv, SelectNext
    PROVE  Moves
  <1>1. CASE Select \/ SelectEndScan \/ SelectAcceptStops
    BY <1>1 DEF Select, SelectEndScan, SelectAcceptStops, SpinAcceptStops, Moves, Quiet, Serving
  <1>2. CASE SelectScan
    <2>1. /\ Ahead \subseteq Nat /\ Ahead # {} /\ pc = "next" /\ cur' = Min(Ahead)
          /\ pc' = IF cur' = listen_fd THEN "accept" ELSE "read"
          /\ UNCHANGED <<sockVars, buf>>
      BY <1>2 DEF SelectScan, Ahead, SelInv
    <2>2. cur' \in OpenFds \cup {listen_fd}
      BY <2>1, MinExists DEF Ahead, SelInv
    <2> QED
      BY <2>1, <2>2 DEF Moves, Quiet, Serving
  <1>3. CASE SelectReject
    <2>1. (\E f \in Fds : SpinRefuse(f)) /\ pc' = "accept"
      BY <1>3 DEF SelectReject, SpinRefuse
    <2> QED
      BY <2>1 DEF Moves, Refusal, Serving
  <1>4. CASE SelectEcho
    BY <1>4 DEF SelectEcho, SpinDone, Moves, Quiet, Serving
  <1>5. CASE SelectReadStops
    <2>1. CASE SpinEagain
      BY <1>5, <2>1 DEF SelectReadStops, ReadStopped, SpinEagain, Moves, Quiet, Serving
    <2>2. CASE SelectDrop
      <3>1. ~ReadWouldBlock(owner[cur]) \/ SpinEagain
        BY <1>5 DEF SelectReadStops
      <3> QED
        BY <1>5, <2>1, <2>2, <3>1 DEF SelectReadStops, SelectDrop, ReadStopped, ReadWouldBlock,
           Readable, Moves, HangUp, Serving
    <2> QED
      BY <1>5, <2>1, <2>2 DEF SelectReadStops
  <1>6. CASE SelectWriteStops
    BY <1>6 DEF SelectWriteStops, WriteBroken, WriteFails, SelectDrop, Moves, HangUp, Serving
  <1>7. CASE SelectBoot \/ SelectAccept \/ SelectKill \/ SelectNetwork
    BY <1>7 DEF SelectBoot, SelectAccept, SelectKill, SelectNetwork, Leave, Moves
  <1> QED
    BY <1>1, <1>2, <1>3, <1>4, <1>5, <1>6, <1>7 DEF SelectNext, SelectServer

\* close(), FD_CLR() and the walk down keep the set and its maximum.
LEMMA DropKeepsSet ==
    ASSUME SpinInv, SelInv, pc \in {"read", "write"}, SelectDrop
    PROVE  SelInv'
  <1>1. /\ CloseFd(cur) /\ backlog' = backlog /\ pc' = "next"
        /\ master_set' = master_set \ {cur}
        /\ UNCHANGED <<FD_SETSIZE, readfds>>
    BY DEF SelectDrop, SpinClose
  <1>2. cur \in OpenFds /\ cur \in Fds /\ owner[cur] \in Conns
    BY InHandOpen DEF Serving
  <1>3. OpenFds' = OpenFds \ {cur} /\ cur # listen_fd
    BY <1>1, <1>2, CloseOwner, SpinEchoAssumption, SocketsAssumption DEF SpinInv
  <1>4. /\ master_set' = OpenFds' \cup {listen_fd} /\ \A f \in master_set' : f \in Nat
        /\ readfds' \subseteq master_set' /\ \A f \in master_set' : f < FD_SETSIZE'
    BY <1>1, <1>3 DEF SelInv
  <1>5. max_fd \in Nat /\ listen_fd \in Nat /\ listen_fd \in master_set'
        /\ \A f \in master_set' : f <= max_fd
    BY <1>1, <1>4, SpinEchoAssumption DEF SelInv
  <1>6. max_fd' \in master_set' /\ \A f \in master_set' : f <= max_fd'
    <2>1. CASE cur = max_fd
      <3> DEFINE S == {0} \cup {f \in master_set' : f <= max_fd}
      <3>1. S \subseteq Nat /\ 0 \in S /\ \A f \in S : f <= max_fd
        <4>1. 0 <= max_fd /\ \A f \in master_set' : f \in Nat
          BY <1>4, <1>5
        <4> QED
          BY <4>1
      <3>2. max_fd' = Max(S)
        BY <2>1 DEF SelectDrop
      <3>3. \A f \in master_set' : f \in S
        BY <1>5
      <3>4. \A f \in S : f = 0 \/ f \in master_set'
        OBVIOUS
      <3> HIDE DEF S
      <3>5. Max(S) \in S /\ \A f \in S : f <= Max(S)
        BY <1>5, <3>1, MaxExists
      <3>6. Max(S) # 0 => Max(S) \in master_set'
        BY <3>4, <3>5
      <3>7. Max(S) = 0 => listen_fd = 0
        BY <1>5, <3>3, <3>5
      <3> QED
        BY <1>5, <3>2, <3>3, <3>5, <3>6, <3>7
    <2>2. CASE cur # max_fd
      BY <1>1, <1>5, <2>2 DEF SelectDrop, SelInv
    <2> QED
      BY <2>1, <2>2
  <1> QED
    BY <1>1, <1>4, <1>6 DEF SelInv

\* Each step of the server keeps the set.
LEMMA SelectKeeps ==
    ASSUME SpinInv, SelInv, SelectNext
    PROVE  SelInv'
  <1>1. CASE SelectBoot
    <2>1. UNCHANGED <<owner, selVars>> /\ pc = "boot" /\ pc' \in {"loop", "exit"}
      BY <1>1 DEF SelectBoot, SpinBoot
    <2> QED
      BY <2>1 DEF SelInv, selVars, OpenFds
  <1>2. CASE SelectKill
    <2>1. UNCHANGED selVars /\ pc' = "exit"
      BY <1>2 DEF SelectKill, SpinExit
    <2> QED
      BY <2>1 DEF SelInv, selVars
  <1>3. CASE Select \/ SelectEndScan \/ SelectAcceptStops
    <2>1. /\ UNCHANGED <<owner, FD_SETSIZE, master_set, max_fd>> /\ pc # "exit"
          /\ pc' \in {"next", "loop"}
          /\ readfds' \subseteq master_set
      BY <1>3 DEF Select, SelectEndScan, SelectAcceptStops, SpinAcceptStops, selVars, sockVars,
         SelInv
    <2> QED
      BY <2>1 DEF SelInv, OpenFds
  <1>4. CASE SelectScan
    <2>1. /\ UNCHANGED <<owner, FD_SETSIZE, master_set, max_fd>> /\ pc # "exit"
          /\ pc' \in {"accept", "read"}
          /\ readfds' = readfds \ {cur'}
      BY <1>4 DEF SelectScan, sockVars
    <2> QED
      BY <2>1 DEF SelInv, OpenFds
  <1>5. CASE SelectAccept
    <2>1. PICK f \in Fds : /\ f < FD_SETSIZE
                           /\ SpinAccept(f)
                           /\ master_set' = master_set \cup {f}
                           /\ max_fd' = IF f > max_fd THEN f ELSE max_fd
                           /\ UNCHANGED <<FD_SETSIZE, readfds>>
      BY <1>5 DEF SelectAccept
    <2>2. /\ pc = "accept" /\ pc' = "accept" /\ AcceptAs(f)
          /\ owner' = [owner EXCEPT ![f] = Head(backlog)]
          /\ phase' = [phase EXCEPT ![Head(backlog)] = "open"]
      BY <2>1 DEF SpinAccept, spinVars
    <2>3. Head(backlog) \in Conns
      BY <2>2, AcceptOwner DEF SpinInv
    <2>4. OpenFds' = OpenFds \cup {f}
      BY <2>2, <2>3, SocketsAssumption DEF OpenFds, SpinInv, SocketsTypeOK
    <2>5. f \in Nat /\ max_fd \in Nat
      BY SocketsAssumption DEF SelInv
    <2>6. \A g \in master_set' : g \in Nat /\ g < FD_SETSIZE'
      BY <2>1, <2>5 DEF SelInv
    <2>7. max_fd' \in master_set' /\ \A g \in master_set' : g <= max_fd'
      BY <2>1, <2>5 DEF SelInv
    <2> QED
      BY <2>1, <2>2, <2>4, <2>6, <2>7 DEF SelInv
  <1>6. CASE SelectReject
    <2>1. UNCHANGED <<owner, pc, selVars>> /\ pc = "accept"
      BY <1>6 DEF SelectReject, SpinRefuse
    <2> QED
      BY <2>1 DEF SelInv, OpenFds, selVars
  <1>7. CASE SelectEcho \/ (SelectReadStops /\ SpinEagain /\ UNCHANGED selVars)
    <2>1. /\ UNCHANGED <<owner, cur, selVars>> /\ pc \in {"read", "write"}
          /\ pc' \in {"write", "next"}
      BY <1>7 DEF SelectEcho, SelectReadStops, ReadStopped, SpinEagain, SpinRead, SpinWrite,
         SpinDone, sockVars
    <2> QED
      BY <2>1 DEF SelInv, OpenFds, selVars
  <1>8. CASE (SelectReadStops /\ SelectDrop) \/ SelectWriteStops
    BY <1>8, DropKeepsSet DEF SelectReadStops, SelectWriteStops, ReadStopped, WriteBroken
  <1>9. CASE SelectNetwork
    <2>1. UNCHANGED <<pc, cur, selVars>>
      BY <1>9 DEF SelectNetwork, SpinNetwork, spinVars
    <2>2. owner' = owner
      BY <1>9 DEF SelectNetwork, SpinNetwork, Connect, ClientSend, ClientRecv, ClientShut,
         ClientClose, ResetArrives
    <2> QED
      BY <2>1, <2>2 DEF SelInv, OpenFds, selVars
  <1> QED
    BY <1>1, <1>2, <1>3, <1>4, <1>5, <1>6, <1>7, <1>8, <1>9
       DEF SelectNext, SelectServer, SelectReadStops

\* When select() is called, the set is what it should be.
LEMMA SelectWatches ==
    ASSUME SelInv
    PROVE  /\ \A f \in master_set : f < FD_SETSIZE
           /\ pc = "loop" => /\ master_set = OpenFds \cup {listen_fd}
                             /\ max_fd = Max(master_set)
  BY MaxIs DEF SelInv

-----------------------------------------------------------------------------
(* server_epoll and reference_server: the batch and the edges.             *)

Batched(f) == \E e \in batch : e.fd = f

\* What is still to be handled is open, is not in hand, and if it is to be
\* hung up on it has been reset; between two batches there is nothing.
BatchInv ==
    /\ \A e \in batch : e.fd \in OpenFds \cup {listen_fd}
    /\ \A e, g \in batch : e.fd = g.fd => e = g
    /\ \A e \in batch : e.hup => e.fd \in OpenFds /\ rst[owner[e.fd]]
    /\ pc \in Serving => ~Batched(cur)
    /\ pc = "hup" => ~edge /\ rst[owner[cur]]
    /\ pc \in {"boot", "loop"} => batch = {}

\* Every edge of a client is on the ready list, in the batch or in hand.
EdgeInv ==
    edge => \A f \in OpenFds : Readable(owner[f]) =>
                f \in rdl \/ Batched(f) \/ (pc \in Serving /\ cur = f)

\* So is the listener's.
ListenerInv ==
    edge /\ backlog # <<>> => listen_fd \in rdl \/ Batched(listen_fd) \/ pc = "accept"

\* At first nothing is reported, on the ready list or waiting.
LEMMA EpollStarts ==
    ASSUME EpollInit
    PROVE  BatchInv /\ EdgeInv /\ ListenerInv
  <1>1. OpenFds = {} /\ backlog = <<>>
    BY SocketsStart DEF EpollInit, SpinInit, SocketsInit
  <1> QED
    BY <1>1 DEF EpollInit, SpinInit, BatchInv, EdgeInv, ListenerInv, Batched, Serving

\* A batch names open descriptors, so these servers make no other moves.
LEMMA EpollMoves ==
    ASSUME SpinInv, BatchInv, EpollNext
    PROVE  Moves
  <1>1. CASE EpollWait \/ EpollEndBatch \/ EpollAcceptStops
    BY <1>1 DEF EpollWait, EpollEndBatch, EpollAcceptStops, SpinAcceptStops, Moves, Quiet, Serving
  <1>2. CASE EpollDispatch
    <2>1. PICK e \in batch :
             /\ cur' = e.fd
             /\ pc' = IF e.hup /\ ~edge THEN "hup"
                      ELSE IF e.fd = listen_fd THEN "accept" ELSE "read"
      BY <1>2 DEF EpollDispatch
    <2>2. pc = "next" /\ UNCHANGED <<sockVars, buf>>
      BY <1>2 DEF EpollDispatch
    <2>3. pc' \in {"hup", "read"} => cur' \in OpenFds
      BY <2>1 DEF BatchInv
    <2> QED
      BY <2>1, <2>2, <2>3 DEF Moves, Quiet, Serving
  <1>3. CASE EpollAcceptUnwatched
    <2>1. (\E f \in Fds : SpinRefuse(f)) /\ pc' = "accept"
      BY <1>3 DEF EpollAcceptUnwatched, SpinRefuse
    <2> QED
      BY <2>1 DEF Moves, Refusal, Serving
  <1>4. CASE EpollWriteDone
    <2>1. /\ pc = "write" /\ buf = <<>> /\ pc' \in {"read", "next"}
          /\ UNCHANGED <<sockVars, cur, buf>>
      BY <1>4 DEF EpollWriteDone
    <2>2. cur' \in OpenFds
      BY <2>1 DEF SpinInv, Serving
    <2> QED
      BY <2>1, <2>2 DEF Moves, Quiet
  <1>5. CASE EpollReadStops
    <2>1. CASE SpinEagain
      BY <1>5, <2>1 DEF EpollReadStops, ReadStopped, SpinEagain, Moves, Quiet, Serving
    <2>2. CASE EpollDisconnect /\ ~ReadWouldBlock(owner[cur])
      BY <1>5, <2>2 DEF EpollReadStops, EpollDisconnect, ReadStopped, ReadWouldBlock,
         Readable, Moves, HangUp, Serving
    <2> QED
      BY <1>5, <2>1, <2>2 DEF EpollReadStops
  <1>6. CASE EpollWriteStops
    BY <1>6 DEF EpollWriteStops, WriteBroken, WriteFails, EpollDisconnect, Moves, HangUp, Serving
  <1>7. CASE EpollHangUp
    BY <1>7 DEF EpollHangUp, EpollDisconnect, BatchInv, Moves, HangUp, Serving
  <1>8. CASE \/ EpollBoot \/ EpollKill \/ EpollNetwork \/ EpollAccept
             \/ EpollRead \/ EpollWriteSome
    BY <1>8 DEF EpollBoot, EpollKill, EpollNetwork, EpollAccept, EpollRead, EpollWriteSome,
       Leave, Moves
  <1> QED
    BY <1>1, <1>2, <1>3, <1>4, <1>5, <1>6, <1>7, <1>8 DEF EpollNext, EpollServer

\* A connection that was reset stays so.
LEMMA ResetStays ==
    ASSUME SocketsTypeOK, GoneInv, NEW c \in Conns, NEW d \in Conns,
           \/ Connect(c) \/ ClientSend(c) \/ ClientRecv(c)
           \/ ClientShut(c) \/ ClientClose(c) \/ ResetArrives(c),
           rst[d]
    PROVE  rst'[d]
  <1>1. CASE ClientClose(c)
    <2>1. PICK r \in BOOLEAN : rst' = [rst EXCEPT ![c] = r]
      BY <1>1 DEF ClientClose
    <2>2. c # d
      BY <1>1 DEF ClientClose, GoneInv
    <2> QED
      BY <2>1, <2>2 DEF SocketsTypeOK
  <1>2. CASE ResetArrives(c)
    BY <1>2 DEF ResetArrives, SocketsTypeOK
  <1>3. CASE Connect(c) \/ ClientSend(c) \/ ClientRecv(c) \/ ClientShut(c)
    BY <1>3 DEF Connect, ClientSend, ClientRecv, ClientShut
  <1> QED
    BY <1>1, <1>2, <1>3

\* Whoever accept() returns was not open before, and all others stay.
LEMMA AcceptOpens ==
    ASSUME SpinInv, NEW f \in Fds, SpinAccept(f)
    PROVE  /\ OpenFds' = OpenFds \cup {f} /\ f \notin OpenFds /\ f # listen_fd
           /\ owner'[f] = Head(backlog) /\ Head(backlog) \in Conns
           /\ \A g \in OpenFds : owner'[g] = owner[g]
           /\ pc = "accept" /\ pc' = "accept" /\ rst' = rst
  <1>1. /\ pc = "accept" /\ pc' = "accept" /\ AcceptAs(f) /\ rst' = rst
        /\ owner' = [owner EXCEPT ![f] = Head(backlog)]
        /\ phase' = [phase EXCEPT ![Head(backlog)] = "open"]
    BY DEF SpinAccept, spinVars
  <1>2. Head(backlog) \in Conns /\ owner \in [Fds -> Conns \cup {NoConn}]
    BY <1>1, AcceptOwner DEF SpinInv, SocketsTypeOK
  <1>3. f \notin OpenFds /\ f # listen_fd
    BY <1>1, SpinEchoAssumption, SocketsAssumption DEF AcceptAs, FreeFds, OpenFds
  <1> QED
    BY <1>1, <1>2, <1>3, SocketsAssumption DEF OpenFds

\* close() of the descriptor in hand leaves the others open.
LEMMA CloseShuts ==
    ASSUME SpinInv, pc \in Serving, SpinClose
    PROVE  /\ OpenFds' = OpenFds \ {cur} /\ cur \in Fds /\ cur # listen_fd
           /\ \A g \in OpenFds' : owner'[g] = owner[g]
           /\ pc' = "next" /\ UNCHANGED <<backlog, cl, rst, sent, taken, cur>>
  <1>1. /\ CloseFd(cur) /\ pc' = "next" /\ UNCHANGED <<backlog, cl, rst, sent, taken, cur>>
    BY DEF SpinClose
  <1>2. cur \in Fds /\ owner[cur] \in Conns
    BY InHandOpen
  <1>3. cur # listen_fd
    BY <1>2, SpinEchoAssumption, SocketsAssumption
  <1> QED
    BY <1>1, <1>2, <1>3, CloseOwner DEF SpinInv

\* A descriptor that is open has a connection.
LEMMA OpenConn ==
    ASSUME SpinInv, NEW f \in OpenFds
    PROVE  f \in Fds /\ owner[f] \in Conns /\ f # listen_fd
  BY SpinEchoAssumption, SocketsAssumption DEF SpinInv, SocketsTypeOK, OpenFds

\* Each step of the epoll servers keeps what the batch says.
LEMMA BatchKeeps ==
    ASSUME SpinInv, BatchInv, EpollNext, program' = program
    PROVE  BatchInv'
  <1>0. edge' = edge
    BY DEF edge
  <1>1. CASE EpollBoot
    <2>1. pc' \in {"loop", "exit"} /\ pc = "boot" /\ UNCHANGED <<batch, owner, rst>>
      BY <1>1 DEF EpollBoot, SpinBoot, epollVars
    <2> QED
      BY <2>1 DEF BatchInv, Serving, OpenFds
  <1>2. CASE EpollKill
    BY <1>2 DEF EpollKill, SpinExit, BatchInv, Serving
  <1>3. CASE EpollWait
    <2>1. /\ pc' = "next" /\ UNCHANGED <<owner, rst, backlog>>
          /\ \E S \in SUBSET (rdl \cup EpollReady) :
                batch' = {EpollEvent(f) : f \in S \cap EpollReady}
      BY <1>3 DEF EpollWait, sockVars
    <2>2. \A f \in EpollReady : f \in OpenFds \cup {listen_fd}
      BY DEF EpollReady
    <2>3. \A e \in batch' : \E f \in OpenFds \cup {listen_fd} : e = EpollEvent(f)
      BY <2>1, <2>2
    <2>4. \A f \in OpenFds \cup {listen_fd} :
             /\ EpollEvent(f).fd = f
             /\ EpollEvent(f).hup => f # listen_fd /\ rst[owner[f]]
      BY DEF EpollEvent
    <2>5. OpenFds' = OpenFds
      BY <2>1 DEF OpenFds
    <2> HIDE DEF EpollEvent
    <2>6. \A e, g \in batch' : e.fd = g.fd => e = g
      BY <2>3, <2>4
    <2>7. \A e \in batch' : /\ e.fd \in OpenFds \cup {listen_fd}
                            /\ e.hup => e.fd \in OpenFds /\ rst[owner[e.fd]]
      BY <2>3, <2>4
    <2> QED
      BY <2>1, <2>5, <2>6, <2>7 DEF BatchInv, Serving
  <1>4. CASE EpollDispatch
    <2>1. PICK e \in batch :
             /\ batch' = batch \ {e}
             /\ cur' = e.fd
             /\ pc' = IF e.hup /\ ~edge THEN "hup"
                      ELSE IF e.fd = listen_fd THEN "accept" ELSE "read"
      BY <1>4 DEF EpollDispatch
    <2>2. UNCHANGED <<owner, rst>>
      BY <1>4 DEF EpollDispatch, sockVars
    <2> QED
      BY <1>0, <2>1, <2>2 DEF BatchInv, Batched, OpenFds, Serving
  <1>5. CASE EpollEndBatch \/ EpollAcceptStops
    <2>1. /\ UNCHANGED <<owner, rst, batch>> /\ pc' \in {"loop", "next"}
          /\ pc' = "loop" => batch = {}
      BY <1>5 DEF EpollEndBatch, EpollAcceptStops, SpinAcceptStops, epollVars, sockVars
    <2> QED
      BY <2>1 DEF BatchInv, OpenFds, Serving
  <1>6. CASE EpollAccept
    <2>1. PICK f \in Fds : SpinAccept(f)
      BY <1>6 DEF EpollAccept
    <2>2. batch' = batch
      BY <1>6 DEF EpollAccept
    <2> QED
      BY <2>1, <2>2, AcceptOpens DEF BatchInv, Serving
  <1>7. CASE EpollAcceptUnwatched
    <2>1. pc = "accept" /\ UNCHANGED <<owner, rst, pc, batch>>
      BY <1>7 DEF EpollAcceptUnwatched, SpinRefuse, epollVars
    <2> QED
      BY <2>1 DEF BatchInv, OpenFds, Serving
  <1>8. CASE EpollRead \/ EpollWriteSome \/ EpollWriteDone \/ (EpollReadStops /\ SpinEagain)
    <2>1. /\ UNCHANGED <<owner, rst, cur>> /\ pc \in {"read", "write"}
          /\ pc' \in {"read", "write", "next"}
      BY <1>8 DEF EpollRead, EpollWriteSome, EpollWriteDone, EpollReadStops, ReadStopped,
         SpinRead, SpinWrite, SpinEagain, sockVars
    <2>2. batch' = batch
      <3>1. CASE EpollReadStops /\ SpinEagain
        BY <3>1 DEF EpollReadStops, EpollDisconnect, epollVars
      <3> QED
        BY <1>8, <3>1 DEF EpollRead, EpollWriteSome, EpollWriteDone, epollVars
    <2> QED
      BY <2>1, <2>2 DEF BatchInv, OpenFds, Serving, Batched
  <1>9. CASE pc \in Serving /\ EpollDisconnect
    <2>1. SpinClose /\ batch' = batch
      BY <1>9 DEF EpollDisconnect
    <2>2. \A e \in batch : e.fd # cur
      BY <1>9 DEF BatchInv, Batched
    <2> QED
      BY <1>9, <2>1, <2>2, CloseShuts DEF BatchInv, Serving
  <1>10. CASE EpollNetwork
    <2>1. UNCHANGED <<pc, cur, batch>>
      BY <1>10 DEF EpollNetwork, EpollWake, SpinNetwork, spinVars
    <2>2. PICK c \in Conns : \/ Connect(c) \/ ClientSend(c) \/ ClientRecv(c)
                             \/ ClientShut(c) \/ ClientClose(c) \/ ResetArrives(c)
      BY <1>10 DEF EpollNetwork, SpinNetwork
    <2>3. owner' = owner /\ OpenFds' = OpenFds
      BY <2>2, ClientStreams DEF SpinInv, OpenFds
    <2>4. \A f \in OpenFds : rst[owner[f]] => rst'[owner'[f]]
      BY <2>2, <2>3, ResetStays, OpenConn DEF SpinInv
    <2>5. pc \in Serving => cur \in OpenFds
      BY DEF SpinInv
    <2>6. \A e \in batch : e.hup => e.fd \in OpenFds /\ rst'[owner'[e.fd]]
      BY <2>4 DEF BatchInv
    <2>7. pc = "hup" => ~edge /\ rst'[owner'[cur]]
      BY <2>4, <2>5 DEF BatchInv, Serving
    <2> QED
      BY <1>0, <2>1, <2>3, <2>6, <2>7 DEF BatchInv, Batched
  <1>11. CASE EpollReadStops \/ EpollWriteStops \/ EpollHangUp
    <2>1. pc \in Serving /\ (EpollDisconnect \/ (EpollReadStops /\ SpinEagain))
      BY <1>11 DEF EpollReadStops, EpollWriteStops, EpollHangUp, ReadStopped, WriteBroken, Serving
    <2> QED
      BY <1>8, <1>9, <2>1
  <1> QED
    BY <1>1, <1>2, <1>3, <1>4, <1>5, <1>6, <1>7, <1>8, <1>10, <1>11 DEF EpollNext, EpollServer

\* An edge is made for whatever is to be read that was not before.
LEMMA WokenEdges ==
    ASSUME SpinInv, edge, EpollWake, NEW c \in Conns,
           \/ Connect(c) \/ ClientSend(c) \/ ClientRecv(c)
           \/ ClientShut(c) \/ ClientClose(c) \/ ResetArrives(c)
    PROVE  /\ \A f \in OpenFds : Readable(owner[f])' => Readable(owner[f]) \/ f \in rdl'
           /\ backlog' # backlog => listen_fd \in rdl'
           /\ rdl \subseteq rdl'
  <1>1. rdl' = rdl \cup EpollWoken
    BY DEF EpollWake
  <1>2. taken' = taken /\ owner' = owner
    BY ClientStreams DEF SpinInv
  <1>3. ASSUME NEW f \in OpenFds, Readable(owner[f])', ~Readable(owner[f])
        PROVE  f \in EpollWoken
    <2> DEFINE d == owner[f]
    <2>1. d \in Conns
      BY OpenConn
    <2>2. /\ sent[d] - taken[d] > 0 \/ cl[d] # "up" \/ rst[d] <=> Readable(d)
          /\ sent'[d] - taken[d] > 0 \/ cl'[d] # "up" \/ rst'[d]
      BY <1>2, <1>3 DEF Readable, Avail, Eof
    <2>3. sent'[d] # sent[d] \/ rst'[d] # rst[d] \/ (cl[d] = "up" /\ cl'[d] # "up")
      BY <1>3, <2>2
    <2> QED
      BY <2>3 DEF EpollWoken
  <1> QED
    BY <1>1, <1>3 DEF EpollWoken

\* No step of the baseline forgets the edge of a client.
LEMMA EdgeKeeps ==
    ASSUME SpinInv, BatchInv, EdgeInv, EpollNext, program' = program
    PROVE  EdgeInv'
  <1> SUFFICES ASSUME edge
               PROVE  \A f \in OpenFds' : Readable(owner[f])' =>
                         f \in rdl' \/ Batched(f)' \/ (pc' \in Serving /\ cur' = f)
    BY DEF EdgeInv, edge
  <1>0. \A f \in OpenFds : Readable(owner[f]) =>
           f \in rdl \/ Batched(f) \/ (pc \in Serving /\ cur = f)
    BY DEF EdgeInv
  <1>1. CASE EpollBoot
    <2>1. UNCHANGED <<owner, sent, taken, cl, rst, batch, rdl>> /\ pc \notin Serving
      BY <1>1 DEF EpollBoot, SpinBoot, epollVars, Serving
    <2> QED
      BY <1>0, <2>1 DEF OpenFds, Readable, Avail, Eof, Batched
  <1>2. CASE EpollKill
    <2>1. OpenFds' = {}
      BY <1>2 DEF EpollKill, SpinExit, ProcessExit, OpenFds
    <2> QED
      BY <2>1
  <1>3. CASE EpollWait
    <2>1. /\ pc = "loop" /\ UNCHANGED <<owner, sent, taken, cl, rst>>
          /\ \E S \in SUBSET rdl : /\ batch' = {EpollEvent(f) : f \in S \cap EpollReady}
                                   /\ rdl' = rdl \ S
      BY <1>3 DEF EpollWait, sockVars
    <2>2. PICK S \in SUBSET rdl : /\ batch' = {EpollEvent(f) : f \in S \cap EpollReady}
                                  /\ rdl' = rdl \ S
      BY <2>1
    <2>3. batch = {}
      BY <2>1 DEF BatchInv
    <2>4. \A f \in OpenFds : Readable(owner[f]) => f \in rdl /\ f \in EpollReady
      BY <1>0, <2>1, <2>3 DEF Batched, Serving, EpollReady
    <2>5. \A f \in S \cap EpollReady : Batched(f)'
      <3>1. \A f : EpollEvent(f).fd = f
        BY DEF EpollEvent
      <3> HIDE DEF EpollEvent
      <3> QED
        BY <2>2, <3>1 DEF Batched
    <2>6. OpenFds' = OpenFds /\ \A f : Readable(owner[f])' <=> Readable(owner[f])
      BY <2>1 DEF OpenFds, Readable, Avail, Eof
    <2> QED
      BY <2>2, <2>4, <2>5, <2>6
  <1>4. CASE EpollDispatch
    <2>1. PICK e \in batch :
             /\ batch' = batch \ {e}
             /\ cur' = e.fd
             /\ pc' = IF e.fd = listen_fd THEN "accept" ELSE "read"
      BY <1>4 DEF EpollDispatch
    <2>2. /\ UNCHANGED <<owner, sent, taken, cl, rst, rdl>> /\ pc = "next"
      BY <1>4 DEF EpollDispatch, sockVars
    <2>3. OpenFds' = OpenFds /\ \A f : Readable(owner[f])' <=> Readable(owner[f])
      BY <2>2 DEF OpenFds, Readable, Avail, Eof
    <2>4. \A f \in OpenFds : Batched(f) => Batched(f)' \/ (pc' \in Serving /\ cur' = f)
      BY <2>1, OpenConn DEF Batched, Serving
    <2> QED
      BY <1>0, <2>2, <2>3, <2>4 DEF Serving
  <1>5. CASE EpollEndBatch \/ EpollAcceptStops \/ EpollAcceptUnwatched
    <2>1. UNCHANGED <<owner, sent, taken, cl, rst, batch, rdl>> /\ pc \notin Serving
      BY <1>5 DEF EpollEndBatch, EpollAcceptStops, EpollAcceptUnwatched, SpinAcceptStops,
         SpinRefuse, epollVars, sockVars, Serving
    <2> QED
      BY <1>0, <2>1 DEF OpenFds, Readable, Avail, Eof, Batched
  <1>6. CASE EpollAccept
    <2>1. PICK f \in Fds : /\ SpinAccept(f)
                           /\ rdl' = IF edge /\ Readable(Head(backlog)) THEN rdl \cup {f}
                                     ELSE rdl
      BY <1>6 DEF EpollAccept
    <2>2. batch' = batch /\ UNCHANGED <<sent, taken, cl, rst>>
      BY <1>6 DEF EpollAccept, SpinAccept
    <2>3. \A d : (sent[d] - taken[d] > 0 \/ cl[d] # "up" \/ rst[d]) <=> Readable(d)
      BY DEF Readable, Avail, Eof
    <2>4. \A g : Readable(owner[g])' <=> Readable(owner'[g])
      BY <2>2, <2>3 DEF Readable, Avail, Eof
    <2>5. \A g \in OpenFds : Readable(owner[g]) => g \in rdl' \/ Batched(g)'
      BY <1>0, <2>1, <2>2, AcceptOpens DEF Batched, Serving
    <2> QED
      BY <2>1, <2>4, <2>5, AcceptOpens
  <1>7. CASE EpollRead \/ EpollWriteSome \/ EpollWriteDone
    <2>1. /\ UNCHANGED <<owner, sent, cl, rst, cur, rdl, batch>>
          /\ pc \in Serving /\ pc' \in Serving
          /\ \A d \in Conns : d # owner[cur] => taken'[d] = taken[d]
      BY <1>7 DEF EpollRead, EpollWriteSome, EpollWriteDone,
         SpinRead, SpinWrite, sockVars, epollVars, Serving, SpinInv, SocketsTypeOK
    <2>2. cur \in OpenFds
      BY <2>1 DEF SpinInv
    <2>3. ASSUME NEW f \in OpenFds, f # cur
          PROVE  Readable(owner[f])' <=> Readable(owner[f])
      <3>1. owner[f] # owner[cur] /\ owner[f] \in Conns
        BY <2>2, <2>3, OpenConn DEF SpinInv, OwnerInv
      <3> QED
        BY <2>1, <3>1 DEF Readable, Avail, Eof
    <2>4. OpenFds' = OpenFds
      BY <2>1 DEF OpenFds
    <2> QED
      BY <1>0, <2>1, <2>3, <2>4 DEF Batched
  <1>8. CASE EpollReadStops /\ SpinEagain
    <2>1. pc = "read" /\ ~Readable(owner[cur]) /\ UNCHANGED epollVars
      <3>1. ReadWouldBlock(owner[cur]) \/ EpollDisconnect
        BY <1>8 DEF EpollReadStops
      <3>2. ~EpollDisconnect
        <4>1. owner' = owner
          BY <1>8 DEF SpinEagain, sockVars
        <4>2. pc = "read" /\ cur \in OpenFds
          BY <1>8 DEF EpollReadStops, ReadStopped, SpinInv, Serving
        <4>3. SpinClose => OpenFds' # OpenFds
          BY <4>2, CloseShuts DEF Serving
        <4> QED
          BY <4>1, <4>3 DEF EpollDisconnect, OpenFds
      <3> QED
        BY <1>8, <3>1, <3>2 DEF EpollReadStops, ReadStopped, ReadWouldBlock
    <2>2. UNCHANGED <<owner, sent, taken, cl, rst, batch, rdl>>
      BY <1>8, <2>1 DEF SpinEagain, sockVars, epollVars
    <2>3. OpenFds' = OpenFds /\ \A f : Readable(owner[f])' <=> Readable(owner[f])
      BY <2>2 DEF OpenFds, Readable, Avail, Eof
    <2> QED
      BY <1>0, <2>1, <2>2, <2>3 DEF Batched
  <1>9. CASE pc \in Serving /\ EpollDisconnect
    <2>1. SpinClose /\ batch' = batch /\ rdl' = rdl \ {cur}
      BY <1>9 DEF EpollDisconnect
    <2>2. UNCHANGED <<sent, taken, cl, rst>> /\ OpenFds' = OpenFds \ {cur}
          /\ \A g \in OpenFds' : owner'[g] = owner[g]
      BY <1>9, <2>1, CloseShuts
    <2>3. \A g \in OpenFds' : Readable(owner[g])' <=> Readable(owner[g])
      BY <2>2 DEF Readable, Avail, Eof
    <2> QED
      BY <1>0, <2>1, <2>2, <2>3 DEF Batched
  <1>10. CASE EpollNetwork
    <2>1. UNCHANGED <<pc, cur, batch>> /\ EpollWake
      BY <1>10 DEF EpollNetwork, EpollWake, SpinNetwork, spinVars
    <2>2. PICK c \in Conns : \/ Connect(c) \/ ClientSend(c) \/ ClientRecv(c)
                             \/ ClientShut(c) \/ ClientClose(c) \/ ResetArrives(c)
      BY <1>10 DEF EpollNetwork, SpinNetwork
    <2>3. OpenFds' = OpenFds
      BY <2>2, ClientStreams DEF SpinInv, OpenFds
    <2>4. \A f \in OpenFds : Readable(owner[f])' => Readable(owner[f]) \/ f \in rdl'
      BY <2>1, <2>2, WokenEdges
    <2>5. rdl \subseteq rdl'
      BY <2>1, <2>2, WokenEdges
    <2> QED
      BY <1>0, <2>1, <2>3, <2>4, <2>5 DEF Batched
  <1>11. CASE EpollReadStops \/ EpollWriteStops \/ EpollHangUp
    <2>1. pc \in Serving /\ (EpollDisconnect \/ (EpollReadStops /\ SpinEagain))
      BY <1>11 DEF EpollReadStops, EpollWriteStops, EpollHangUp, ReadStopped, WriteBroken, Serving
    <2> QED
      BY <1>8, <1>9, <2>1
  <1> QED
    BY <1>1, <1>2, <1>3, <1>4, <1>5, <1>6, <1>7, <1>10, <1>11 DEF EpollNext, EpollServer

\* Leaving the accept loop with EMFILE would use up the listener's edge.
LEMMA ListenerKeeps ==
    ASSUME SpinInv, BatchInv, ListenerInv, EpollNext, program' = program,
           pc = "accept" => ~AcceptNoFd
    PROVE  ListenerInv'
  <1> SUFFICES ASSUME edge, backlog' # <<>>
               PROVE  listen_fd \in rdl' \/ Batched(listen_fd)' \/ pc' = "accept"
    BY DEF ListenerInv, edge
  <1>0. backlog # <<>> => listen_fd \in rdl \/ Batched(listen_fd) \/ pc = "accept"
    BY DEF ListenerInv
  <1>1. CASE EpollBoot \/ EpollKill
    <2>1. backlog' = <<>>
      BY <1>1 DEF EpollBoot, EpollKill, SpinBoot, SpinExit, ProcessExit, SpinInv
    <2> QED
      BY <2>1
  <1>2. CASE EpollWait
    <2>1. /\ pc = "loop" /\ backlog' = backlog
          /\ \E S \in SUBSET rdl : /\ batch' = {EpollEvent(f) : f \in S \cap EpollReady}
                                   /\ rdl' = rdl \ S
      BY <1>2 DEF EpollWait, sockVars
    <2>2. PICK S \in SUBSET rdl : /\ batch' = {EpollEvent(f) : f \in S \cap EpollReady}
                                  /\ rdl' = rdl \ S
      BY <2>1
    <2>3. listen_fd \in rdl /\ listen_fd \in EpollReady
      BY <1>0, <2>1 DEF BatchInv, Batched, EpollReady
    <2>4. EpollEvent(listen_fd).fd = listen_fd
      BY DEF EpollEvent
    <2> HIDE DEF EpollEvent
    <2> QED
      BY <2>2, <2>3, <2>4 DEF Batched
  <1>3. CASE EpollDispatch
    <2>1. PICK e \in batch :
             /\ batch' = batch \ {e}
             /\ pc' = IF e.fd = listen_fd THEN "accept" ELSE "read"
      BY <1>3 DEF EpollDispatch
    <2>2. UNCHANGED <<backlog, rdl>> /\ pc = "next"
      BY <1>3 DEF EpollDispatch, sockVars
    <2> QED
      BY <1>0, <2>1, <2>2 DEF Batched
  <1>4. CASE EpollEndBatch
    <2>1. UNCHANGED <<backlog, batch, rdl>> /\ pc = "next"
      BY <1>4 DEF EpollEndBatch, sockVars, epollVars
    <2> QED
      BY <1>0, <2>1 DEF Batched
  <1>5. CASE EpollAcceptStops
    <2>1. backlog' = <<>>
      BY <1>5 DEF EpollAcceptStops, SpinAcceptStops, AcceptWouldBlock, sockVars
    <2> QED
      BY <2>1
  <1>6. CASE EpollAccept \/ EpollAcceptUnwatched
    <2>1. pc' = "accept"
      BY <1>6 DEF EpollAccept, EpollAcceptUnwatched, SpinAccept, SpinRefuse, spinVars
    <2> QED
      BY <2>1
  <1>7. CASE \/ EpollRead \/ EpollWriteSome \/ EpollWriteDone
             \/ EpollReadStops \/ EpollWriteStops \/ EpollHangUp
    <2>1. backlog' = backlog /\ batch' = batch /\ pc \in Serving
      BY <1>7 DEF EpollRead, EpollWriteSome, EpollWriteDone, EpollReadStops, EpollWriteStops,
         EpollHangUp, EpollDisconnect, ReadStopped, WriteBroken, SpinRead, SpinWrite, SpinEagain,
         SpinClose, sockVars, epollVars, Serving
    <2>2. listen_fd \in rdl => listen_fd \in rdl'
      <3>1. cur # listen_fd
        BY <2>1, OpenConn DEF SpinInv
      <3>2. rdl' = rdl \/ rdl' = rdl \ {cur}
        BY <1>7 DEF EpollRead, EpollWriteSome, EpollWriteDone, EpollReadStops, EpollWriteStops,
           EpollHangUp, EpollDisconnect, epollVars
      <3> QED
        BY <3>1, <3>2
    <2> QED
      BY <1>0, <2>1, <2>2 DEF Batched, Serving
  <1>8. CASE EpollNetwork
    <2>1. UNCHANGED <<pc, batch>> /\ EpollWake
      BY <1>8 DEF EpollNetwork, EpollWake, SpinNetwork, spinVars
    <2>2. PICK c \in Conns : \/ Connect(c) \/ ClientSend(c) \/ ClientRecv(c)
                             \/ ClientShut(c) \/ ClientClose(c) \/ ResetArrives(c)
      BY <1>8 DEF EpollNetwork, SpinNetwork
    <2>3. (backlog' # backlog => listen_fd \in rdl') /\ rdl \subseteq rdl'
      BY <2>1, <2>2, WokenEdges
    <2> QED
      BY <1>0, <2>1, <2>3 DEF Batched
  <1> QED
    BY <1>1, <1>2, <1>3, <1>4, <1>5, <1>6, <1>7, <1>8 DEF EpollNext, EpollServer

\* Asleep, the batch is empty and nothing is in hand: what is ready is listed.
LEMMA AsleepEdges ==
    ASSUME BatchInv, EdgeInv, ListenerInv
    PROVE  NoLostEdge
  BY DEF BatchInv, EdgeInv, ListenerInv, NoLostEdge, Batched, EpollReady, Serving

-----------------------------------------------------------------------------
(* server_poll: compaction.                                                *)

\* The entries kept are some of the table's.
LEMMA KeptFinite ==
    ASSUME NEW S, NEW s \in Seq(S)
    PROVE  /\ Kept(s) \subseteq 1..Len(s) /\ IsFiniteSet(Kept(s))
           /\ Cardinality(Kept(s)) \in Nat
           /\ \A k : IsFiniteSet({m \in Kept(s) : m <= k})
  <1>1. DOMAIN s = 1..Len(s) /\ Len(s) \in Nat
    OBVIOUS
  <1>2. Kept(s) \subseteq 1..Len(s)
    BY <1>1 DEF Kept
  <1>3. IsFiniteSet(1..Len(s))
    BY <1>1, FS_Interval
  <1>4. IsFiniteSet(Kept(s))
    BY <1>2, <1>3, FS_Subset
  <1> QED
    BY <1>2, <1>4, FS_Subset, FS_CardinalityType

\* Places are numbered from 1, in the order of the entries.
LEMMA PlaceOrder ==
    ASSUME NEW S, NEW s \in Seq(S), NEW k \in Kept(s)
    PROVE  /\ Place(s, k) \in 1..Cardinality(Kept(s))
           /\ \A m \in Kept(s) : k < m => Place(s, k) < Place(s, m)
  <1> DEFINE Upto(m) == {x \in Kept(s) : x <= m}
  <1>1. /\ IsFiniteSet(Kept(s)) /\ Cardinality(Kept(s)) \in Nat
        /\ \A m \in Kept(s) : IsFiniteSet(Upto(m)) /\ m \in Upto(m) /\ m \in Nat
    BY KeptFinite
  <1>2. \A m \in Kept(s) : Place(s, m) = Cardinality(Upto(m))
    BY DEF Place
  <1>3. Place(s, k) \in 1..Cardinality(Kept(s))
    <2>1. Upto(k) \subseteq Kept(s) /\ Upto(k) # {}
      BY <1>1
    <2> HIDE DEF Upto
    <2>2. Cardinality(Upto(k)) <= Cardinality(Kept(s))
      BY <1>1, <2>1, FS_Subset
    <2>3. Cardinality(Upto(k)) \in Nat /\ Cardinality(Upto(k)) # 0
      BY <1>1, <2>1, FS_CardinalityType, FS_EmptySet
    <2> QED
      BY <1>1, <1>2, <2>2, <2>3
  <1>4. ASSUME NEW m \in Kept(s), k < m
        PROVE  Place(s, k) < Place(s, m)
    <2>1. Upto(k) \subseteq Upto(m) /\ m \in Upto(m) /\ m \notin Upto(k)
      <3>1. k \in Nat /\ m \in Nat /\ \A x \in Kept(s) : x \in Nat
        BY <1>1
      <3>2. \A x \in Kept(s) : x <= k => x <= m
        BY <1>4, <3>1
      <3>3. m <= m /\ ~(m <= k)
        BY <1>4, <3>1
      <3> QED
        BY <3>2, <3>3, Zenon
    <2> HIDE DEF Upto
    <2>2. Cardinality(Upto(k)) <= Cardinality(Upto(m))
          /\ Cardinality(Upto(k)) # Cardinality(Upto(m))
      BY <1>1, <2>1, FS_Subset
    <2>3. Cardinality(Upto(k)) \in Nat /\ Cardinality(Upto(m)) \in Nat
      BY <1>1, FS_CardinalityType
    <2> QED
      BY <1>2, <2>2, <2>3
  <1> QED
    BY <1>3, <1>4

\* Different entries have different places, and no place is left out.
LEMMA PlaceOnto ==
    ASSUME NEW S, NEW s \in Seq(S)
    PROVE  /\ \A k, m \in Kept(s) : Place(s, k) = Place(s, m) => k = m
           /\ \A j \in 1..Cardinality(Kept(s)) : \E k \in Kept(s) : Place(s, k) = j
  <1> DEFINE n == Cardinality(Kept(s))
             at == [k \in Kept(s) |-> Place(s, k)]
  <1>1. /\ IsFiniteSet(Kept(s)) /\ n \in Nat /\ \A k \in Kept(s) : k \in Nat
        /\ \A k \in Kept(s) : Place(s, k) \in 1..n
        /\ \A k, m \in Kept(s) : k < m => Place(s, k) < Place(s, m)
    BY KeptFinite, PlaceOrder
  <1>2. \A k, m \in Kept(s) : Place(s, k) = Place(s, m) => k = m
    <2> SUFFICES ASSUME NEW k \in Kept(s), NEW m \in Kept(s), Place(s, k) = Place(s, m), k # m
                 PROVE  FALSE
      OBVIOUS
    <2>1. k < m \/ m < k
      BY <1>1
    <2>2. Place(s, k) < Place(s, m) \/ Place(s, m) < Place(s, k)
      BY <1>1, <2>1
    <2> QED
      BY <1>1, <2>2
  <1>3. at \in Injection(Kept(s), 1..n)
    <2>1. at \in [Kept(s) -> 1..n]
      BY <1>1
    <2>2. \A k, m \in Kept(s) : at[k] = at[m] => k = m
      BY <1>2
    <2> HIDE DEF at, n
    <2> QED
      BY <2>1, <2>2, Fun_IsInj
  <1>4. IsFiniteSet(1..n) /\ Cardinality(1..n) = n
    BY <1>1, FS_Interval
  <1>5. at \in Surjection(Kept(s), 1..n)
    <2> HIDE DEF at
    <2> QED
      BY <1>3, <1>4, FS_Injection
  <1>6. \A j \in 1..n : \E k \in Kept(s) : at[k] = j
    <2> HIDE DEF at, n
    <2> QED
      BY <1>5, Zenon DEF Surjection
  <1> QED
    BY <1>2, <1>6

\* s has an entry for each descriptor of T, one only, and no others but those
\* that are marked as closed.
Lists(s, T) ==
    /\ \A k \in 2..Len(s) : s[k].fd \in T \cup {ClosedEntry}
    /\ \A k, m \in 2..Len(s) : s[k].fd = s[m].fd /\ s[k].fd # ClosedEntry => k = m
    /\ \A f \in T : \E k \in 2..Len(s) : s[k].fd = f

PollFd == [fd : Int, revents : BOOLEAN]

\* Compaction takes out the closed entries, and nothing else.
LEMMA CompactLists ==
    ASSUME NEW T, ClosedEntry \notin T, NEW s \in Seq(PollFd), Lists(s, T),
           Len(s) >= 1, s[1].fd # ClosedEntry
    PROVE  /\ Compact(s) \in Seq(PollFd) /\ Len(Compact(s)) >= 1
           /\ Compact(s)[1] = s[1] /\ Lists(Compact(s), T)
           /\ \A k \in 1..Len(Compact(s)) : Compact(s)[k].fd # ClosedEntry
  <1> DEFINE n == Cardinality(Kept(s))
             at(j) == CHOOSE k \in Kept(s) : Place(s, k) = j
             t == Compact(s)
  <1>1. /\ n \in Nat /\ Len(s) \in Nat
        /\ \A k : k \in Kept(s) <=> k \in 1..Len(s) /\ s[k].fd # ClosedEntry
    <2>1. DOMAIN s = 1..Len(s)
      OBVIOUS
    <2>2. Len(s) \in Nat
      OBVIOUS
    <2>3. n \in Nat
      BY KeptFinite, Zenon
    <2> QED
      BY <2>1, <2>2, <2>3 DEF Kept
  <1>2. \A k \in Kept(s) : Place(s, k) \in 1..n /\ at(Place(s, k)) = k
    <2>1. \A k \in Kept(s) : Place(s, k) \in 1..n
      BY PlaceOrder
    <2>2. \A k, m \in Kept(s) : Place(s, k) = Place(s, m) => k = m
      BY PlaceOnto
    <2> QED
      BY <2>1, <2>2
  <1>3. \A j \in 1..n : at(j) \in Kept(s) /\ Place(s, at(j)) = j
    <2>1. \A j \in 1..n : \E k \in Kept(s) : Place(s, k) = j
      BY PlaceOnto
    <2> QED
      BY <2>1
  <1>4. t = [j \in 1..n |-> s[at(j)]]
    BY DEF Compact
  <1>5. 1 \in Kept(s) /\ Place(s, 1) = 1
    <2>1. 1 \in Kept(s)
      BY <1>1
    <2>2. \A m \in Kept(s) : m <= 1 <=> m = 1
      BY <1>1
    <2>3. {m \in Kept(s) : m <= 1} = {1}
      BY <2>1, <2>2
    <2> QED
      BY <2>1, <2>3, FS_Singleton DEF Place
  <1> HIDE DEF at
  <1>6. /\ at(1) = 1 /\ 1 \in 1..n
        /\ \A j \in 2..n : at(j) \in 2..Len(s) /\ at(j) \in Kept(s)
    <2>1. at(1) = 1 /\ 1 \in 1..n
      BY <1>2, <1>5
    <2>2. ASSUME NEW j \in 2..n
          PROVE  at(j) \in 2..Len(s) /\ at(j) \in Kept(s)
      <3>1. j \in 1..n /\ j # 1
        OBVIOUS
      <3>2. at(j) \in Kept(s) /\ at(j) # 1
        BY <1>3, <1>5, <3>1
      <3> QED
        BY <1>1, <3>2
    <2> QED
      BY <2>1, <2>2
  <1>7. \A k \in Kept(s) : k # 1 => Place(s, k) \in 2..n
    <2> SUFFICES ASSUME NEW k \in Kept(s), k # 1
                 PROVE  Place(s, k) \in 2..n
      OBVIOUS
    <2>1. Place(s, k) # 1 /\ Place(s, k) \in 1..n
      BY <1>2, <1>6
    <2> QED
      BY <1>1, <2>1
  <1>8. /\ t \in Seq(PollFd) /\ Len(t) = n
        /\ \A j \in 1..n : t[j] = s[at(j)] /\ at(j) \in Kept(s)
    <2>1. \A j \in 1..n : s[at(j)] \in PollFd
      BY <1>1, <1>3
    <2> QED
      <3> HIDE DEF t, n
      <3>1. t \in [1..n -> PollFd]
        BY <1>4, <2>1
      <3>2. t \in Seq(PollFd) /\ Len(t) = n
        BY <1>1, <3>1
      <3> QED
        BY <1>3, <1>4, <3>2
  <1> HIDE DEF t, n
  <1>9. \A k \in 1..Len(t) : t[k].fd # ClosedEntry
    BY <1>1, <1>8
  <1>10. Len(t) >= 1 /\ t[1] = s[1]
    BY <1>6, <1>8
  <1>11. \A j \in 2..n : j \in 1..n
    BY <1>1
  <1>12. \A j \in 2..n : t[j].fd \in T \cup {ClosedEntry}
    BY <1>6, <1>8, <1>11 DEF Lists
  <1>13. ASSUME NEW k \in 2..n, NEW m \in 2..n, t[k].fd = t[m].fd
         PROVE  k = m
    <2>1. s[at(k)].fd = s[at(m)].fd /\ s[at(k)].fd # ClosedEntry
      BY <1>1, <1>8, <1>11, <1>13
    <2>2. at(k) = at(m)
      BY <1>6, <2>1 DEF Lists
    <2> QED
      BY <1>3, <1>11, <2>2
  <1>14. ASSUME NEW f \in T
         PROVE  \E j \in 2..n : t[j].fd = f
    <2>1. PICK k \in 2..Len(s) : s[k].fd = f
      BY DEF Lists
    <2>2. k \in Kept(s) /\ k # 1
      BY <1>1, <2>1
    <2>3. Place(s, k) \in 2..n /\ at(Place(s, k)) = k
      BY <1>2, <1>7, <2>2
    <2> QED
      BY <1>8, <1>11, <2>1, <2>3
  <1>15. Lists(t, T)
    BY <1>8, <1>12, <1>13, <1>14 DEF Lists
  <1> QED
    BY <1>8, <1>9, <1>10, <1>15 DEF t

-----------------------------------------------------------------------------
(* server_poll: the table and the scan.                                    *)

\* The table lists the listener and the open descriptors.
TableInv ==
    /\ fds \in Seq(PollFd) /\ Len(fds) >= 1 /\ fds[1].fd = listen_fd
    /\ pc # "exit" => Lists(fds, OpenFds)

\* Only entries that were scanned may be closed, and then compaction is due;
\* the descriptor in hand is that of the entry last scanned.
ScanInv ==
    /\ i \in Nat /\ current_nfds \in Nat /\ compress_array \in BOOLEAN
    /\ i <= current_nfds /\ current_nfds <= Len(fds)
    /\ \A k \in (i + 1)..Len(fds) : fds[k].fd # ClosedEntry
    /\ ~compress_array => \A k \in 1..Len(fds) : fds[k].fd # ClosedEntry
    /\ pc \in {"boot", "loop"} => i = 0
    /\ pc \in {"read", "write"} => i \in 2..Len(fds) /\ fds[i].fd = cur
    /\ pc # "hup"

\* No descriptor is negative.
LEMMA NotClosedEntry ==
    /\ \A f \in Fds : f \in Nat /\ f # ClosedEntry /\ f # listen_fd
    /\ ClosedEntry \notin OpenFds /\ listen_fd # ClosedEntry /\ listen_fd \in Nat
  BY SocketsAssumption, SpinEchoAssumption DEF ClosedEntry, OpenFds

\* At first the table has the listener only.
LEMMA PollStarts ==
    ASSUME PollInit
    PROVE  TableInv /\ ScanInv
  <1> DEFINE e == Entry(listen_fd, FALSE)
  <1>1. fds = <<e>> /\ OpenFds = {} /\ pc = "boot"
        /\ i = 0 /\ current_nfds = 0 /\ compress_array = FALSE
    BY SocketsStart DEF PollInit, SpinInit
  <1>2. e \in PollFd /\ e.fd = listen_fd
    BY NotClosedEntry DEF Entry, PollFd
  <1> HIDE DEF e
  <1>3. /\ fds \in Seq(PollFd) /\ Len(fds) = 1 /\ fds[1].fd = listen_fd
        /\ 2..Len(fds) = {} /\ 1..Len(fds) = {1} /\ (0 + 1)..Len(fds) = {1}
    BY <1>1, <1>2
  <1>4. TableInv
    BY <1>1, <1>3 DEF TableInv, Lists
  <1>5. ScanInv
    <2>1. fds[1].fd # ClosedEntry
      BY <1>3, NotClosedEntry
    <2>2. /\ \A k \in (i + 1)..Len(fds) : k = 1
          /\ \A k \in 1..Len(fds) : k = 1
          /\ i <= current_nfds /\ current_nfds <= Len(fds)
      BY <1>1, <1>3
    <2>3. i \in Nat /\ current_nfds \in Nat /\ compress_array \in BOOLEAN
      BY <1>1
    <2> QED
      BY <1>1, <2>1, <2>2, <2>3, Zenon DEF ScanInv
  <1> QED
    BY <1>4, <1>5

\* The entry to be scanned next is the listener's or that of an open client.
LEMMA NextEntry ==
    ASSUME TableInv, ScanInv, pc # "exit", i < current_nfds
    PROVE  /\ i + 1 \in 1..Len(fds) /\ fds[i + 1] \in PollFd
           /\ IF i = 0 THEN fds[i + 1].fd = listen_fd
              ELSE fds[i + 1].fd \in OpenFds /\ i + 1 \in 2..Len(fds)
  <1>1. i + 1 \in 1..Len(fds) /\ i + 1 \in (i + 1)..Len(fds) /\ Len(fds) \in Nat
    BY DEF TableInv, ScanInv
  <1>2. fds[i + 1] \in PollFd
    BY <1>1 DEF TableInv
  <1>3. i # 0 => i + 1 \in 2..Len(fds)
    BY <1>1 DEF ScanInv
  <1>4. fds[i + 1].fd # ClosedEntry
    BY <1>1 DEF ScanInv
  <1>5. i # 0 => fds[i + 1].fd \in OpenFds
    BY <1>3, <1>4 DEF TableInv, Lists
  <1>6. i = 0 => fds[i + 1].fd = listen_fd
    BY DEF TableInv
  <1> QED
    BY <1>1, <1>2, <1>3, <1>5, <1>6

\* The table names open descriptors, so the server makes no other moves.
LEMMA PollMoves ==
    ASSUME SpinInv, TableInv, ScanInv, PollNext
    PROVE  Moves
  <1>1. CASE Poll \/ PollEndScan \/ PollAcceptStops \/ PollWriteDone
    BY <1>1 DEF Poll, PollEndScan, PollAcceptStops, PollWriteDone, SpinAcceptStops, SpinDone,
       Moves, Quiet, Serving
  <1>2. CASE PollScan
    <2>1. /\ pc = "next" /\ UNCHANGED <<sockVars, buf>> /\ i < current_nfds
          /\ IF ~fds[i + 1].revents THEN UNCHANGED <<pc, cur>>
             ELSE /\ cur' = fds[i + 1].fd
                  /\ pc' = IF fds[i + 1].fd = listen_fd THEN "accept" ELSE "read"
      BY <1>2 DEF PollScan
    <2>2. fds[i + 1].fd \in OpenFds \cup {listen_fd}
      BY <2>1, NextEntry
    <2> QED
      BY <2>1, <2>2 DEF Moves, Quiet, Serving
  <1>3. CASE PollAcceptNoMemory \/ PollAcceptOverrun
    <2>1. (\E f \in Fds : SpinRefuse(f)) /\ pc' \in {"next", "overrun"}
      BY <1>3 DEF PollAcceptNoMemory, PollAcceptOverrun
    <2> QED
      BY <2>1 DEF Moves, Refusal, Serving
  <1>4. CASE PollReadStops
    <2>1. CASE SpinEagain
      BY <1>4, <2>1 DEF PollReadStops, ReadStopped, SpinEagain, Moves, Quiet, Serving
    <2>2. CASE PollClose /\ ~ReadWouldBlock(owner[cur])
      BY <1>4, <2>2 DEF PollReadStops, PollClose, ReadStopped, ReadWouldBlock,
         Readable, Moves, HangUp, Serving
    <2> QED
      BY <1>4, <2>1, <2>2 DEF PollReadStops
  <1>5. CASE PollWriteStops
    BY <1>5 DEF PollWriteStops, WriteBroken, WriteFails, PollClose, Moves, HangUp, Serving
  <1>6. CASE PollBoot \/ PollAccept \/ PollKill \/ PollNetwork \/ PollRead \/ PollWriteSome
    BY <1>6 DEF PollBoot, PollAccept, PollKill, PollNetwork, PollRead, PollWriteSome,
       Leave, Moves
  <1> QED
    BY <1>1, <1>2, <1>3, <1>4, <1>5, <1>6 DEF PollNext, PollServer

\* accept() appends the entry of the new client.
LEMMA AppendKeepsTable ==
    ASSUME SpinInv, TableInv, ScanInv, PollAccept
    PROVE  TableInv' /\ ScanInv'
  <1>1. PICK f \in Fds : SpinAccept(f) /\ fds' = Append(fds, Entry(f, FALSE))
    BY DEF PollAccept
  <1>2. /\ OpenFds' = OpenFds \cup {f} /\ f \notin OpenFds
        /\ pc = "accept" /\ pc' = "accept" /\ f # ClosedEntry /\ f \in Nat
    BY <1>1, AcceptOpens, NotClosedEntry
  <1>3. UNCHANGED <<i, current_nfds, compress_array>>
    BY DEF PollAccept, scanVars
  <1> DEFINE n == Len(fds)
             e == Entry(f, FALSE)
  <1>4. e \in PollFd /\ e.fd = f
    BY <1>2 DEF Entry, PollFd
  <1>5. /\ n \in Nat /\ n >= 1 /\ fds' \in Seq(PollFd) /\ Len(fds') = n + 1
        /\ \A k \in 1..n : fds'[k] = fds[k]
        /\ fds'[n + 1].fd = f
    <2>1. fds' = Append(fds, e)
      BY <1>1
    <2> HIDE DEF e
    <2> QED
      BY <1>4, <2>1 DEF TableInv
  <1>6. \A k \in 2..Len(fds') : (k \in 2..n /\ fds'[k] = fds[k]) \/ (k = n + 1 /\ fds'[k].fd = f)
    BY <1>5
  <1>7. \A k \in 2..n : k \in 2..Len(fds') /\ fds'[k] = fds[k]
    BY <1>5
  <1>8. n + 1 \in 2..Len(fds')
    BY <1>5
  <1>9. Lists(fds, OpenFds)
    BY <1>2 DEF TableInv
  <1>10. \A k \in 2..n : fds[k].fd # f
    BY <1>2, <1>9 DEF Lists
  <1>11. Lists(fds', OpenFds')
    <2>1. \A k \in 2..Len(fds') : fds'[k].fd \in OpenFds' \cup {ClosedEntry}
      BY <1>2, <1>6, <1>9 DEF Lists
    <2>2. ASSUME NEW k \in 2..Len(fds'), NEW m \in 2..Len(fds'),
                 fds'[k].fd = fds'[m].fd, fds'[k].fd # ClosedEntry
          PROVE  k = m
      BY <1>6, <1>9, <1>10, <2>2 DEF Lists
    <2>3. \A g \in OpenFds' : \E k \in 2..Len(fds') : fds'[k].fd = g
      BY <1>2, <1>5, <1>7, <1>8, <1>9 DEF Lists
    <2> QED
      BY <2>1, <2>2, <2>3 DEF Lists
  <1>12. TableInv'
    BY <1>5, <1>11 DEF TableInv
  <1>13. ScanInv'
    <2>1. \A k \in (i' + 1)..Len(fds') :
             (k \in (i + 1)..n /\ fds'[k] = fds[k]) \/ fds'[k].fd = f
      BY <1>3, <1>5 DEF ScanInv
    <2>2. \A k \in 1..Len(fds') : (k \in 1..n /\ fds'[k] = fds[k]) \/ fds'[k].fd = f
      BY <1>5
    <2>3. i' <= current_nfds' /\ current_nfds' <= Len(fds')
      BY <1>3, <1>5 DEF ScanInv
    <2> QED
      BY <1>2, <1>3, <2>1, <2>2, <2>3 DEF ScanInv
  <1> QED
    BY <1>12, <1>13

\* close() marks the entry in hand.
LEMMA CloseKeepsTable ==
    ASSUME SpinInv, TableInv, ScanInv, pc \in {"read", "write"}, PollClose,
           UNCHANGED <<i, current_nfds>>
    PROVE  TableInv' /\ ScanInv'
  <1>1. /\ fds' = [fds EXCEPT ![i].fd = ClosedEntry] /\ compress_array' = TRUE
        /\ pc' = "next" /\ OpenFds' = OpenFds \ {cur} /\ SpinClose
    BY CloseShuts DEF PollClose, Serving
  <1>2. i \in 2..Len(fds) /\ fds[i].fd = cur /\ cur \in OpenFds /\ Len(fds) \in Nat
    BY DEF ScanInv, SpinInv, Serving, TableInv
  <1>3. /\ fds' \in Seq(PollFd) /\ Len(fds') = Len(fds)
        /\ \A k \in 1..Len(fds) : k # i => fds'[k] = fds[k]
        /\ fds'[i].fd = ClosedEntry
    <2>1. fds[i] \in PollFd /\ fds \in Seq(PollFd)
      BY <1>2 DEF TableInv
    <2>2. [fds[i] EXCEPT !.fd = ClosedEntry] \in PollFd
          /\ [fds[i] EXCEPT !.fd = ClosedEntry].fd = ClosedEntry
      BY <2>1 DEF PollFd, ClosedEntry
    <2> QED
      BY <1>1, <1>2, <2>1, <2>2
  <1>4. Lists(fds, OpenFds) /\ ClosedEntry \notin OpenFds
    BY NotClosedEntry DEF TableInv
  <1>5. \A k \in 2..Len(fds) : k \in 1..Len(fds)
    OBVIOUS
  <1>6. Lists(fds', OpenFds')
    <2>1. \A k \in 2..Len(fds') : fds'[k].fd \in OpenFds' \cup {ClosedEntry}
      <3> TAKE k \in 2..Len(fds')
      <3>1. CASE k = i
        BY <1>3, <3>1
      <3>2. CASE k # i
        <4>1. fds'[k] = fds[k] /\ k \in 2..Len(fds)
          BY <1>3, <1>5, <3>2
        <4>2. fds[k].fd # cur \/ fds[k].fd = ClosedEntry
          BY <1>2, <1>4, <3>2, <4>1 DEF Lists
        <4> QED
          BY <1>1, <1>4, <4>1, <4>2 DEF Lists
      <3> QED
        BY <3>1, <3>2
    <2>2. ASSUME NEW k \in 2..Len(fds'), NEW m \in 2..Len(fds'),
                 fds'[k].fd = fds'[m].fd, fds'[k].fd # ClosedEntry
          PROVE  k = m
      <3>1. k # i /\ m # i
        BY <1>3, <2>2
      <3>2. k \in 2..Len(fds) /\ m \in 2..Len(fds) /\ fds'[k] = fds[k] /\ fds'[m] = fds[m]
        BY <1>3, <1>5, <3>1
      <3> QED
        BY <1>4, <2>2, <3>2 DEF Lists
    <2>3. ASSUME NEW g \in OpenFds'
          PROVE  \E k \in 2..Len(fds') : fds'[k].fd = g
      <3>1. g \in OpenFds /\ g # cur
        BY <1>1
      <3>2. PICK k \in 2..Len(fds) : fds[k].fd = g
        BY <1>4, <3>1 DEF Lists
      <3>3. fds'[k] = fds[k]
        BY <1>2, <1>3, <1>5, <3>1, <3>2
      <3> QED
        BY <1>3, <3>2, <3>3
    <2> QED
      BY <2>1, <2>2, <2>3 DEF Lists
  <1>7. TableInv'
    <2>1. fds'[1] = fds[1]
      BY <1>2, <1>3
    <2> QED
      BY <1>3, <1>6, <2>1 DEF TableInv
  <1>8. ScanInv'
    <2>1. \A k \in (i + 1)..Len(fds) : k \in 1..Len(fds) /\ k # i
      BY <1>2
    <2> QED
      BY <1>1, <1>3, <2>1 DEF ScanInv
  <1> QED
    BY <1>7, <1>8

\* Each step of the server keeps the table and the scan.
LEMMA PollKeeps ==
    ASSUME SpinInv, TableInv, ScanInv, PollNext
    PROVE  TableInv' /\ ScanInv'
  <1>1. CASE PollBoot
    <2>1. /\ UNCHANGED <<fds, i, current_nfds, compress_array, owner>>
          /\ pc = "boot" /\ pc' \in {"loop", "exit"}
      BY <1>1 DEF PollBoot, SpinBoot, pollVars, scanVars
    <2> QED
      BY <2>1 DEF TableInv, ScanInv, OpenFds
  <1>2. CASE PollKill
    <2>1. UNCHANGED <<fds, i, current_nfds, compress_array>> /\ pc' = "exit"
      BY <1>2 DEF PollKill, SpinExit, pollVars, scanVars
    <2> QED
      BY <2>1 DEF TableInv, ScanInv
  <1>3. CASE Poll
    <2>1. /\ pc = "loop" /\ pc' = "next" /\ owner' = owner
          /\ fds' = [k \in DOMAIN fds |-> Entry(fds[k].fd, Revents(fds[k].fd))]
          /\ current_nfds' = Len(fds) /\ compress_array' = FALSE /\ i' = 0
      BY <1>3 DEF Poll, sockVars
    <2>2. /\ fds \in Seq(PollFd) /\ DOMAIN fds = 1..Len(fds) /\ Len(fds) \in Nat
          /\ \A k \in 1..Len(fds) : fds[k].fd # ClosedEntry /\ fds[k].fd \in Int
      <3>1. fds \in Seq(PollFd) /\ i = 0
        BY <2>1 DEF TableInv, ScanInv
      <3>2. DOMAIN fds = 1..Len(fds) /\ Len(fds) \in Nat
        BY <3>1
      <3>3. \A k \in 1..Len(fds) : fds[k] \in PollFd /\ k \in (i + 1)..Len(fds)
        BY <3>1
      <3>4. \A k \in 1..Len(fds) : fds[k].fd \in Int
        BY <3>3 DEF PollFd
      <3>5. \A k \in 1..Len(fds) : fds[k].fd # ClosedEntry
        BY <3>3 DEF ScanInv
      <3> QED
        BY <3>1, <3>2, <3>4, <3>5
    <2>3. ASSUME NEW k \in 1..Len(fds)
          PROVE  fds'[k] \in PollFd /\ fds'[k].fd = fds[k].fd
      <3>1. /\ Entry(fds[k].fd, Revents(fds[k].fd)).fd = fds[k].fd
            /\ Entry(fds[k].fd, Revents(fds[k].fd)).revents = Revents(fds[k].fd)
        BY DEF Entry
      <3>2. Revents(fds[k].fd) \in BOOLEAN
        BY OpenConn, <2>1, <2>2 DEF Revents, Readable
      <3>3. Entry(fds[k].fd, Revents(fds[k].fd)) \in PollFd
        BY <2>2, <3>2 DEF Entry, PollFd
      <3> QED
        BY <2>1, <2>2, <3>1, <3>3
    <2>4. fds' \in Seq(PollFd) /\ Len(fds') = Len(fds)
      <3>1. fds' \in [1..Len(fds) -> PollFd]
        BY <2>1, <2>2, <2>3
      <3> QED
        BY <2>2, <3>1
    <2>5. \A k \in 2..Len(fds) : k \in 1..Len(fds)
      OBVIOUS
    <2>6. Lists(fds', OpenFds')
      <3>1. Lists(fds, OpenFds) /\ OpenFds' = OpenFds
        BY <2>1 DEF TableInv, OpenFds
      <3> QED
        BY <2>3, <2>4, <2>5, <3>1 DEF Lists
    <2>7. TableInv'
      <3>1. 1 \in 1..Len(fds) /\ Len(fds) >= 1 /\ fds[1].fd = listen_fd
        BY <2>2 DEF TableInv
      <3> QED
        BY <2>3, <2>4, <2>6, <3>1 DEF TableInv
    <2>8. ScanInv'
      <3>1. \A k \in (i' + 1)..Len(fds') : k \in 1..Len(fds)
        BY <2>1, <2>4
      <3>2. \A k \in 1..Len(fds') : fds'[k].fd # ClosedEntry
        BY <2>2, <2>3, <2>4
      <3>3. /\ i' \in Nat /\ current_nfds' \in Nat /\ compress_array' \in BOOLEAN
            /\ i' <= current_nfds' /\ current_nfds' <= Len(fds')
        <4>1. Len(fds') = Len(fds) /\ current_nfds' = Len(fds) /\ i' = 0
          BY <2>1, <2>4
        <4>2. compress_array' \in BOOLEAN
          BY <2>1
        <4>3. /\ i' \in Nat /\ current_nfds' \in Nat
              /\ i' <= current_nfds' /\ current_nfds' <= Len(fds')
          BY <2>2, <4>1
        <4> QED
          BY <4>2, <4>3
      <3>4. i' = 0 /\ pc' = "next"
        BY <2>1
      <3>5. \A k \in (i' + 1)..Len(fds') : fds'[k].fd # ClosedEntry
        BY <2>4, <3>1, <3>2
      <3> QED
        BY <3>2, <3>3, <3>4, <3>5, Zenon DEF ScanInv
    <2> QED
      BY <2>7, <2>8
  <1>4. CASE PollScan
    <2>1. /\ pc = "next" /\ UNCHANGED <<owner, fds, current_nfds, compress_array>>
          /\ i < current_nfds /\ i' = i + 1
          /\ IF ~fds[i + 1].revents THEN UNCHANGED <<pc, cur>>
             ELSE /\ cur' = fds[i + 1].fd
                  /\ pc' = IF fds[i + 1].fd = listen_fd THEN "accept" ELSE "read"
      BY <1>4 DEF PollScan, sockVars
    <2>2. TableInv'
      BY <2>1 DEF TableInv, OpenFds
    <2>3. \A k \in (i' + 1)..Len(fds) : k \in (i + 1)..Len(fds)
      BY <2>1 DEF ScanInv
    <2>4. i' <= current_nfds' /\ i' \in Nat
      BY <2>1 DEF ScanInv
    <2>5. pc' \in {"read", "write"} => i' \in 2..Len(fds) /\ fds[i'].fd = cur'
      BY <2>1, NextEntry
    <2>6. pc' \in {"next", "accept", "read"}
      BY <2>1
    <2> QED
      BY <2>1, <2>2, <2>3, <2>4, <2>5, <2>6 DEF ScanInv
  <1>5. CASE PollEndScan
    <2>1. /\ pc = "next" /\ pc' = "loop" /\ owner' = owner
          /\ fds' = IF compress_array THEN Compact(fds) ELSE fds
          /\ i' = 0 /\ current_nfds' = 0 /\ compress_array' = compress_array
      BY <1>5 DEF PollEndScan, sockVars
    <2>2. /\ fds' \in Seq(PollFd) /\ Len(fds') >= 1 /\ fds'[1].fd = listen_fd
          /\ Lists(fds', OpenFds) /\ \A k \in 1..Len(fds') : fds'[k].fd # ClosedEntry
      <3>1. /\ fds \in Seq(PollFd) /\ Len(fds) >= 1 /\ fds[1].fd = listen_fd
            /\ Lists(fds, OpenFds)
        BY <2>1 DEF TableInv
      <3>2. CASE compress_array
        BY <2>1, <3>1, <3>2, CompactLists, NotClosedEntry
      <3>3. CASE ~compress_array
        BY <2>1, <3>1, <3>3 DEF ScanInv
      <3> QED
        BY <3>2, <3>3
    <2>3. TableInv'
      BY <2>1, <2>2 DEF TableInv, OpenFds
    <2>4. /\ \A k \in (i' + 1)..Len(fds') : k \in 1..Len(fds')
          /\ i' \in Nat /\ current_nfds' \in Nat /\ i' <= current_nfds'
          /\ current_nfds' <= Len(fds')
      BY <2>1, <2>2
    <2>5. ScanInv'
      BY <2>1, <2>2, <2>4 DEF ScanInv
    <2> QED
      BY <2>3, <2>5
  <1>6. CASE PollAcceptNoMemory \/ PollAcceptOverrun \/ PollAcceptStops
    <2>1. /\ UNCHANGED <<fds, i, current_nfds, compress_array, owner>>
          /\ pc = "accept" /\ pc' \in {"next", "overrun"}
      BY <1>6 DEF PollAcceptNoMemory, PollAcceptOverrun, PollAcceptStops, SpinRefuse,
         SpinAcceptStops, pollVars, scanVars, sockVars
    <2> QED
      BY <2>1 DEF TableInv, ScanInv, OpenFds
  <1>7. CASE PollRead \/ PollWriteSome \/ PollWriteDone
    <2>1. /\ UNCHANGED <<fds, i, current_nfds, compress_array, owner, cur>>
          /\ pc \in {"read", "write"} /\ pc' \in {"write", "next"}
      BY <1>7 DEF PollRead, PollWriteSome, PollWriteDone, SpinRead, SpinWrite, SpinDone,
         pollVars, scanVars, sockVars
    <2> QED
      BY <2>1 DEF TableInv, ScanInv, OpenFds
  <1>8. CASE PollReadStops /\ SpinEagain /\ UNCHANGED <<fds, compress_array>>
    <2>1. /\ UNCHANGED <<fds, i, current_nfds, compress_array, owner, cur>>
          /\ pc = "read" /\ pc' = "next"
      BY <1>8 DEF PollReadStops, ReadStopped, SpinEagain, sockVars
    <2> QED
      BY <2>1 DEF TableInv, ScanInv, OpenFds
  <1>9. CASE (PollReadStops /\ PollClose) \/ PollWriteStops
    <2>1. pc \in {"read", "write"} /\ PollClose /\ UNCHANGED <<i, current_nfds>>
      BY <1>9 DEF PollReadStops, PollWriteStops, ReadStopped, WriteBroken
    <2> QED
      BY <2>1, CloseKeepsTable
  <1>10. CASE PollNetwork
    <2>1. /\ UNCHANGED <<fds, i, current_nfds, compress_array, pc, cur>>
      BY <1>10 DEF PollNetwork, SpinNetwork, spinVars, pollVars, scanVars
    <2>2. owner' = owner
      BY <1>10 DEF PollNetwork, SpinNetwork, Connect, ClientSend, ClientRecv, ClientShut,
         ClientClose, ResetArrives
    <2> QED
      BY <2>1, <2>2 DEF TableInv, ScanInv, OpenFds
  <1> QED
    BY <1>1, <1>2, <1>3, <1>4, <1>5, <1>6, <1>7, <1>8, <1>9, <1>10, AppendKeepsTable
       DEF PollNext, PollServer, PollReadStops

\* A table without closed entries has one entry more than there are clients.
LEMMA TableCount ==
    ASSUME NEW T, NEW s \in Seq(PollFd), Len(s) >= 1, Lists(s, T),
           \A k \in 1..Len(s) : s[k].fd # ClosedEntry
    PROVE  {s[k].fd : k \in 2..Len(s)} = T /\ Len(s) = Cardinality(T) + 1
  <1> DEFINE n == Len(s) - 1
             at == [k \in 1..n |-> s[k + 1].fd]
  <1>1. n \in Nat /\ \A k \in 1..n : k + 1 \in 2..Len(s) /\ k + 1 \in 1..Len(s)
    OBVIOUS
  <1>2. \A k \in 2..Len(s) : k \in 1..Len(s) /\ k - 1 \in 1..n /\ (k - 1) + 1 = k
    OBVIOUS
  <1>3. \A k \in 2..Len(s) : s[k].fd \in T
    BY <1>2 DEF Lists
  <1>4. {s[k].fd : k \in 2..Len(s)} = T
    BY <1>3 DEF Lists
  <1>5. at \in [1..n -> T]
    BY <1>1, <1>3
  <1>6. \A k, m \in 1..n : at[k] = at[m] => k = m
    <2> SUFFICES ASSUME NEW k \in 1..n, NEW m \in 1..n, at[k] = at[m]
                 PROVE  k = m
      OBVIOUS
    <2>1. k + 1 = m + 1
      BY <1>1 DEF Lists
    <2> QED
      BY <2>1
  <1>7. \A f \in T : \E k \in 1..n : at[k] = f
    <2> SUFFICES ASSUME NEW f \in T
                 PROVE  \E k \in 1..n : at[k] = f
      OBVIOUS
    <2>1. PICK k \in 2..Len(s) : s[k].fd = f
      BY DEF Lists
    <2>2. at[k - 1] = f /\ k - 1 \in 1..n
      BY <1>2, <2>1
    <2> QED
      BY <2>2
  <1>8. at \in Bijection(1..n, T)
    <2> HIDE DEF at, n
    <2> QED
      BY <1>5, <1>6, <1>7, Fun_IsBij
  <1>9. ExistsBijection(1..n, T)
    BY <1>8, Zenon DEF ExistsBijection
  <1>10. IsFiniteSet(1..n) /\ Cardinality(1..n) = n
    BY <1>1, FS_Interval
  <1>11. Cardinality(T) = n
    <2> HIDE DEF n
    <2> QED
      BY <1>9, <1>10, FS_Bijection
  <1> QED
    BY <1>1, <1>4, <1>11

\* When poll() is called, the table is what it should be.
LEMMA PollExact ==
    ASSUME TableInv, ScanInv, pc = "loop"
    PROVE  /\ fds[1].fd = listen_fd
           /\ {fds[k].fd : k \in 2..Len(fds)} = OpenFds
           /\ Len(fds) = Cardinality(OpenFds) + 1
  <1>1. i = 0 /\ \A k \in 1..Len(fds) : k \in (i + 1)..Len(fds)
    BY DEF ScanInv
  <1>2. \A k \in 1..Len(fds) : fds[k].fd # ClosedEntry
    BY <1>1 DEF ScanInv
  <1> QED
    BY <1>2, TableCount DEF TableInv

-----------------------------------------------------------------------------
(* server_blocking: threads, descriptors and streams.                      *)

ThreadTypes ==
    /\ main_pc \in {"boot", "accept", "hand", "leave", "exit"}
    /\ client_fd \in Fds \cup {NoFd}
    /\ cell \in [Conns -> Fds \cup {NoFd}]
    /\ fd \in [Conns -> Fds \cup {NoFd}]
    /\ thread \in [Conns -> {"none", "new", "read", "write", "ended"}]
    /\ bufs \in [Conns -> Seq(Byte)]

Live(t) == thread[t] \in {"new", "read", "write"}
Has(t) == IF thread[t] = "new" THEN cell[t] ELSE fd[t]
Held(f) == main_pc = "hand" /\ client_fd = f

\* Threads and open descriptors correspond one to one, but for the
\* descriptor main() has just accepted; who was never accepted has no thread.
HoldsInv ==
    /\ \A t \in Conns : Live(t) => Has(t) \in Fds /\ owner[Has(t)] = t /\ ~Held(Has(t))
    /\ \A f \in OpenFds : Held(f) \/ (Live(owner[f]) /\ Has(owner[f]) = f)
    /\ main_pc = "hand" => client_fd \in OpenFds /\ thread[owner[client_fd]] = "none"
    /\ \A t \in Conns : phase[t] \in {"none", "queued"} => thread[t] = "none"

\* What thread t has read and not yet written.
Waiting(t) == IF thread[t] = "write" THEN bufs[t] ELSE <<>>

\* The bytes of each connection are one run over the socket and the buffer of
\* its thread.
StreamInv ==
    /\ \A c \in Conns :
          phase[c] # "done" => Run(c, echo[c], Waiting(c), taken[c], sent[c])
    /\ \A t \in Conns : thread[t] = "write" => bufs[t] # <<>>
    /\ GoneInv

BlockInv == SocketsTypeOK /\ OwnerInv /\ ThreadTypes /\ HoldsInv /\ StreamInv

\* At first there is nothing.
LEMMA BlockStarts ==
    ASSUME BlockInit
    PROVE  BlockInv
  <1>1. SocketsTypeOK /\ OwnerInv /\ OpenFds = {}
    BY SocketsStart DEF BlockInit
  <1>2. <<>> \in Seq(Byte)
    OBVIOUS
  <1>3. ThreadTypes
    BY <1>2 DEF BlockInit, ThreadTypes
  <1>4. HoldsInv
    BY <1>1 DEF BlockInit, HoldsInv, Live
  <1>5. \A c \in Conns : Run(c, echo[c], Waiting(c), taken[c], sent[c])
    <2>1. \A c \in Conns : Run(c, <<>>, <<>>, 0, 0)
      BY NewRun
    <2> QED
      BY <2>1 DEF BlockInit, SocketsInit, Waiting
  <1>6. StreamInv
    BY <1>5 DEF StreamInv, GoneInv, BlockInit, SocketsInit
  <1> QED
    BY <1>1, <1>3, <1>4, <1>6 DEF BlockInv

\* A thread that serves has the open descriptor of its own connection.
LEMMA LiveOpen ==
    ASSUME BlockInv, NEW t \in Conns, Live(t)
    PROVE  /\ Has(t) \in Fds /\ Has(t) \in OpenFds /\ owner[Has(t)] = t
           /\ ~Held(Has(t)) /\ phase[t] = "open"
  <1>1. Has(t) \in Fds /\ owner[Has(t)] = t /\ ~Held(Has(t))
    BY DEF BlockInv, HoldsInv
  <1>2. Has(t) \in OpenFds
    BY <1>1, SocketsAssumption DEF OpenFds
  <1>3. phase[owner[Has(t)]] = "open"
    BY <1>2 DEF BlockInv, OwnerInv
  <1> QED
    BY <1>1, <1>2, <1>3

\* The connection main() has in hand.
LEMMA HeldOpen ==
    ASSUME BlockInv, main_pc = "hand"
    PROVE  /\ client_fd \in Fds /\ client_fd \in OpenFds /\ owner[client_fd] \in Conns
           /\ phase[owner[client_fd]] = "open" /\ thread[owner[client_fd]] = "none"
  BY DEF BlockInv, HoldsInv, OwnerInv, OpenFds, SocketsTypeOK

\* Steps after which every thread has the descriptor it had.
LEMMA SameHolds ==
    ASSUME HoldsInv, owner' = owner,
           \A t \in Conns : (Live(t)' <=> Live(t)) /\ Has(t)' = Has(t),
           \A t \in Conns : thread'[t] = "none" <=> thread[t] = "none",
           \A t \in Conns : phase'[t] \in {"none", "queued"} => phase[t] \in {"none", "queued"},
           \A f \in Fds : Held(f)' <=> Held(f),
           main_pc' = "hand" => main_pc = "hand" /\ client_fd' = client_fd,
           SocketsTypeOK
    PROVE  HoldsInv'
  <1>1. OpenFds' = OpenFds /\ \A f \in OpenFds : f \in Fds /\ owner[f] \in Conns
    BY DEF OpenFds, SocketsTypeOK
  <1>2. ASSUME NEW t \in Conns, Live(t)'
        PROVE  (Has(t) \in Fds /\ owner[Has(t)] = t /\ ~Held(Has(t)))'
    <2>1. Has(t) \in Fds /\ owner[Has(t)] = t /\ ~Held(Has(t)) /\ Has(t)' = Has(t)
      BY <1>2 DEF HoldsInv
    <2>2. ~Held(Has(t))'
      BY <2>1 DEF Held
    <2> QED
      BY <2>1, <2>2
  <1>3. ASSUME NEW f \in OpenFds'
        PROVE  (Held(f) \/ (Live(owner[f]) /\ Has(owner[f]) = f))'
    <2>1. f \in Fds /\ f \in OpenFds /\ owner[f] \in Conns /\ owner'[f] = owner[f]
      BY <1>1, <1>3
    <2>2. Held(f) \/ (Live(owner[f]) /\ Has(owner[f]) = f)
      BY <2>1 DEF HoldsInv
    <2>3. CASE Held(f)
      BY <2>1, <2>3
    <2>4. CASE Live(owner[f]) /\ Has(owner[f]) = f
      BY <2>1, <2>4 DEF Live, Has
    <2> QED
      BY <2>2, <2>3, <2>4
  <1>4. (main_pc = "hand" => client_fd \in OpenFds /\ thread[owner[client_fd]] = "none")'
    BY <1>1 DEF HoldsInv
  <1>5. (\A t \in Conns : phase[t] \in {"none", "queued"} => thread[t] = "none")'
    BY DEF HoldsInv
  <1> QED
    BY <1>2, <1>3, <1>4, <1>5 DEF HoldsInv

\* Steps after which every stream is what it was.
LEMMA SameWaiting ==
    ASSUME StreamInv, UNCHANGED <<cl, rst, sent, taken, echo>>,
           \A c \in Conns : phase'[c] # "done" =>
                phase[c] # "done" /\ Waiting(c)' = Waiting(c),
           \A t \in Conns : thread'[t] = "write" => bufs'[t] # <<>>
    PROVE  StreamInv'
  BY DEF StreamInv, GoneInv

\* make_listener(); and accept() fails.
LEMMA MainMoves ==
    ASSUME BlockInv, BlockBoot \/ BlockAcceptFails
    PROVE  BlockInv'
  <1>1. /\ UNCHANGED <<backlog, phase, owner, cl, rst, sent, taken, echo, got>>
        /\ UNCHANGED <<client_fd, cell, thread, fd, bufs>> /\ listening' \in BOOLEAN
        /\ main_pc # "hand" /\ main_pc' \in {"accept", "exit", "leave"}
    BY DEF BlockBoot, BlockAcceptFails, BlockInv, SocketsTypeOK, sockVars, threadVars
  <1>2. SocketsTypeOK' /\ OwnerInv' /\ ThreadTypes'
    BY <1>1 DEF BlockInv, SocketsTypeOK, OwnerInv, OpenFds, ThreadTypes
  <1>3. HoldsInv'
    BY <1>1, SameHolds DEF BlockInv, Live, Has, Held
  <1>4. StreamInv'
    BY <1>1, SameWaiting DEF BlockInv, Waiting, StreamInv
  <1> QED
    BY <1>2, <1>3, <1>4 DEF BlockInv

\* The process ends: nothing is open and no thread is left.
LEMMA ExitKeeps ==
    ASSUME BlockInv, BlockExit
    PROVE  BlockInv'
  <1>1. /\ ProcessExit /\ main_pc' = "exit" /\ UNCHANGED <<client_fd, cell, fd, bufs>>
        /\ thread' = [t \in Conns |-> IF thread[t] = "none" THEN "none" ELSE "ended"]
    BY DEF BlockExit
  <1>2. SocketsTypeOK' /\ OwnerInv' /\ OpenFds' = {}
    BY <1>1, ExitTypes DEF BlockInv
  <1>3. UNCHANGED <<cl, rst, sent, taken, echo>>
        /\ \A c \in Conns : phase'[c] # "done" => phase[c] = "none" /\ phase'[c] = "none"
    BY <1>1 DEF ProcessExit
  <1>4. ThreadTypes'
    BY <1>1 DEF BlockInv, ThreadTypes
  <1>5. \A t \in Conns : ~Live(t)' /\ thread'[t] # "write" /\ Waiting(t)' = <<>>
    BY <1>1 DEF Live, Waiting
  <1>6. \A t \in Conns : phase[t] = "none" => thread[t] = "none" /\ Waiting(t) = <<>>
    BY DEF BlockInv, HoldsInv, Waiting
  <1>7. HoldsInv'
    BY <1>1, <1>2, <1>3, <1>5, <1>6 DEF HoldsInv
  <1>8. StreamInv'
    BY <1>3, <1>5, <1>6, SameWaiting DEF BlockInv
  <1> QED
    BY <1>2, <1>4, <1>7, <1>8 DEF BlockInv

\* accept(): the connection at the head of the queue is in main()'s hand.
LEMMA TakesKeeps ==
    ASSUME BlockInv, BlockAccept
    PROVE  BlockInv'
  <1> DEFINE h == Head(backlog)
  <1>1. PICK f \in Fds : AcceptAs(f) /\ owner' = [owner EXCEPT ![f] = h] /\ client_fd' = f
    BY DEF BlockAccept
  <1>2. /\ phase' = [phase EXCEPT ![h] = "open"] /\ main_pc = "accept" /\ main_pc' = "hand"
        /\ UNCHANGED <<listening, cl, rst, sent, taken, echo, got, cell, thread, fd, bufs>>
    BY DEF BlockAccept, threadVars
  <1>3. /\ OwnerInv' /\ h \in Conns /\ phase[h] = "queued"
        /\ \A g \in OpenFds : owner[g] # h
        /\ backlog' \in Seq(Conns)
        /\ owner' \in [Fds -> Conns \cup {NoConn}]
        /\ phase' \in [Conns -> {"none", "queued", "open", "done"}]
    BY <1>1, <1>2, AcceptOwner DEF BlockInv
  <1> HIDE DEF h
  <1>4. SocketsTypeOK' /\ ThreadTypes'
    BY <1>1, <1>2, <1>3 DEF BlockInv, SocketsTypeOK, ThreadTypes
  <1>5. /\ OpenFds' = OpenFds \cup {f} /\ f \notin OpenFds /\ owner'[f] = h
        /\ \A g \in OpenFds : owner'[g] = owner[g] /\ g # f
    BY <1>1, <1>3, SocketsAssumption
       DEF AcceptAs, FreeFds, OpenFds, BlockInv, SocketsTypeOK
  <1>6. /\ thread[h] = "none"
        /\ \A t \in Conns : phase'[t] \in {"none", "queued"} => thread'[t] = "none"
        /\ \A t \in Conns : phase'[t] # "done" => phase[t] # "done"
    BY <1>2, <1>3 DEF BlockInv, HoldsInv, SocketsTypeOK
  <1>7. \A t \in Conns : (Live(t)' <=> Live(t)) /\ Has(t)' = Has(t) /\ Waiting(t)' = Waiting(t)
    BY <1>2 DEF Live, Has, Waiting
  <1>8. HoldsInv'
    <2>1. ASSUME NEW t \in Conns, Live(t)'
          PROVE  (Has(t) \in Fds /\ owner[Has(t)] = t /\ ~Held(Has(t)))'
      <3>1. Has(t) \in Fds /\ Has(t) \in OpenFds /\ owner[Has(t)] = t /\ Has(t)' = Has(t)
        BY <1>7, <2>1, LiveOpen
      <3> QED
        BY <1>1, <1>5, <3>1 DEF Held
    <2>2. ASSUME NEW g \in OpenFds'
          PROVE  (Held(g) \/ (Live(owner[g]) /\ Has(owner[g]) = g))'
      <3>1. CASE g = f
        BY <1>1, <1>2, <3>1 DEF Held
      <3>2. CASE g # f
        <4>1. g \in OpenFds /\ owner'[g] = owner[g] /\ owner[g] \in Conns /\ ~Held(g)
          BY <1>2, <1>5, <2>2, <3>2 DEF Held, BlockInv, SocketsTypeOK, OpenFds
        <4>2. Live(owner[g]) /\ Has(owner[g]) = g
          BY <4>1 DEF BlockInv, HoldsInv
        <4> QED
          BY <1>2, <4>1, <4>2 DEF Live, Has
      <3> QED
        BY <3>1, <3>2
    <2> QED
      BY <1>1, <1>2, <1>5, <1>6, <2>1, <2>2 DEF HoldsInv
  <1>9. StreamInv'
    BY <1>2, <1>6, <1>7, SameWaiting DEF BlockInv, StreamInv
  <1> QED
    BY <1>3, <1>4, <1>8, <1>9 DEF BlockInv

\* The thread is created: the descriptor in hand becomes its own.
LEMMA HandOverKeeps ==
    ASSUME BlockInv, HandOver
    PROVE  BlockInv'
  <1> DEFINE t == owner[client_fd]
  <1>1. /\ main_pc = "hand" /\ main_pc' = "accept"
        /\ UNCHANGED <<sockVars, client_fd, fd, bufs>>
        /\ cell' = [cell EXCEPT ![t] = client_fd]
        /\ thread' = [thread EXCEPT ![t] = "new"]
    BY DEF HandOver
  <1>2. /\ client_fd \in Fds /\ client_fd \in OpenFds /\ t \in Conns
        /\ phase[t] = "open" /\ thread[t] = "none"
    BY <1>1, HeldOpen
  <1>3. owner[client_fd] = t
    OBVIOUS
  <1> HIDE DEF t
  <1>4. /\ UNCHANGED <<listening, backlog, phase, owner, cl, rst, sent, taken, echo, got>>
        /\ OpenFds' = OpenFds
    BY <1>1 DEF sockVars, OpenFds
  <1>5. SocketsTypeOK' /\ OwnerInv' /\ ThreadTypes'
    BY <1>1, <1>2, <1>4 DEF BlockInv, SocketsTypeOK, OwnerInv, ThreadTypes
  <1>6. /\ thread'[t] = "new" /\ cell'[t] = client_fd
        /\ \A u \in Conns \ {t} : thread'[u] = thread[u] /\ cell'[u] = cell[u] /\ fd'[u] = fd[u]
    BY <1>1, <1>2 DEF BlockInv, ThreadTypes
  <1>7. HoldsInv'
    <2>1. ASSUME NEW u \in Conns, Live(u)'
          PROVE  (Has(u) \in Fds /\ owner[Has(u)] = u /\ ~Held(Has(u)))'
      <3>1. ~Held(Has(u))'
        BY <1>1 DEF Held
      <3>2. CASE u = t
        BY <1>2, <1>3, <1>4, <1>6, <3>1, <3>2 DEF Has
      <3>3. CASE u # t
        <4>1. Live(u) /\ Has(u)' = Has(u)
          BY <1>6, <2>1, <3>3 DEF Live, Has
        <4> QED
          BY <1>4, <3>1, <4>1, LiveOpen
      <3> QED
        BY <3>2, <3>3
    <2>2. ASSUME NEW g \in OpenFds'
          PROVE  (Held(g) \/ (Live(owner[g]) /\ Has(owner[g]) = g))'
      <3>1. g \in OpenFds /\ owner'[g] = owner[g] /\ owner[g] \in Conns
        BY <1>4, <2>2 DEF OpenFds, BlockInv, SocketsTypeOK
      <3>2. CASE g = client_fd
        BY <1>3, <1>4, <1>6, <3>1, <3>2 DEF Live, Has
      <3>3. CASE g # client_fd
        <4>1. owner[g] # t /\ ~Held(g)
          BY <1>2, <1>3, <3>1, <3>3 DEF BlockInv, OwnerInv, Held
        <4>2. Live(owner[g]) /\ Has(owner[g]) = g
          BY <3>1, <4>1 DEF BlockInv, HoldsInv
        <4> QED
          BY <1>6, <3>1, <4>1, <4>2 DEF Live, Has
      <3> QED
        BY <3>2, <3>3
    <2>3. \A u \in Conns : phase'[u] \in {"none", "queued"} => thread'[u] = "none"
      BY <1>2, <1>4, <1>6 DEF BlockInv, HoldsInv
    <2> QED
      BY <1>1, <2>1, <2>2, <2>3 DEF HoldsInv
  <1>8. StreamInv'
    <2>1. \A u \in Conns : Waiting(u)' = Waiting(u)
      BY <1>1, <1>2, <1>6 DEF Waiting
    <2>2. \A u \in Conns : thread'[u] = "write" => bufs'[u] # <<>>
      BY <1>1, <1>6 DEF BlockInv, StreamInv
    <2> QED
      BY <1>4, <2>1, <2>2, SameWaiting DEF BlockInv
  <1> QED
    BY <1>5, <1>7, <1>8 DEF BlockInv

\* A descriptor that nobody has from now on is closed: main()'s, because there
\* is no thread for it, or that of a thread that ends.
LEMMA CloseKeeps ==
    ASSUME BlockInv, NEW f \in OpenFds, CloseFd(f), main_pc' # "hand" \/ ~Held(f),
           main_pc' = main_pc \/ (Held(f) /\ main_pc' = "accept"),
           UNCHANGED <<listening, backlog, cl, rst, sent, taken, echo, got>>,
           UNCHANGED <<client_fd, cell, fd, bufs>>,
           \/ Held(f) /\ thread' = thread
           \/ thread' = [thread EXCEPT ![owner[f]] = "ended"]
    PROVE  BlockInv'
  <1> DEFINE c == owner[f]
  <1>1. f \in Fds /\ c \in Conns
    BY DEF OpenFds, BlockInv, SocketsTypeOK
  <1>2. /\ OwnerInv' /\ OpenFds' = OpenFds \ {f}
        /\ \A g \in OpenFds' : owner'[g] = owner[g]
        /\ owner' \in [Fds -> Conns \cup {NoConn}]
        /\ phase' \in [Conns -> {"none", "queued", "open", "done"}]
    BY <1>1, CloseOwner DEF BlockInv
  <1>3. phase' = [phase EXCEPT ![c] = "done"]
    BY DEF CloseFd
  <1>4. \A g \in OpenFds' : owner[g] # c
    BY <1>2 DEF BlockInv, OwnerInv
  <1>5. owner[f] = c
    OBVIOUS
  <1>6. Held(f) => thread[c] = "none"
    BY DEF BlockInv, HoldsInv, Held
  <1> HIDE DEF c
  <1>7. /\ thread'[c] \in {"none", "ended"}
        /\ \A u \in Conns \ {c} : thread'[u] = thread[u]
        /\ thread' \in [Conns -> {"none", "new", "read", "write", "ended"}]
    BY <1>1, <1>5, <1>6 DEF BlockInv, ThreadTypes
  <1>8. SocketsTypeOK' /\ ThreadTypes'
    BY <1>2, <1>7 DEF BlockInv, SocketsTypeOK, ThreadTypes
  <1>9. \A u \in Conns \ {c} : /\ Live(u)' <=> Live(u)
                               /\ Has(u)' = Has(u) /\ Waiting(u)' = Waiting(u)
    BY <1>7 DEF Live, Has, Waiting
  <1>10. \A u \in Conns : Live(u)' => u # c
    BY <1>7 DEF Live
  <1>11. HoldsInv'
    <2>1. ASSUME NEW u \in Conns, Live(u)'
          PROVE  (Has(u) \in Fds /\ owner[Has(u)] = u /\ ~Held(Has(u)))'
      <3>1. u # c /\ Live(u) /\ Has(u)' = Has(u)
        BY <1>9, <1>10, <2>1
      <3>2. Has(u) \in Fds /\ Has(u) \in OpenFds /\ owner[Has(u)] = u /\ ~Held(Has(u))
        BY <3>1, LiveOpen
      <3>3. Has(u) \in OpenFds'
        BY <1>2, <1>5, <3>1, <3>2
      <3>4. ~Held(Has(u))'
        BY <3>1, <3>2 DEF Held
      <3> QED
        BY <1>2, <3>1, <3>2, <3>3, <3>4
    <2>2. ASSUME NEW g \in OpenFds'
          PROVE  (Held(g) \/ (Live(owner[g]) /\ Has(owner[g]) = g))'
      <3>1. /\ g \in OpenFds /\ g # f /\ owner'[g] = owner[g]
            /\ owner[g] \in Conns /\ owner[g] # c
        BY <1>2, <1>4, <2>2 DEF OpenFds, BlockInv, SocketsTypeOK
      <3>2. Held(g) \/ (Live(owner[g]) /\ Has(owner[g]) = g)
        BY <3>1 DEF BlockInv, HoldsInv
      <3>3. CASE Held(g)
        BY <3>1, <3>3 DEF Held
      <3>4. CASE Live(owner[g]) /\ Has(owner[g]) = g
        BY <1>7, <3>1, <3>4 DEF Live, Has
      <3> QED
        BY <3>2, <3>3, <3>4
    <2>3. (main_pc = "hand" => client_fd \in OpenFds /\ thread[owner[client_fd]] = "none")'
      <3> SUFFICES ASSUME main_pc' = "hand"
                   PROVE  client_fd' \in OpenFds' /\ thread'[owner'[client_fd']] = "none"
        OBVIOUS
      <3>1. main_pc = "hand" /\ client_fd # f
        BY DEF Held
      <3>2. client_fd \in OpenFds' /\ owner'[client_fd] = owner[client_fd]
        BY <1>2, <3>1, HeldOpen
      <3> QED
        BY <1>4, <1>7, <3>1, <3>2, HeldOpen
    <2>4. \A u \in Conns : phase'[u] \in {"none", "queued"} => thread'[u] = "none"
      BY <1>1, <1>3, <1>7 DEF BlockInv, HoldsInv, SocketsTypeOK
    <2> QED
      BY <2>1, <2>2, <2>3, <2>4 DEF HoldsInv
  <1>12. StreamInv'
    <2>1. \A u \in Conns : phase'[u] # "done" => phase[u] # "done" /\ u # c
      BY <1>1, <1>3 DEF BlockInv, SocketsTypeOK
    <2>2. \A u \in Conns : thread'[u] = "write" => bufs'[u] # <<>>
      BY <1>7 DEF BlockInv, StreamInv
    <2> QED
      BY <1>9, <2>1, <2>2, SameWaiting DEF BlockInv
  <1> QED
    BY <1>2, <1>8, <1>11, <1>12 DEF BlockInv

\* A thread moves on with the descriptor it has; its stream stays one run.
LEMMA ThreadKeeps ==
    ASSUME BlockInv, NEW t \in Conns, Live(t), Live(t)', Has(t)' = Has(t),
           UNCHANGED <<listening, backlog, phase, owner, cl, rst, sent, got>>,
           UNCHANGED <<main_pc, client_fd>>,
           SocketsTypeOK', ThreadTypes',
           \A u \in Conns \ {t} :
               /\ thread'[u] = thread[u] /\ cell'[u] = cell[u] /\ fd'[u] = fd[u]
               /\ bufs'[u] = bufs[u] /\ echo'[u] = echo[u] /\ taken'[u] = taken[u],
           Run(t, echo'[t], Waiting(t)', taken'[t], sent[t]),
           thread'[t] = "write" => bufs'[t] # <<>>
    PROVE  BlockInv'
  <1>1. OwnerInv'
    BY SameOwner DEF BlockInv
  <1>2. HoldsInv'
    <2>1. \A u \in Conns : /\ Live(u)' <=> Live(u)
                           /\ Has(u)' = Has(u)
                           /\ thread'[u] = "none" <=> thread[u] = "none"
      BY DEF Live, Has
    <2>2. \A f \in Fds : Held(f)' <=> Held(f)
      BY DEF Held
    <2> QED
      BY <2>1, <2>2, SameHolds DEF BlockInv
  <1>3. StreamInv'
    <2>1. ASSUME NEW c \in Conns, phase'[c] # "done"
          PROVE  Run(c, echo'[c], Waiting(c)', taken'[c], sent'[c])
      <3>1. CASE c = t
        BY <3>1
      <3>2. CASE c # t
        BY <2>1, <3>2 DEF BlockInv, StreamInv, Waiting
      <3> QED
        BY <3>1, <3>2
    <2>2. \A u \in Conns : thread'[u] = "write" => bufs'[u] # <<>>
      BY DEF BlockInv, StreamInv
    <2> QED
      BY <2>1, <2>2 DEF BlockInv, StreamInv, GoneInv
  <1> QED
    BY <1>1, <1>2, <1>3 DEF BlockInv

\* int client_fd = *(int * )arg.
LEMMA TakeCellKeeps ==
    ASSUME BlockInv, NEW t \in Conns, TakeCell(t)
    PROVE  BlockInv'
  <1>1. /\ thread[t] = "new" /\ thread' = [thread EXCEPT ![t] = "read"]
        /\ fd' = [fd EXCEPT ![t] = cell[t]]
        /\ UNCHANGED <<listening, backlog, phase, owner, cl, rst, sent, taken, echo, got>>
        /\ UNCHANGED <<main_pc, client_fd, cell, bufs>>
    BY DEF TakeCell, sockVars
  <1>2. /\ thread'[t] = "read" /\ fd'[t] = cell[t]
        /\ \A u \in Conns \ {t} : thread'[u] = thread[u] /\ fd'[u] = fd[u]
    BY <1>1 DEF BlockInv, ThreadTypes
  <1>3. SocketsTypeOK' /\ ThreadTypes'
    BY <1>1 DEF BlockInv, SocketsTypeOK, ThreadTypes
  <1>4. Live(t) /\ Live(t)' /\ Has(t)' = Has(t) /\ Waiting(t)' = <<>> /\ Waiting(t) = <<>>
    BY <1>1, <1>2 DEF Live, Has, Waiting
  <1>5. Run(t, echo'[t], Waiting(t)', taken'[t], sent[t])
    <2>1. Run(t, echo[t], Waiting(t), taken[t], sent[t])
      BY <1>4, LiveOpen DEF BlockInv, StreamInv
    <2> QED
      BY <1>1, <1>4, <2>1
  <1> QED
    BY <1>1, <1>2, <1>3, <1>4, <1>5, ThreadKeeps

\* A blocking read() returns with data.
LEMMA ThreadReadKeeps ==
    ASSUME BlockInv, NEW t \in Conns, ThreadRead(t)
    PROVE  BlockInv'
  <1>1. thread[t] = "read" /\ thread' = [thread EXCEPT ![t] = "write"]
    BY DEF ThreadRead
  <1>2. Live(t) /\ Has(t) = fd[t]
    BY <1>1 DEF Live, Has
  <1>3. owner[fd[t]] = t /\ phase[t] = "open"
    BY <1>2, LiveOpen
  <1> DEFINE k == ReadLen(t)
             w == Bytes(t, taken[t], k)
  <1>4. /\ Avail(t) > 0
        /\ bufs' = [bufs EXCEPT ![t] = w]
        /\ taken' = [taken EXCEPT ![t] = @ + k]
        /\ UNCHANGED <<listening, backlog, phase, owner, cl, rst, sent, echo, got>>
        /\ UNCHANGED <<main_pc, client_fd, cell, fd>>
    BY <1>3 DEF ThreadRead, ReadData
  <1>5. /\ k \in Nat \ {0} /\ taken[t] + k <= sent[t] /\ taken[t] + k \in Nat
        /\ taken[t] \in Nat /\ sent[t] \in Nat
    BY <1>4, ReadLenType, ConnParts DEF BlockInv
  <1>6. w \in Seq(Byte) /\ Len(w) = k
    BY <1>5, BytesType
  <1>7. w # <<>>
    BY <1>5, <1>6
  <1>8. Run(t, echo[t], w, taken[t] + k, sent[t])
    <2>1. Run(t, echo[t], <<>>, taken[t], sent[t])
      BY <1>1, <1>3 DEF BlockInv, StreamInv, Waiting
    <2> QED
      BY <1>5, <2>1, ReadRun
  <1> HIDE DEF k, w
  <1>9. /\ thread'[t] = "write" /\ bufs'[t] = w /\ taken'[t] = taken[t] + k
        /\ \A u \in Conns \ {t} : /\ thread'[u] = thread[u] /\ bufs'[u] = bufs[u]
                                  /\ taken'[u] = taken[u]
    BY <1>1, <1>4 DEF BlockInv, ThreadTypes, SocketsTypeOK
  <1>10. SocketsTypeOK' /\ ThreadTypes'
    BY <1>1, <1>4, <1>5, <1>6 DEF BlockInv, SocketsTypeOK, ThreadTypes
  <1>11. Live(t)' /\ Has(t)' = Has(t) /\ Waiting(t)' = w
    BY <1>2, <1>4, <1>9 DEF Live, Has, Waiting
  <1>12. Run(t, echo'[t], Waiting(t)', taken'[t], sent[t])
    BY <1>4, <1>8, <1>9, <1>11
  <1> QED
    BY <1>2, <1>4, <1>7, <1>9, <1>10, <1>11, <1>12, ThreadKeeps

\* A blocking write() takes what fits.
LEMMA ThreadWriteKeeps ==
    ASSUME BlockInv, NEW t \in Conns, ThreadWrite(t)
    PROVE  BlockInv'
  <1> DEFINE w == bufs[t]
             r == SubSeq(w, WriteLen(t, w) + 1, Len(w))
  <1>1. /\ thread[t] = "write"
        /\ thread' = [thread EXCEPT ![t] = IF bufs'[t] = <<>> THEN "read" ELSE "write"]
    BY DEF ThreadWrite
  <1>2. Live(t) /\ Has(t) = fd[t]
    BY <1>1 DEF Live, Has
  <1>3. owner[fd[t]] = t /\ phase[t] = "open"
    BY <1>2, LiveOpen
  <1>4. /\ Write(t, w) /\ bufs' = [bufs EXCEPT ![t] = r]
        /\ UNCHANGED <<listening, backlog, phase, owner, cl, rst, sent, taken, got>>
        /\ UNCHANGED <<main_pc, client_fd, cell, fd>>
    BY <1>3 DEF ThreadWrite
  <1>5. w \in Seq(Byte) /\ Run(t, echo[t], w, taken[t], sent[t])
    BY <1>1, <1>3 DEF BlockInv, StreamInv, Waiting, ThreadTypes
  <1>6. /\ echo' \in [Conns -> Seq(Byte)] /\ r \in Seq(Byte)
        /\ Run(t, echo'[t], r, taken[t], sent[t])
        /\ \A u \in Conns \ {t} : echo'[u] = echo[u]
    BY <1>4, <1>5, WriteSplits DEF BlockInv
  <1> HIDE DEF r, w
  <1>7. bufs'[t] = r /\ \A u \in Conns \ {t} : bufs'[u] = bufs[u] /\ thread'[u] = thread[u]
    BY <1>1, <1>4 DEF BlockInv, ThreadTypes
  <1>8. thread'[t] = IF r = <<>> THEN "read" ELSE "write"
    BY <1>1, <1>7 DEF BlockInv, ThreadTypes
  <1>9. ThreadTypes'
    BY <1>1, <1>4, <1>6 DEF BlockInv, ThreadTypes
  <1>10. SocketsTypeOK'
    BY <1>4, <1>6 DEF BlockInv, SocketsTypeOK
  <1>11. Live(t)' /\ Has(t)' = Has(t) /\ Waiting(t)' = r
    BY <1>2, <1>4, <1>7, <1>8 DEF Live, Has, Waiting
  <1>12. Run(t, echo'[t], Waiting(t)', taken'[t], sent[t])
    BY <1>4, <1>6, <1>11
  <1> QED
    BY <1>2, <1>4, <1>6, <1>7, <1>8, <1>9, <1>10, <1>11, <1>12, ThreadKeeps

\* Clients come, send and go; no thread is touched.
LEMMA BlockNetworkKeeps ==
    ASSUME BlockInv, BlockNetwork
    PROVE  BlockInv'
  <1>1. UNCHANGED <<main_pc, client_fd, cell, thread, fd, bufs>>
    BY DEF BlockNetwork, threadVars
  <1>2. PICK c \in Conns : \/ Connect(c) \/ ClientSend(c) \/ ClientRecv(c)
                           \/ ClientShut(c) \/ ClientClose(c) \/ ResetArrives(c)
    BY DEF BlockNetwork
  <1>3. SocketsTypeOK' /\ OwnerInv'
    BY <1>2, ClientTypes, ClientOwner DEF BlockInv
  <1>4. /\ GoneInv' /\ UNCHANGED <<owner, taken, echo>>
        /\ \A d \in Conns : phase'[d] # "done" => phase[d] # "done"
        /\ \A d \in Conns : sent[d] <= sent'[d]
    BY <1>2, ClientStreams DEF BlockInv, StreamInv
  <1>5. \A d \in Conns : phase'[d] \in {"none", "queued"} => phase[d] \in {"none", "queued"}
    BY <1>2, ClientOwner DEF BlockInv, SocketsTypeOK
  <1>6. ThreadTypes'
    BY <1>1 DEF BlockInv, ThreadTypes
  <1>7. HoldsInv'
    BY <1>1, <1>4, <1>5, SameHolds DEF BlockInv, Live, Has, Held
  <1>8. StreamInv'
    <2>1. ASSUME NEW d \in Conns, phase'[d] # "done"
          PROVE  Run(d, echo'[d], Waiting(d)', taken'[d], sent'[d])
      <3>1. Run(d, echo[d], Waiting(d), taken[d], sent[d])
        BY <1>4, <2>1 DEF BlockInv, StreamInv
      <3>2. sent[d] \in Nat /\ sent'[d] \in Nat /\ taken[d] \in Nat
        BY <1>3 DEF BlockInv, SocketsTypeOK
      <3>3. Run(d, echo[d], Waiting(d), taken[d], sent'[d])
        BY <1>4, <3>1, <3>2, LongerRun
      <3> QED
        BY <1>1, <1>4, <3>3 DEF Waiting
    <2> QED
      BY <1>1, <1>4, <2>1 DEF StreamInv, BlockInv
  <1> QED
    BY <1>3, <1>6, <1>7, <1>8 DEF BlockInv

\* The descriptor in hand or that of a thread is given back.
LEMMA GivesBack ==
    ASSUME BlockInv, HandOverFails \/ \E t \in Conns : ThreadEnds(t)
    PROVE  BlockInv'
  <1>1. CASE HandOverFails
    <2>1. /\ main_pc = "hand" /\ main_pc' = "accept" /\ CloseFd(client_fd)
          /\ UNCHANGED <<listening, backlog, cl, rst, sent, taken, echo, got>>
          /\ UNCHANGED <<client_fd, cell, thread, fd, bufs>>
      BY <1>1 DEF HandOverFails, threadVars
    <2>2. client_fd \in OpenFds /\ Held(client_fd)
      BY <2>1, HeldOpen DEF Held
    <2> QED
      BY <2>1, <2>2, CloseKeeps
  <1>2. ASSUME NEW t \in Conns, ThreadEnds(t)
        PROVE  BlockInv'
    <2>1. /\ thread[t] \in {"read", "write"} /\ CloseFd(fd[t])
          /\ thread' = [thread EXCEPT ![t] = "ended"]
          /\ UNCHANGED <<listening, backlog, cl, rst, sent, taken, echo, got>>
          /\ UNCHANGED <<main_pc, client_fd, cell, fd, bufs>>
      BY <1>2 DEF ThreadEnds
    <2>2. fd[t] \in OpenFds /\ owner[fd[t]] = t /\ ~Held(fd[t])
      BY <2>1, LiveOpen DEF Live, Has
    <2> QED
      BY <2>1, <2>2, CloseKeeps
  <1> QED
    BY <1>1, <1>2

\* Every step of server_blocking keeps the invariant.
LEMMA BlockKeeps ==
    ASSUME BlockInv, BlockNext
    PROVE  BlockInv'
  <1>1. ASSUME NEW t \in Conns, Thread(t)
        PROVE  BlockInv'
    BY <1>1, TakeCellKeeps, ThreadReadKeeps, ThreadWriteKeeps, GivesBack DEF Thread
  <1> QED
    BY <1>1, MainMoves, ExitKeeps, TakesKeeps, HandOverKeeps, GivesBack, BlockNetworkKeeps
       DEF BlockNext, BlockMain, BlockLeave, BlockKill

\* Each descriptor has its threads.
LEMMA ThreadsMatch ==
    ASSUME BlockInv
    PROVE  OneThreadEach
  <1> SUFFICES ASSUME NEW f \in Fds
               PROVE  ThreadsOf(f) = IF owner[f] = NoConn \/ Held(f) THEN {} ELSE {owner[f]}
    BY DEF OneThreadEach, Held
  <1>1. \A t \in Conns : t \in ThreadsOf(f) <=> Live(t) /\ Has(t) = f
    BY DEF ThreadsOf, Live, Has
  <1>2. \A t \in ThreadsOf(f) : t \in Conns
    BY DEF ThreadsOf
  <1>3. ASSUME NEW t \in ThreadsOf(f)
        PROVE  owner[f] = t /\ owner[f] # NoConn /\ ~Held(f)
    BY <1>1, <1>2, LiveOpen, SocketsAssumption
  <1>4. ASSUME owner[f] # NoConn, ~Held(f)
        PROVE  owner[f] \in ThreadsOf(f)
    <2>1. f \in OpenFds /\ owner[f] \in Conns
      BY <1>4 DEF OpenFds, BlockInv, SocketsTypeOK
    <2>2. Live(owner[f]) /\ Has(owner[f]) = f
      BY <1>4, <2>1 DEF BlockInv, HoldsInv
    <2> QED
      BY <1>1, <2>1, <2>2
  <1> QED
    BY <1>3, <1>4

-----------------------------------------------------------------------------
(* server_blocking echoes.                                                 *)

\* Only the connection in main()'s hand is not served although it is open.
LEMMA HeldPhase ==
    ASSUME BlockInv, BlockInv'
    PROVE  /\ main_pc # "hand" => ServedPhase = phase
           /\ main_pc = "hand" => ServedPhase = [phase EXCEPT ![owner[client_fd]] = "queued"]
           /\ main_pc' # "hand" => ServedPhase' = phase'
           /\ main_pc' = "hand" =>
                 ServedPhase' = [phase' EXCEPT ![owner'[client_fd']] = "queued"]
  BY DEF ServedPhase, InHand, BlockInv, SocketsTypeOK

\* A thread's connection is served.
LEMMA LiveServed ==
    ASSUME BlockInv, NEW t \in Conns, Live(t)
    PROVE  phase[t] = "open" /\ ServedPhase[t] = "open" /\ ~InHand(t)
  <1>1. phase[t] = "open"
    BY LiveOpen
  <1>2. ~InHand(t)
    BY HeldOpen DEF InHand, Live
  <1> QED
    BY <1>1, <1>2 DEF ServedPhase

\* What main() does with a client.
LEMMA MainEchoes ==
    ASSUME BlockInv, BlockInv', BlockBoot \/ BlockMain \/ BlockKill
    PROVE  EchoStep
  <1>1. CASE BlockBoot \/ BlockAcceptFails
    <2>1. /\ main_pc # "hand" /\ main_pc' # "hand" /\ UNCHANGED <<phase, cl, sent, echo>>
          /\ listening' = TRUE \/ listening' = listening
      BY <1>1 DEF BlockBoot, BlockAcceptFails, sockVars
    <2>2. ServedPhase' = ServedPhase
      BY <2>1, HeldPhase
    <2>3. CASE listening' = TRUE
      BY <2>1, <2>2, <2>3 DEF EchoStep, Echoer!Next, Echoer!Start
    <2>4. CASE listening' = listening
      BY <2>1, <2>2, <2>4 DEF EchoStep, Echoer!echoVars
    <2> QED
      BY <2>1, <2>3, <2>4
  <1>2. CASE BlockAccept
    <2> DEFINE h == Head(backlog)
    <2>1. PICK f \in Fds : AcceptAs(f) /\ owner' = [owner EXCEPT ![f] = h] /\ client_fd' = f
      BY <1>2 DEF BlockAccept
    <2>2. /\ phase' = [phase EXCEPT ![h] = "open"] /\ main_pc = "accept" /\ main_pc' = "hand"
          /\ UNCHANGED <<listening, cl, sent, echo>>
      BY <1>2 DEF BlockAccept
    <2>3. h \in Conns /\ phase[h] = "queued"
      BY <2>1, <2>2, AcceptOwner DEF BlockInv
    <2> HIDE DEF h
    <2>4. owner'[client_fd'] = h /\ phase \in [Conns -> {"none", "queued", "open", "done"}]
      BY <2>1 DEF BlockInv, SocketsTypeOK
    <2>5. ServedPhase' = [phase' EXCEPT ![h] = "queued"] /\ ServedPhase = phase
      BY <2>2, <2>4, HeldPhase
    <2>6. ServedPhase' = ServedPhase
      BY <2>2, <2>3, <2>4, <2>5
    <2> QED
      BY <2>2, <2>6 DEF EchoStep, Echoer!echoVars
  <1>3. CASE HandOver \/ HandOverFails
    <2> DEFINE h == owner[client_fd]
    <2>1. /\ main_pc = "hand" /\ main_pc' = "accept" /\ UNCHANGED <<listening, cl, sent, echo>>
          /\ phase' = phase \/ phase' = [phase EXCEPT ![h] = "done"]
      BY <1>3 DEF HandOver, HandOverFails, CloseFd, sockVars
    <2>2. h \in Conns /\ phase[h] = "open"
      BY <2>1, HeldOpen
    <2>3. ServedPhase = [phase EXCEPT ![h] = "queued"] /\ ServedPhase' = phase'
      BY <2>1, HeldPhase
    <2>4. phase \in [Conns -> {"none", "queued", "open", "done"}]
      BY DEF BlockInv, SocketsTypeOK
    <2> HIDE DEF h
    <2>5. /\ ServedPhase[h] = "queued"
          /\ \E p \in {"open", "done"} : ServedPhase' = [ServedPhase EXCEPT ![h] = p]
      BY <2>1, <2>2, <2>3, <2>4
    <2>6. Echoer!Admit(h)
      BY <2>1, <2>5 DEF Echoer!Admit
    <2> QED
      BY <2>2, <2>6 DEF EchoStep, Echoer!Next
  <1>4. CASE BlockLeave \/ BlockKill
    <2>1. /\ listening' = FALSE /\ UNCHANGED <<cl, sent, echo>> /\ main_pc' # "hand"
          /\ phase' = [c \in Conns |-> IF phase[c] = "none" THEN "none" ELSE "done"]
      BY <1>4 DEF BlockLeave, BlockKill, BlockExit, ProcessExit
    <2>2. \A c \in Conns : ServedPhase[c] = "none" <=> phase[c] = "none"
      BY HeldOpen DEF ServedPhase, InHand
    <2>3. ServedPhase' = [c \in Conns |-> IF ServedPhase[c] = "none" THEN "none" ELSE "done"]
      BY <2>1, <2>2, HeldPhase
    <2> QED
      BY <2>1, <2>3 DEF EchoStep, Echoer!Next, Echoer!Shutdown
  <1> QED
    BY <1>1, <1>2, <1>3, <1>4 DEF BlockMain

\* What a thread does with its client.
LEMMA ThreadEchoes ==
    ASSUME BlockInv, BlockInv', NEW t \in Conns, Thread(t)
    PROVE  EchoStep
  <1>1. CASE TakeCell(t) \/ ThreadRead(t)
    <2>1. UNCHANGED <<listening, phase, owner, cl, sent, echo, main_pc, client_fd>>
      BY <1>1 DEF TakeCell, ThreadRead, sockVars
    <2> QED
      BY <2>1 DEF EchoStep, Echoer!echoVars, ServedPhase, InHand
  <1>2. CASE ThreadWrite(t)
    <2> DEFINE w == bufs[t]
    <2>1. thread[t] = "write" /\ Live(t) /\ Has(t) = fd[t]
      BY <1>2 DEF ThreadWrite, Live, Has
    <2>2. owner[fd[t]] = t /\ phase[t] = "open" /\ ServedPhase[t] = "open"
      BY <2>1, LiveOpen, LiveServed
    <2>3. /\ Write(t, w)
          /\ UNCHANGED <<listening, phase, owner, cl, sent, main_pc, client_fd>>
      BY <1>2, <2>2 DEF ThreadWrite
    <2>4. w \in Seq(Byte) /\ w # <<>> /\ Run(t, echo[t], w, taken[t], sent[t])
      BY <2>1, <2>2 DEF BlockInv, StreamInv, Waiting, ThreadTypes
    <2> HIDE DEF w
    <2>5. /\ Len(echo'[t]) \in (Len(echo[t]) + 1)..sent[t]
          /\ echo' = [echo EXCEPT ![t] = [k \in 1..Len(echo'[t]) |-> <<t, k>>]]
      BY <2>3, <2>4, RunGrows DEF BlockInv
    <2>6. ServedPhase' = ServedPhase
      BY <2>3 DEF ServedPhase, InHand
    <2>7. Echoer!Echo(t)
      BY <2>2, <2>3, <2>5, <2>6 DEF Echoer!Echo
    <2> QED
      BY <2>7 DEF EchoStep, Echoer!Next
  <1>3. CASE ThreadEnds(t)
    <2>1. thread[t] \in {"read", "write"} /\ Live(t) /\ Has(t) = fd[t]
      BY <1>3 DEF ThreadEnds, Live, Has
    <2>2. /\ owner[fd[t]] = t /\ fd[t] \in Fds /\ ~Held(fd[t])
          /\ phase[t] = "open" /\ ServedPhase[t] = "open" /\ ~InHand(t)
      BY <2>1, LiveOpen, LiveServed
    <2>3. /\ owner' = [owner EXCEPT ![fd[t]] = NoConn]
          /\ phase' = [phase EXCEPT ![t] = "done"]
          /\ UNCHANGED <<listening, cl, sent, echo, main_pc, client_fd>>
          /\ (thread[t] = "read" /\ ReadEnds(t)) \/ rst[t]
      BY <1>3, <2>2 DEF ThreadEnds, CloseFd, WriteFails
    <2>4. cl[t] = "gone" \/ (cl[t] = "shut" /\ Len(echo[t]) = sent[t])
      <3>1. rst[t] => cl[t] = "gone"
        BY DEF BlockInv, StreamInv, GoneInv
      <3>2. ASSUME thread[t] = "read", Avail(t) = 0, Eof(t)
            PROVE  cl[t] = "gone" \/ (cl[t] = "shut" /\ Len(echo[t]) = sent[t])
        <4>1. /\ taken[t] \in Nat /\ sent[t] \in Nat /\ Len(echo[t]) \in Nat
              /\ cl[t] \in {"shut", "gone"}
          BY <3>2, ConnParts DEF BlockInv, Eof
        <4>2. Run(t, echo[t], <<>>, taken[t], sent[t])
          BY <2>2, <3>2 DEF BlockInv, StreamInv, Waiting
        <4>3. taken[t] = Len(echo[t]) + 0
          BY <4>2 DEF Run
        <4> QED
          BY <3>2, <4>1, <4>3 DEF Avail
      <3> QED
        BY <2>3, <3>1, <3>2 DEF ReadEnds
    <2>5. \A c \in Conns : InHand(c)' <=> InHand(c)
      <3>1. main_pc = "hand" => owner'[client_fd] = owner[client_fd]
        BY <2>2, <2>3, HeldOpen DEF Held, BlockInv, SocketsTypeOK
      <3> QED
        BY <2>3, <3>1 DEF InHand
    <2>6. ServedPhase' = [ServedPhase EXCEPT ![t] = "done"]
      <3>1. phase'[t] = "done" /\ \A c \in Conns \ {t} : phase'[c] = phase[c]
        BY <2>3 DEF BlockInv, SocketsTypeOK
      <3>2. /\ ServedPhase'[t] = "done"
            /\ \A c \in Conns \ {t} : ServedPhase'[c] = ServedPhase[c]
        BY <2>2, <2>5, <3>1 DEF ServedPhase
      <3>3. /\ ServedPhase = [c \in Conns |-> ServedPhase[c]]
            /\ ServedPhase' = [c \in Conns |-> ServedPhase'[c]]
        BY DEF ServedPhase
      <3> HIDE DEF ServedPhase
      <3> QED
        BY <3>2, <3>3
    <2>7. Echoer!Hangup(t)
      BY <2>2, <2>3, <2>4, <2>6 DEF Echoer!Hangup
    <2> QED
      BY <2>7 DEF EchoStep, Echoer!Next
  <1> QED
    BY <1>1, <1>2, <1>3 DEF Thread

\* Every step of server_blocking is one of EchoService or is not seen there.
LEMMA BlockEchoes ==
    ASSUME BlockInv, BlockInv', BlockNext
    PROVE  EchoStep
  <1>1. CASE BlockNetwork
    <2>1. PICK c \in Conns : \/ Connect(c) \/ ClientSend(c) \/ ClientRecv(c)
                             \/ ClientShut(c) \/ ClientClose(c) \/ ResetArrives(c)
      BY <1>1 DEF BlockNetwork
    <2>2. UNCHANGED <<main_pc, client_fd, owner>>
      BY <1>1, <2>1, ClientOwner DEF BlockNetwork, BlockInv
    <2>3. /\ \A d \in Conns : InHand(d)' = InHand(d)
          /\ \A d \in Conns : InHand(d) => phase[d] = "open"
      BY <2>2, HeldOpen DEF InHand
    <2> QED
      BY <2>1, <2>3, ClientEchoes DEF BlockInv
  <1> QED
    BY <1>1, MainEchoes, ThreadEchoes DEF BlockNext

-----------------------------------------------------------------------------
(* The five servers together.                                              *)

\* What the tables of the program that runs say of its sockets.
Tables ==
    /\ program = "server_poll" => TableInv /\ ScanInv
    /\ program = "server_select" => SelInv
    /\ program \in {"server_epoll", "reference_server"} => BatchInv /\ EdgeInv

BaseInv ==
    /\ program \in Programs
    /\ \A f \in master_set : f < FD_SETSIZE
    /\ threaded => BlockInv /\ pc = "boot" /\ program = "server_poll"
    /\ ~threaded => SpinInv /\ Tables

\* At first a spinning server has done nothing.
LEMMA SpinStarts ==
    ASSUME SpinInit, main_pc = "boot"
    PROVE  SpinInv
  <1>1. SocketsTypeOK /\ OwnerInv /\ OpenFds = {}
    BY SocketsStart DEF SpinInit
  <1>2. \A c \in Conns : Run(c, echo[c], Unwritten(c), taken[c], sent[c])
    <2>1. \A c \in Conns : Run(c, <<>>, <<>>, 0, 0)
      BY NewRun
    <2> QED
      BY <2>1 DEF SpinInit, SocketsInit, Unwritten
  <1>3. buf \in Seq(Byte)
    BY DEF SpinInit
  <1> QED
    BY <1>1, <1>2, <1>3 DEF SpinInv, SpinInit, SocketsInit, GoneInv, Serving

\* The initial states satisfy the invariant, and are EchoService's.
LEMMA BaseStarts ==
    ASSUME Init
    PROVE  BaseInv /\ ListenerInv /\ Echoer!Init
  <1>1. /\ PollInit /\ SelectInit /\ EpollInit /\ BlockInit /\ SpinInit
        /\ threaded => program = "server_poll"
    BY DEF Init, PollInit
  <1>2. SpinInv
    BY <1>1, SpinStarts DEF BlockInit
  <1>3. TableInv /\ ScanInv /\ SelInv /\ BatchInv /\ EdgeInv /\ ListenerInv /\ BlockInv
    BY <1>1, PollStarts, SelectStarts, EpollStarts, BlockStarts
  <1>4. Echoer!Init
    <2>1. main_pc = "boot" /\ SocketsInit
      BY <1>1 DEF BlockInit
    <2> QED
      BY <2>1 DEF SocketsInit, Echoer!Init, ServedPhase, InHand
  <1> QED
    BY <1>1, <1>2, <1>3, <1>4 DEF BaseInv, Tables, SelInv, SpinInit

\* A step of a spinning server that keeps its tables keeps the invariant.
LEMMA SpinBase ==
    ASSUME BaseInv, ~threaded, UNCHANGED <<threaded, program, main_pc>>, Moves, Tables',
           \A f \in master_set' : f < FD_SETSIZE'
    PROVE  BaseInv' /\ EchoStep
  <1>1. SpinInv /\ main_pc' = "boot"
    BY DEF BaseInv, SpinInv
  <1>2. SpinInv'
    BY <1>1, SpinKeeps
  <1>3. EchoStep
    BY <1>1, <1>2, SpinEchoes
  <1> QED
    BY <1>2, <1>3 DEF BaseInv

\* Nothing happens.
LEMMA BaseStutters ==
    ASSUME BaseInv, UNCHANGED allVars
    PROVE  BaseInv' /\ EchoStep
  <1>1. /\ UNCHANGED <<threaded, sockVars, program, spinVars, main_pc, client_fd>>
        /\ UNCHANGED <<cell, thread, fd, bufs, fds, i, current_nfds, compress_array>>
        /\ UNCHANGED <<FD_SETSIZE, master_set, readfds, max_fd, batch, rdl>>
    BY DEF allVars, blockOwn, spinOwn, threadVars, pollVars, scanVars, selVars, epollVars
  <1>2. /\ UNCHANGED <<listening, backlog, phase, owner, cl, rst, sent, taken, echo, got>>
        /\ UNCHANGED <<pc, cur, buf>> /\ OpenFds' = OpenFds
    BY <1>1 DEF sockVars, spinVars, OpenFds
  <1>3. CASE threaded
    <2>1. BlockInv
      BY <1>3 DEF BaseInv
    <2>2. SocketsTypeOK' /\ OwnerInv' /\ ThreadTypes'
      BY <1>1, <1>2, <2>1 DEF BlockInv, SocketsTypeOK, OwnerInv, ThreadTypes
    <2>3. HoldsInv'
      BY <1>1, <1>2, <2>1, SameHolds DEF BlockInv, Live, Has, Held
    <2>4. StreamInv'
      BY <1>1, <1>2, <2>1, SameWaiting DEF BlockInv, Waiting, StreamInv
    <2>5. EchoStep
      BY <1>1, <1>2 DEF EchoStep, Echoer!echoVars, ServedPhase, InHand
    <2> QED
      BY <1>1, <1>2, <1>3, <2>2, <2>3, <2>4, <2>5 DEF BaseInv, BlockInv
  <1>4. CASE ~threaded
    <2>1. Tables
      BY <1>4 DEF BaseInv
    <2>2. program = "server_poll" => TableInv' /\ ScanInv'
      BY <1>1, <1>2, <2>1 DEF Tables, TableInv, ScanInv
    <2>3. program = "server_select" => SelInv'
      BY <1>1, <1>2, <2>1 DEF Tables, SelInv
    <2>4. program \in {"server_epoll", "reference_server"} => BatchInv' /\ EdgeInv'
      BY <1>1, <1>2, <2>1
         DEF Tables, BatchInv, EdgeInv, Batched, edge, Readable, Avail, Eof
    <2>5. Tables'
      BY <1>1, <2>2, <2>3, <2>4 DEF Tables
    <2>6. Moves
      BY <1>1 DEF Moves
    <2> QED
      BY <1>1, <1>4, <2>5, <2>6, SpinBase DEF BaseInv
  <1> QED
    BY <1>3, <1>4

\* Every step keeps the invariant and is one of EchoService or not seen there.
LEMMA BaseKeeps ==
    ASSUME BaseInv, [Next]_allVars
    PROVE  BaseInv' /\ EchoStep
  <1>1. ASSUME NEW programs, Only(programs)
        PROVE  /\ ~threaded /\ program \in programs
               /\ UNCHANGED <<threaded, program, main_pc>> /\ SpinInv /\ Tables
               /\ "server_select" \notin programs => UNCHANGED <<master_set, FD_SETSIZE>>
    BY <1>1 DEF Only, BaseInv, blockOwn, selVars
  <1>2. CASE Only({"server_poll"}) /\ PollNext
    <2>1. /\ ~threaded /\ program = "server_poll" /\ SpinInv /\ TableInv /\ ScanInv
          /\ UNCHANGED <<threaded, program, main_pc, master_set, FD_SETSIZE>>
      BY <1>1, <1>2 DEF Tables
    <2>2. Moves /\ TableInv' /\ ScanInv'
      BY <1>2, <2>1, PollMoves, PollKeeps
    <2>3. Tables'
      BY <2>1, <2>2 DEF Tables
    <2> QED
      BY <2>1, <2>2, <2>3, SpinBase DEF BaseInv
  <1>3. CASE Only({"server_select"}) /\ SelectNext
    <2>1. /\ ~threaded /\ program = "server_select" /\ SpinInv /\ SelInv
          /\ UNCHANGED <<threaded, program, main_pc>>
      BY <1>1, <1>3 DEF Tables
    <2>2. Moves /\ SelInv'
      BY <1>3, <2>1, SelectMoves, SelectKeeps
    <2>3. Tables' /\ \A f \in master_set' : f < FD_SETSIZE'
      BY <2>1, <2>2 DEF Tables, SelInv
    <2> QED
      BY <2>1, <2>2, <2>3, SpinBase
  <1>4. CASE Only({"server_epoll", "reference_server"}) /\ EpollNext
    <2>1. /\ ~threaded /\ program \in {"server_epoll", "reference_server"}
          /\ SpinInv /\ BatchInv /\ EdgeInv
          /\ UNCHANGED <<threaded, program, main_pc, master_set, FD_SETSIZE>>
      BY <1>1, <1>4 DEF Tables
    <2>2. Moves /\ BatchInv' /\ EdgeInv'
      BY <1>4, <2>1, EpollMoves, BatchKeeps, EdgeKeeps
    <2>3. Tables'
      BY <2>1, <2>2 DEF Tables
    <2> QED
      BY <2>1, <2>2, <2>3, SpinBase DEF BaseInv
  <1>5. CASE Blocking(BlockNext)
    <2>1. /\ threaded /\ BlockNext /\ BlockInv
          /\ UNCHANGED <<threaded, program, pc, master_set, FD_SETSIZE>>
      BY <1>5 DEF Blocking, BaseInv, spinOwn, spinVars, selVars
    <2>2. BlockInv'
      BY <2>1, BlockKeeps
    <2>3. EchoStep
      BY <2>1, <2>2, BlockEchoes
    <2> QED
      BY <2>1, <2>2, <2>3 DEF BaseInv
  <1> QED
    BY <1>2, <1>3, <1>4, <1>5, BaseStutters DEF Next

\* Unless accept() meets a full descriptor table, the listener keeps its edge.
LEMMA ListenerStays ==
    ASSUME BaseInv, ListenerInv, pc = "accept" => ~AcceptNoFd, [Next]_allVars
    PROVE  ListenerInv'
  <1>1. CASE Only({"server_epoll", "reference_server"}) /\ EpollNext
    <2>1. SpinInv /\ BatchInv /\ program' = program
      BY <1>1 DEF Only, BaseInv, Tables
    <2> QED
      BY <1>1, <2>1, ListenerKeeps
  <1>2. CASE UNCHANGED allVars
    BY <1>2 DEF allVars, spinOwn, spinVars, epollVars, sockVars, ListenerInv, edge, Batched
  <1>3. CASE Only({"server_poll"}) \/ Only({"server_select"}) \/ Blocking(BlockNext)
    <2>1. program' = program /\ program # "server_epoll"
      BY <1>3 DEF Only, Blocking, BaseInv, spinOwn
    <2> QED
      BY <2>1 DEF ListenerInv, edge
  <1> QED
    BY <1>1, <1>2, <1>3 DEF Next

\* The invariant holds in every state.
LEMMA BaseHolds == Spec => []BaseInv
  <1>1. Init => BaseInv
    BY BaseStarts
  <1>2. BaseInv /\ [Next]_allVars => BaseInv'
    BY BaseKeeps
  <1> QED
    BY <1>1, <1>2, PTL DEF Spec

-----------------------------------------------------------------------------
(***************************************************************************)
(* Each of the five servers implements EchoService: it hangs up only on a  *)
(* client that is gone or has been answered in full, and writes to each    *)
(* what that client sent, in order and without a gap: whatever the clients *)
(* do, however little the sockets take, whichever accept(), realloc(),     *)
(* epoll_ctl() or pthread_create() fails.                                  *)
(***************************************************************************)
THEOREM BaselinesImplementEcho == Spec => ImplementsEcho
  <1>1. Init => BaseInv /\ Echoer!Init
    BY BaseStarts
  <1>2. BaseInv /\ [Next]_allVars => BaseInv' /\ EchoStep
    BY BaseKeeps
  <1>3. EchoStep <=> [Echoer!Next]_(Echoer!echoVars)
    BY DEF EchoStep
  <1> QED
    BY <1>1, <1>2, <1>3, PTL DEF Spec, ImplementsEcho, Echoer!Spec

(***************************************************************************)
(* When server_poll calls poll() its array has the listener first, then    *)
(* each open client exactly once and nothing else, for any number of       *)
(* clients that came and went, in whatever order the slots were emptied,   *)
(* and although realloc() may fail.                                        *)
(***************************************************************************)
THEOREM TableIsExact == Spec => []TableExact
  <1>1. BaseInv => TableExact
    <2> SUFFICES ASSUME BaseInv, program = "server_poll", pc = "loop"
                 PROVE  TableExact
      BY DEF TableExact
    <2>1. TableInv /\ ScanInv
      BY DEF BaseInv, Tables
    <2> QED
      BY <2>1, PollExact DEF TableExact
  <1> QED
    BY <1>1, BaseHolds, PTL

(***************************************************************************)
(* When server_select calls select() the set it passes holds the listener  *)
(* and every open client and max_fd is its greatest descriptor; no         *)
(* descriptor in it is ever too large for an fd_set.                       *)
(***************************************************************************)
THEOREM AllAreWatched == Spec => []WatchesAll
  <1>1. BaseInv => WatchesAll
    <2> SUFFICES ASSUME BaseInv
                 PROVE  WatchesAll
      OBVIOUS
    <2>1. program = "server_select" /\ pc = "loop" => SelInv
      BY DEF BaseInv, Tables
    <2> QED
      BY <2>1, SelectWatches DEF BaseInv, WatchesAll
  <1> QED
    BY <1>1, BaseHolds, PTL

(***************************************************************************)
(* The baseline epoll server sleeps on no lost edge, as long as accept()   *)
(* never finds a client in the queue and no descriptor left.               *)
(***************************************************************************)
THEOREM NoEdgeIsLost == Spec /\ [](pc = "accept" => ~AcceptNoFd) => []NoLostEdge
  <1>1. Init => BaseInv /\ ListenerInv
    BY BaseStarts
  <1>2. BaseInv /\ ListenerInv /\ (pc = "accept" => ~AcceptNoFd) /\ [Next]_allVars
          => BaseInv' /\ ListenerInv'
    BY BaseKeeps, ListenerStays
  <1>3. BaseInv /\ ListenerInv => NoLostEdge
    <2> SUFFICES ASSUME BaseInv, ListenerInv, edge, pc = "loop"
                 PROVE  NoLostEdge
      BY DEF NoLostEdge
    <2>1. BatchInv /\ EdgeInv
      BY DEF BaseInv, Tables, edge
    <2> QED
      BY <2>1, AsleepEdges
  <1> QED
    BY <1>1, <1>2, <1>3, PTL DEF Spec

(***************************************************************************)
(* With a descriptor for every client that may come it never loses one.    *)
(***************************************************************************)
THEOREM NoEdgeIsLostWithEnoughFds ==
    ASSUME IsFiniteSet(Conns), Cardinality(Conns) <= Cardinality(Fds)
    PROVE  Spec => []NoLostEdge
  <1>1. BaseInv => (pc = "accept" => ~AcceptNoFd)
    <2> SUFFICES ASSUME BaseInv, pc = "accept"
                 PROVE  ~AcceptNoFd
      OBVIOUS
    <2>1. SocketsTypeOK /\ OwnerInv
      BY DEF BaseInv, SpinInv
    <2> QED
      BY <2>1, EnoughFds
  <1> QED
    BY <1>1, BaseHolds, NoEdgeIsLost, PTL

(***************************************************************************)
(* Every accepted descriptor of server_blocking has exactly the thread     *)
(* created for the connection behind it, and a closed one has none: for    *)
(* any number of clients and descriptors, however the numbers are reused   *)
(* and whatever malloc(), pthread_create() and accept() answer.            *)
(***************************************************************************)
THEOREM OneThreadForEach == Spec => []OneThreadEach
  <1>1. BaseInv => OneThreadEach
    <2> SUFFICES ASSUME BaseInv, main_pc # "boot"
                 PROVE  OneThreadEach
      BY DEF OneThreadEach
    <2>1. BlockInv
      BY DEF BaseInv, SpinInv
    <2> QED
      BY <2>1, ThreadsMatch
  <1> QED
    BY <1>1, BaseHolds, PTL
=============================================================================
