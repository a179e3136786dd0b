---------------------------- MODULE EpollProofs ----------------------------
(***************************************************************************)
(* Proofs about EpollLt, for every set of connections and descriptors and  *)
(* every value of the limits.                                              *)
(*                                                                         *)
(*   TypeCorrect       Spec => []TypeOK                                    *)
(*   EventsAreCurrent  Spec => []EventsCurrent                             *)
(*   PendingIsArmed    Spec => []PendingArmed                              *)
(*   StatsAreExact     Spec => StatsExact                                  *)
(*                                                                         *)
(* and, for every client that keeps to one of the two protocols of         *)
(* SafeClients,                                                            *)
(*                                                                         *)
(*   EchoIsExact             Spec => []EchoExact                           *)
(*   NothingIsDropped        Spec => []NothingDropped                      *)
(*   EchoServiceImplemented  Spec => ImplementsEcho                        *)
(*                                                                         *)
(* The two programs that vary the loop of EpollLt take CommonNext steps    *)
(* only, so its invariants hold of them; what each adds is proved below.   *)
(*                                                                         *)
(*   LeanEchoIsExact       the lean server's echo is exact                 *)
(*   LeanAccountsForBlocks with any client a block is lost only where one  *)
(*                         with waiting bytes is replaced                  *)
(*   LeanAccountsForBytes  and bytes only there and for want of memory     *)
(*   LeanLeaksNothing      for SafeClients, no block is leaked             *)
(*   LeanImplementsEcho    it implements EchoService                       *)
(*   NoEdgeIsLost          the edge-triggered server never sleeps on work  *)
(*   EtImplementsEcho      it implements EchoService                       *)
(***************************************************************************)
EXTENDS EpollLt, EpollLean, EpollEt, SocketsProofs

-----------------------------------------------------------------------------
(* The steps of all programs that share this event loop.  The level-       *)
(* triggered server is one; the edge-triggered and the lean server differ  *)
(* in which events a wait reports, in what follows an echo, and in whether *)
(* the rest of a short write can be lost.                                  *)

\* epoll_wait() reports some descriptors that are ready.
AnyWait ==
    /\ pc = "wait"
    /\ \E S \in SUBSET Ready : batch' = {EventOf(f) : f \in S}
    /\ pc' = "next"
    /\ UNCHANGED <<sockVars, cur, dataVars, statVars>>

\* After an echo the event is done, or there is another read().
AfterWrite == Done \/ (pc' = "read" /\ UNCHANGED <<batch, cur>>)

AnyWriteAll == EchoAll /\ AfterWrite
AnyWritePart == EchoPart /\ AfterWrite

\* A short write with nowhere to keep the rest.
RestDropped ==
    /\ pc = "write"
    /\ LET c == owner[cur.fd]
           n == IF WriteWouldBlock(c) THEN 0 ELSE WriteLen(c, buf)
       IN  /\ ~WriteFails(c)
           /\ n < Len(buf)
           /\ echo' = [echo EXCEPT ![c] = @ \o SubSeq(buf, 1, n)]
    /\ buf' = <<>>
    /\ AfterWrite
    /\ UNCHANGED <<listening, backlog, phase, owner, cl, rst, sent, taken, got,
                   pend, interest, statVars>>

CommonNext(lossless) ==
    \/ Boot \/ LoopTest \/ Enter \/ AnyWait \/ Dispatch \/ EndBatch \/ Stop
    \/ Accept \/ Flush
    \/ ReadSome \/ ReadStops \/ AnyWriteAll \/ AnyWritePart \/ WriteBroken
    \/ Signal \/ Kill \/ Network
    \/ ~lossless /\ RestDropped

\* The level-triggered server takes such steps only and loses nothing.
LEMMA NextIsCommon == [Next]_vars => [CommonNext(TRUE)]_vars
  <1>1. EpollWait => AnyWait
    BY DEF EpollWait, AnyWait
  <1>2. WriteAll => AnyWriteAll
    BY DEF WriteAll, AnyWriteAll, AfterWrite
  <1>3. WritePart => AnyWritePart
    BY DEF WritePart, AnyWritePart, AfterWrite
  <1> QED
    BY <1>1, <1>2, <1>3 DEF CommonNext, Next, Server, Loop, Serve

-----------------------------------------------------------------------------
(* The inductive invariant, in three parts.                                *)

\* The batch: one event per descriptor, each for the descriptor's present
\* owner, none left for the descriptor in hand.
LoopInv ==
    /\ EventsCurrent
    /\ \A e, d \in batch : e.fd = d.fd => e = d
    /\ \A e \in batch : cur.fd # listen_fd => e.fd # cur.fd
    /\ pc \in {"flush", "read", "write"} <=> cur.fd # listen_fd
    /\ pc \notin {"next", "accept", "flush", "read", "write"} => batch = {}
    /\ pc # "write" => buf = <<>>

\* Registrations: a free descriptor has none and no bytes; an open one has
\* EPOLLIN, and EPOLLOUT exactly when bytes wait, but for the moment between
\* the last write of a flush and the EPOLL_CTL_MOD that follows it.
ArmInv ==
    \A f \in Fds :
        /\ owner[f] = NoConn => interest[f] = {} /\ pend[f] = <<>>
        /\ owner[f] # NoConn =>
              /\ "IN" \in interest[f]
              /\ pend[f] # <<>> => "OUT" \in interest[f]
              /\ "OUT" \in interest[f] =>
                    pend[f] # <<>> \/ (pc = "flush" /\ cur.fd = f)

Inv == TypeOK /\ OwnerInv /\ LoopInv /\ ArmInv

-----------------------------------------------------------------------------
(* Each step preserves the type invariant, given the rest of Inv.          *)

\* write() on a connection with space takes between one byte and all.
LEMMA WriteLenType ==
    ASSUME TypeOK, NEW c \in Conns, NEW d \in Seq(Byte), Space(c) > 0
    PROVE  /\ WriteLen(c, d) \in Nat
           /\ WriteLen(c, d) <= Len(d)
           /\ d # <<>> => WriteLen(c, d) > 0
  BY SocketsAssumption
     DEF TypeOK, SocketsTypeOK, Space, InFlight, WriteLen, Lesser

\* A write() that would not block, on a connection not reset, has room.
LEMMA RoomLeft ==
    ASSUME TypeOK, NEW c \in Conns, ~rst[c], ~WriteWouldBlock(c)
    PROVE  Space(c) > 0
  <1>1. Space(c) \in Int
    <2>1. got[c] \in Nat /\ Len(echo[c]) \in Nat
      BY DEF TypeOK, SocketsTypeOK
    <2> QED
      BY <2>1, SocketsAssumption DEF Space, InFlight
  <1> QED
    BY <1>1 DEF WriteWouldBlock

\* The handler in hand works for a connection that is open.
LEMMA CurOwned ==
    ASSUME TypeOK, LoopInv, pc \in {"flush", "read", "write"}
    PROVE  cur.fd \in Fds /\ owner[cur.fd] \in Conns
  BY DEF TypeOK, SocketsTypeOK, LoopInv, EventsCurrent, Events

\* What a write() that takes less than was read leaves behind.
LEMMA ShortWrite ==
    ASSUME TypeOK, LoopInv, AnyWritePart \/ RestDropped
    PROVE  \E n \in Nat :
             /\ n < Len(buf)
             /\ echo' = [echo EXCEPT ![owner[cur.fd]] = @ \o SubSeq(buf, 1, n)]
             /\ AnyWritePart =>
                   pend' = [pend EXCEPT ![cur.fd] = SubSeq(buf, n + 1, Len(buf))]
             /\ RestDropped => pend' = pend
  <1> DEFINE c == owner[cur.fd]
             n == IF WriteWouldBlock(c) THEN 0 ELSE WriteLen(c, buf)
  <1>1. /\ pc = "write" /\ ~rst[c] /\ n < Len(buf)
        /\ echo' = [echo EXCEPT ![c] = @ \o SubSeq(buf, 1, n)]
    BY DEF AnyWritePart, EchoPart, RestDropped, WriteFails
  <1>2. c \in Conns
    BY <1>1, CurOwned
  <1>3. ~WriteWouldBlock(c) => Space(c) > 0
    BY <1>1, <1>2, RoomLeft
  <1>4. n \in Nat
    BY <1>2, <1>3, WriteLenType DEF TypeOK
  <1>5. AnyWritePart => pend' = [pend EXCEPT ![cur.fd] = SubSeq(buf, n + 1, Len(buf))]
    BY DEF AnyWritePart, EchoPart
  <1>6. RestDropped => pend' = pend
    BY DEF RestDropped
  <1> HIDE DEF n
  <1> QED
    BY <1>1, <1>4, <1>5, <1>6

\* Which is not nothing.
LEMMA RestLeft ==
    ASSUME NEW d \in Seq(Byte), NEW n \in Nat, n < Len(d)
    PROVE  SubSeq(d, n + 1, Len(d)) # <<>>
  <1>1. Len(SubSeq(d, n + 1, Len(d))) = Len(d) - n
    OBVIOUS
  <1>2. Len(d) \in Nat /\ Len(<<>>) = 0
    OBVIOUS
  <1>3. Len(SubSeq(d, n + 1, Len(d))) # 0
    BY <1>1, <1>2
  <1> QED
    BY <1>2, <1>3

\* The constants the actions assign have the types of their variables.
LEMMA ConstantTypes ==
    /\ NoEvent \in Events
    /\ {} \in SUBSET Flags /\ {"IN"} \in SUBSET Flags /\ {"IN", "OUT"} \in SUBSET Flags
    /\ <<>> \in Seq(Byte)
  BY DEF NoEvent, Events, Flags

\* Closing a client's descriptor keeps the types.
LEMMA DropType ==
    ASSUME TypeOK, NEW f \in Fds, owner[f] \in Conns, DropClient(f)
    PROVE  /\ SocketsTypeOK'
           /\ pend' \in [Fds -> Seq(Byte)]
           /\ interest' \in [Fds -> SUBSET Flags]
  <1>1. owner' \in [Fds -> Conns \cup {NoConn}]
    BY DEF TypeOK, SocketsTypeOK, DropClient, CloseFd
  <1>2. phase' \in [Conns -> {"none", "queued", "open", "done"}]
    BY DEF TypeOK, SocketsTypeOK, DropClient, CloseFd
  <1>3. pend' \in [Fds -> Seq(Byte)] /\ interest' \in [Fds -> SUBSET Flags]
    BY ConstantTypes DEF TypeOK, DropClient
  <1> QED
    BY <1>1, <1>2, <1>3 DEF TypeOK, SocketsTypeOK, DropClient

\* Every step preserves the type invariant.
LEMMA TypeStep ==
    ASSUME TypeOK, LoopInv, NEW lossless \in BOOLEAN, [CommonNext(lossless)]_vars
    PROVE  TypeOK'
  <1> USE SocketsAssumption, EpollLtAssumption
  <1>1. CASE Boot
    BY <1>1 DEF TypeOK, SocketsTypeOK, Boot, dataVars, statVars
  <1>2. CASE LoopTest \/ Enter \/ EndBatch
    BY <1>2 DEF TypeOK, SocketsTypeOK, LoopTest, Enter, EndBatch,
                sockVars, dataVars, statVars
  <1>3. CASE Signal
    BY <1>3 DEF TypeOK, SocketsTypeOK, Signal, sockVars, dataVars
  <1>4. CASE Stop \/ Kill
    <2>1. SocketsTypeOK'
      <3>1. ProcessExit
        BY <1>4 DEF Stop, Kill
      <3>2. phase' \in [Conns -> {"none", "queued", "open", "done"}]
        BY <3>1 DEF ProcessExit
      <3>3. backlog' \in Seq(Conns)
        BY <3>1 DEF ProcessExit
      <3> QED
        BY <3>1, <3>2, <3>3 DEF TypeOK, SocketsTypeOK, ProcessExit
    <2>2. /\ pend' \in [Fds -> Seq(Byte)]
          /\ interest' \in [Fds -> SUBSET Flags]
      BY <1>4, ConstantTypes DEF Stop, Kill
    <2>3. buf' \in Seq(Byte) /\ cur' \in Events /\ batch' \subseteq Events
      BY <1>4, ConstantTypes DEF Stop, Kill
    <2> QED
      BY <1>4, <2>1, <2>2, <2>3 DEF TypeOK, Stop, Kill, statVars
  <1>5. CASE AnyWait
    <2>1. \A f \in Ready : EventOf(f) \in Events
      BY DEF TypeOK, SocketsTypeOK, Ready, OpenFds, EventOf, Events, Revents, Flags
    <2> QED
      BY <1>5, <2>1 DEF TypeOK, SocketsTypeOK, AnyWait, sockVars, dataVars, statVars
  <1>6. CASE Dispatch
    BY <1>6 DEF TypeOK, SocketsTypeOK, Dispatch, sockVars, dataVars, statVars
  <1>7. CASE AcceptClient
    <2>1. PICK f \in Fds :
             /\ AcceptAs(f)
             /\ owner' = [owner EXCEPT ![f] = Head(backlog)]
             /\ phase' = [phase EXCEPT ![Head(backlog)] = "open"]
             /\ pend' = [pend EXCEPT ![f] = <<>>]
             /\ interest' = [interest EXCEPT ![f] = {"IN"}]
      BY <1>7 DEF AcceptClient
    <2>2. Head(backlog) \in Conns /\ backlog' \in Seq(Conns)
      BY <2>1 DEF TypeOK, SocketsTypeOK, AcceptAs
    <2>3. SocketsTypeOK'
      BY <1>7, <2>1, <2>2 DEF TypeOK, SocketsTypeOK, AcceptClient
    <2>4. /\ pend' \in [Fds -> Seq(Byte)]
          /\ interest' \in [Fds -> SUBSET Flags]
      BY <2>1, ConstantTypes DEF TypeOK
    <2> QED
      BY <1>7, <2>3, <2>4 DEF TypeOK, AcceptClient, loopVars, statVars
  <1>8. CASE AcceptRefused
    <2>1. PICK f \in Fds :
             /\ AcceptAs(f)
             /\ pend' = IF f < MAX_FDS THEN [pend EXCEPT ![f] = <<>>] ELSE pend
             /\ phase' = [phase EXCEPT ![Head(backlog)] = "done"]
      BY <1>8 DEF AcceptRefused
    <2>2. Head(backlog) \in Conns /\ backlog' \in Seq(Conns)
      BY <2>1 DEF TypeOK, SocketsTypeOK, AcceptAs
    <2>3. SocketsTypeOK'
      BY <1>8, <2>1, <2>2 DEF TypeOK, SocketsTypeOK, AcceptRefused
    <2>4. pend' \in [Fds -> Seq(Byte)]
      BY <2>1, ConstantTypes DEF TypeOK
    <2> QED
      BY <1>8, <2>3, <2>4 DEF TypeOK, AcceptRefused, loopVars, statVars
  <1>9. CASE AcceptStops
    BY <1>9 DEF TypeOK, SocketsTypeOK, AcceptStops, Done, NoEvent, Events, Flags,
                sockVars, dataVars, statVars
  <1>10. CASE FlushWrite
    <2> DEFINE c == owner[cur.fd]
               p == pend[cur.fd]
    <2>1. c \in Conns /\ p \in Seq(Byte) /\ cur.fd \in Fds
      BY <1>10, CurOwned DEF FlushWrite, TypeOK
    <2>2. Space(c) > 0
      BY <1>10 DEF FlushWrite, Write
    <2>3. /\ WriteLen(c, p) \in Nat
          /\ WriteLen(c, p) <= Len(p)
      BY <2>1, <2>2, WriteLenType
    <2>4. /\ SubSeq(p, 1, WriteLen(c, p)) \in Seq(Byte)
          /\ SubSeq(p, WriteLen(c, p) + 1, Len(p)) \in Seq(Byte)
      BY <2>1, <2>3, SubSeqType
    <2>5. echo[c] \o SubSeq(p, 1, WriteLen(c, p)) \in Seq(Byte)
      BY <2>1, <2>4, ConcatType DEF TypeOK, SocketsTypeOK
    <2> QED
      BY <1>10, <2>1, <2>4, <2>5
         DEF TypeOK, SocketsTypeOK, FlushWrite, Write, loopVars, statVars
  <1>11. CASE FlushBlocked \/ FlushDrained
    <2>1. SocketsTypeOK'
      BY <1>11 DEF TypeOK, SocketsTypeOK, FlushBlocked, FlushDrained, sockVars
    <2>2. cur' \in Events
      BY <1>11, ConstantTypes DEF TypeOK, FlushBlocked, FlushDrained
    <2>3. interest' \in [Fds -> SUBSET Flags]
      BY <1>11, ConstantTypes DEF TypeOK, FlushBlocked, FlushDrained, dataVars
    <2>4. pc' \in {"read", "next"}
      BY <1>11 DEF FlushBlocked, FlushDrained, AfterFlush
    <2> QED
      BY <1>11, <2>1, <2>2, <2>3, <2>4
         DEF TypeOK, FlushBlocked, FlushDrained, dataVars, statVars
  <1>12. CASE FlushBroken
    <2>1. cur.fd \in Fds /\ owner[cur.fd] \in Conns
      BY <1>12, CurOwned DEF FlushBroken
    <2> QED
      BY <1>12, <2>1, DropType, ConstantTypes DEF TypeOK, FlushBroken, Done, statVars
  <1>13. CASE ReadSome
    <2> DEFINE c == owner[cur.fd]
    <2>1. c \in Conns
      BY <1>13, CurOwned DEF ReadSome
    <2>2. ReadLen(c) \in Nat /\ taken[c] \in Nat
      BY <1>13, <2>1 DEF ReadSome, ReadLen, Avail, Lesser, TypeOK, SocketsTypeOK
    <2>3. ReadData(c) \in Seq(Byte)
      BY <2>1, <2>2, BytesType DEF ReadData
    <2> QED
      <3>1. taken' \in [Conns -> Nat]
        BY <1>13, <2>1, <2>2 DEF TypeOK, SocketsTypeOK, ReadSome
      <3>2. SocketsTypeOK'
        BY <1>13, <3>1 DEF TypeOK, SocketsTypeOK, ReadSome
      <3>3. g_events' \in Nat /\ buf' \in Seq(Byte)
        BY <1>13, <2>3 DEF TypeOK, ReadSome
      <3> QED
        BY <1>13, <3>2, <3>3 DEF TypeOK, ReadSome
  <1>14. CASE ReadStops
    <2>1. cur.fd \in Fds /\ owner[cur.fd] \in Conns
      BY <1>14, CurOwned DEF ReadStops
    <2>2. /\ SocketsTypeOK'
          /\ pend' \in [Fds -> Seq(Byte)]
          /\ interest' \in [Fds -> SUBSET Flags]
      <3>1. CASE DropClient(cur.fd)
        BY <2>1, <3>1, DropType
      <3>2. CASE UNCHANGED <<sockVars, pend, interest>>
        BY <3>2 DEF TypeOK, SocketsTypeOK, sockVars
      <3> QED
        BY <1>14, <3>1, <3>2 DEF ReadStops
    <2> QED
      BY <1>14, <2>2, ConstantTypes DEF TypeOK, ReadStops, Done, statVars
  <1>15. CASE AnyWriteAll
    <2> DEFINE c == owner[cur.fd]
    <2>1. c \in Conns /\ NoEvent \in Events
      BY <1>15, CurOwned, ConstantTypes DEF AnyWriteAll, EchoAll
    <2>2. echo[c] \o SubSeq(buf, 1, Len(buf)) \in Seq(Byte)
      BY <2>1, SubSeqType, ConcatType DEF TypeOK, SocketsTypeOK
    <2> QED
      BY <1>15, <2>1, <2>2
         DEF TypeOK, SocketsTypeOK, AnyWriteAll, EchoAll, Write, AfterWrite, Done
  <1>16. CASE AnyWritePart \/ RestDropped
    <2> DEFINE c == owner[cur.fd]
    <2>1. c \in Conns /\ cur.fd \in Fds
      BY <1>16, CurOwned DEF AnyWritePart, EchoPart, RestDropped
    <2>2. PICK n \in Nat :
             /\ n < Len(buf)
             /\ echo' = [echo EXCEPT ![c] = @ \o SubSeq(buf, 1, n)]
             /\ \/ pend' = [pend EXCEPT ![cur.fd] = SubSeq(buf, n + 1, Len(buf))]
                \/ pend' = pend
      BY <1>16, ShortWrite
    <2>3. /\ SubSeq(buf, 1, n) \in Seq(Byte)
          /\ SubSeq(buf, n + 1, Len(buf)) \in Seq(Byte)
      BY <2>2, SubSeqType DEF TypeOK
    <2>4. echo[c] \o SubSeq(buf, 1, n) \in Seq(Byte)
      BY <2>1, <2>3, ConcatType DEF TypeOK, SocketsTypeOK
    <2>5. SocketsTypeOK'
      <3>1. echo' \in [Conns -> Seq(Byte)]
        BY <2>1, <2>2, <2>4 DEF TypeOK, SocketsTypeOK
      <3> QED
        BY <1>16, <3>1
           DEF TypeOK, SocketsTypeOK, AnyWritePart, EchoPart, RestDropped
    <2>6. pend' \in [Fds -> Seq(Byte)]
      BY <2>1, <2>2, <2>3 DEF TypeOK
    <2>7. interest' \in [Fds -> SUBSET Flags]
      BY <1>16, <2>1, ConstantTypes DEF TypeOK, AnyWritePart, EchoPart, RestDropped
    <2>8. /\ buf' = <<>> /\ AfterWrite /\ UNCHANGED statVars
      BY <1>16 DEF AnyWritePart, EchoPart, RestDropped
    <2> QED
      BY <2>5, <2>6, <2>7, <2>8, ConstantTypes DEF TypeOK, AfterWrite, Done, statVars
  <1>17. CASE WriteBroken
    <2>1. cur.fd \in Fds /\ owner[cur.fd] \in Conns
      BY <1>17, CurOwned DEF WriteBroken
    <2> QED
      BY <1>17, <2>1, DropType, ConstantTypes DEF TypeOK, WriteBroken, Done, statVars
  <1>18. CASE Network
    <2>1. PICK c \in Conns :
             \/ Connect(c) \/ ClientSend(c) \/ ClientRecv(c)
             \/ ClientShut(c) \/ ClientClose(c) \/ ResetArrives(c)
      BY <1>18 DEF Network
    <2>2. UNCHANGED <<loopVars, dataVars, statVars>>
      BY <1>18 DEF Network
    <2>3. SocketsTypeOK'
      BY <2>1, ClientTypes DEF TypeOK
    <2> QED
      BY <2>2, <2>3 DEF TypeOK, loopVars, dataVars, statVars
  <1>19. CASE UNCHANGED vars
    BY <1>19 DEF TypeOK, SocketsTypeOK, vars, sockVars, loopVars, dataVars, statVars
  <1> QED
    BY <1>1, <1>2, <1>3, <1>4, <1>5, <1>6, <1>7, <1>8, <1>9, <1>10, <1>11, <1>12,
       <1>13, <1>14, <1>15, <1>16, <1>17, <1>18, <1>19
       DEF CommonNext, Accept, Flush

-----------------------------------------------------------------------------
(* Each step preserves the other three parts.                              *)

\* Every step keeps descriptors and the accept queue consistent.
LEMMA OwnerStep ==
    ASSUME TypeOK, OwnerInv, LoopInv, NEW lossless \in BOOLEAN,
           [CommonNext(lossless)]_vars
    PROVE  OwnerInv'
  <1>1. CASE UNCHANGED <<backlog, owner, phase>>
    BY <1>1, SameOwner
  <1>2. CASE Stop \/ Kill
    BY <1>2, ExitTypes DEF Stop, Kill, TypeOK
  <1>3. CASE AcceptClient \/ AcceptRefused
    <2>1. PICK f \in Fds :
             /\ AcceptAs(f)
             /\ \/ /\ owner' = [owner EXCEPT ![f] = Head(backlog)]
                   /\ phase' = [phase EXCEPT ![Head(backlog)] = "open"]
                \/ /\ owner' = owner
                   /\ phase' = [phase EXCEPT ![Head(backlog)] = "done"]
      BY <1>3 DEF AcceptClient, AcceptRefused
    <2> QED
      BY <2>1, AcceptOwner DEF TypeOK
  <1>4. CASE FlushBroken \/ ReadStops \/ WriteBroken
    <2>1. cur.fd \in Fds /\ owner[cur.fd] \in Conns
      BY <1>4, CurOwned DEF FlushBroken, ReadStops, WriteBroken
    <2>2. DropClient(cur.fd) \/ UNCHANGED <<backlog, owner, phase>>
      BY <1>4 DEF FlushBroken, ReadStops, WriteBroken, sockVars
    <2>3. CASE DropClient(cur.fd)
      <3>1. CloseFd(cur.fd) /\ backlog' = backlog
        BY <2>3 DEF DropClient
      <3>2. SocketsTypeOK
        BY DEF TypeOK
      <3> QED
        BY <2>1, <3>1, <3>2, CloseOwner
    <2> QED
      BY <1>1, <2>2, <2>3
  <1>5. CASE Network
    BY <1>5, ClientOwner DEF Network, TypeOK
  <1>6. CASE Boot \/ LoopTest \/ Enter \/ Signal \/ AnyWait \/ Dispatch \/ EndBatch
             \/ AcceptStops \/ FlushWrite \/ FlushBlocked \/ FlushDrained
             \/ ReadSome \/ AnyWriteAll \/ AnyWritePart \/ RestDropped \/ UNCHANGED vars
    BY <1>1, <1>6 DEF Boot, LoopTest, Enter, Signal, AnyWait, Dispatch, EndBatch,
       AcceptStops, FlushWrite, FlushBlocked, FlushDrained, ReadSome, AnyWriteAll, EchoAll,
       AnyWritePart, EchoPart, RestDropped, vars, sockVars
  <1> QED
    BY <1>2, <1>3, <1>4, <1>5, <1>6 DEF CommonNext, Accept, Flush

\* Closing the descriptor in hand makes no event of the batch stale: there
\* is none left for it.
LEMMA DropLoop ==
    ASSUME TypeOK, LoopInv, pc \in {"flush", "read", "write"},
           owner' = [owner EXCEPT ![cur.fd] = NoConn] \/ owner' = owner,
           Done, buf' = <<>>
    PROVE  LoopInv'
  <1>1. /\ batch' = batch /\ pc' = "next" /\ cur'.fd = listen_fd
        /\ cur.fd # listen_fd
    BY DEF Done, NoEvent, LoopInv
  <1>2. ASSUME NEW e \in batch, e.fd # listen_fd
        PROVE  e.who # NoConn /\ owner'[e.fd] = e.who
    <2>1. e.fd \in Fds /\ e.fd # cur.fd
      BY <1>1, <1>2 DEF LoopInv, TypeOK, Events
    <2>2. e.who # NoConn /\ owner[e.fd] = e.who
      BY <1>2 DEF LoopInv, EventsCurrent
    <2> QED
      BY <2>1, <2>2 DEF TypeOK, SocketsTypeOK
  <1>3. EventsCurrent'
    BY <1>1, <1>2 DEF EventsCurrent
  <1> QED
    BY <1>1, <1>3 DEF LoopInv

\* Every step keeps the batch free of stale events.
LEMMA LoopStep ==
    ASSUME TypeOK, OwnerInv, LoopInv, NEW lossless \in BOOLEAN,
           [CommonNext(lossless)]_vars
    PROVE  LoopInv'
  <1> USE SocketsAssumption, EpollLtAssumption
  <1>1. CASE UNCHANGED <<loopVars, owner, buf>>
    BY <1>1 DEF LoopInv, EventsCurrent, loopVars
  <1>2. CASE Boot \/ LoopTest \/ Enter \/ EndBatch \/ Signal
    BY <1>2 DEF LoopInv, EventsCurrent, Boot, LoopTest, Enter, EndBatch, Signal,
       sockVars, dataVars, TypeOK
  <1>3. CASE Stop \/ Kill
    BY <1>3 DEF LoopInv, EventsCurrent, Stop, Kill, NoEvent
  <1>4. CASE AnyWait
    <2>1. PICK S \in SUBSET Ready : batch' = {EventOf(f) : f \in S}
      BY <1>4 DEF AnyWait
    <2>2. \A f \in S : EventOf(f).fd = f
      BY DEF EventOf
    <2>3. \A f \in S : f # listen_fd => /\ EventOf(f).who = owner[f]
                                        /\ owner[f] # NoConn
      BY DEF EventOf, Ready, OpenFds
    <2>4. \A e \in batch' : e.fd # listen_fd =>
             e.who # NoConn /\ owner[e.fd] = e.who
      BY <2>1, <2>2, <2>3
    <2>5. UNCHANGED <<cur, owner, buf>> /\ pc' = "next" /\ pc = "wait"
      BY <1>4 DEF AnyWait, sockVars, dataVars
    <2> QED
      BY <2>4, <2>5, <2>1, <2>2 DEF LoopInv, EventsCurrent
  <1>5. CASE Dispatch
    BY <1>5 DEF Dispatch, LoopInv, EventsCurrent, sockVars, dataVars
  <1>6. CASE AcceptClient
    <2>1. PICK f \in Fds : owner[f] = NoConn /\ \E h : owner' = [owner EXCEPT ![f] = h]
      BY <1>6 DEF AcceptClient, AcceptAs, FreeFds
    <2> QED
      BY <1>6, <2>1
         DEF AcceptClient, LoopInv, EventsCurrent, loopVars, TypeOK, SocketsTypeOK, Events
  <1>7. CASE AcceptStops
    BY <1>7 DEF AcceptStops, Done, NoEvent, LoopInv, EventsCurrent, sockVars, dataVars
  <1>8. CASE FlushBlocked \/ FlushDrained
    BY <1>8 DEF FlushBlocked, FlushDrained, AfterFlush, NoEvent, LoopInv, EventsCurrent,
       sockVars, dataVars
  <1>9. CASE FlushBroken \/ ReadStops \/ WriteBroken
    <2>1. owner' = [owner EXCEPT ![cur.fd] = NoConn] \/ owner' = owner
      BY <1>9 DEF FlushBroken, ReadStops, WriteBroken, DropClient, CloseFd, sockVars
    <2>2. pc \in {"flush", "read", "write"} /\ Done /\ buf' = <<>>
      BY <1>9 DEF FlushBroken, ReadStops, WriteBroken, LoopInv
    <2> QED
      BY <2>1, <2>2, DropLoop
  <1>10. CASE AnyWriteAll \/ AnyWritePart \/ RestDropped
    <2>1. owner' = owner /\ pc = "write" /\ AfterWrite /\ buf' = <<>>
      BY <1>10 DEF AnyWriteAll, EchoAll, AnyWritePart, EchoPart, RestDropped
    <2>2. CASE Done
      BY <2>1, <2>2, DropLoop
    <2>3. CASE pc' = "read" /\ UNCHANGED <<batch, cur>>
      BY <2>1, <2>3 DEF LoopInv, EventsCurrent
    <2> QED
      BY <2>1, <2>2, <2>3 DEF AfterWrite
  <1>11. CASE ReadSome
    BY <1>11 DEF ReadSome, LoopInv, EventsCurrent
  <1>12. CASE Network \/ AcceptRefused \/ FlushWrite \/ UNCHANGED vars
    BY <1>1, <1>12 DEF Network, Connect, ClientSend, ClientRecv, ClientShut, ClientClose,
       ResetArrives, AcceptRefused, FlushWrite, vars, sockVars, dataVars
  <1> QED
    BY <1>2, <1>3, <1>4, <1>5, <1>6, <1>7, <1>8, <1>9, <1>10, <1>11, <1>12
       DEF CommonNext, Accept, Flush

\* Every step keeps the registrations in line with the buffers.
LEMMA ArmStep ==
    ASSUME TypeOK, OwnerInv, LoopInv, ArmInv, NEW lossless \in BOOLEAN,
           [CommonNext(lossless)]_vars
    PROVE  ArmInv'
  <1> USE SocketsAssumption, EpollLtAssumption
  <1>1. CASE /\ UNCHANGED <<owner, pend, interest>>
             /\ (pc' = pc /\ cur' = cur) \/ pc # "flush"
    BY <1>1 DEF ArmInv
  <1>2. CASE Stop \/ Kill
    BY <1>2 DEF ArmInv, Stop, Kill, ProcessExit
  <1>3. CASE AcceptClient
    <2>1. PICK f \in Fds :
             /\ AcceptAs(f)
             /\ owner' = [owner EXCEPT ![f] = Head(backlog)]
             /\ pend' = [pend EXCEPT ![f] = <<>>]
             /\ interest' = [interest EXCEPT ![f] = {"IN"}]
      BY <1>3 DEF AcceptClient
    <2>2. Head(backlog) \in Conns
      BY <2>1 DEF AcceptAs, TypeOK, SocketsTypeOK
    <2>3. pc' = pc /\ cur' = cur
      BY <1>3 DEF AcceptClient, loopVars
    <2> QED
      BY <2>1, <2>2, <2>3 DEF ArmInv, TypeOK, SocketsTypeOK
  <1>4. CASE AcceptRefused
    BY <1>4 DEF AcceptRefused, AcceptAs, FreeFds, ArmInv, loopVars, TypeOK, SocketsTypeOK
  <1>5. CASE FlushWrite
    BY <1>5, CurOwned DEF FlushWrite, ArmInv, loopVars, TypeOK, SocketsTypeOK
  <1>6. CASE FlushBlocked
    BY <1>6, CurOwned DEF FlushBlocked, ArmInv, sockVars, dataVars
  <1>7. CASE FlushDrained
    BY <1>7, CurOwned DEF FlushDrained, ArmInv, sockVars, TypeOK
  <1>8. CASE FlushBroken \/ ReadStops \/ WriteBroken
    <2>1. cur.fd \in Fds /\ owner[cur.fd] \in Conns
      BY <1>8, CurOwned DEF FlushBroken, ReadStops, WriteBroken
    <2>2. CASE DropClient(cur.fd)
      BY <2>1, <2>2 DEF DropClient, CloseFd, ArmInv, TypeOK, SocketsTypeOK
    <2>3. CASE pc = "read" /\ UNCHANGED <<owner, pend, interest>>
      BY <1>1, <2>3
    <2> QED
      BY <1>8, <2>2, <2>3 DEF FlushBroken, ReadStops, WriteBroken, sockVars
  <1>9. CASE AnyWritePart
    <2>1. cur.fd \in Fds /\ owner[cur.fd] \in Conns
      BY <1>9, CurOwned DEF AnyWritePart, EchoPart
    <2>2. PICK n \in Nat :
             /\ n < Len(buf)
             /\ pend' = [pend EXCEPT ![cur.fd] = SubSeq(buf, n + 1, Len(buf))]
      BY <1>9, ShortWrite
    <2>3. SubSeq(buf, n + 1, Len(buf)) # <<>>
      BY <2>2, RestLeft DEF TypeOK
    <2>4. /\ interest' = [interest EXCEPT ![cur.fd] = {"IN", "OUT"}]
          /\ owner' = owner /\ pc = "write"
      BY <1>9 DEF AnyWritePart, EchoPart
    <2> QED
      BY <2>1, <2>2, <2>3, <2>4 DEF ArmInv, TypeOK
  <1>10. CASE \/ Boot \/ LoopTest \/ Enter \/ EndBatch \/ Signal \/ AnyWait \/ Dispatch
              \/ AcceptStops \/ ReadSome \/ AnyWriteAll \/ RestDropped \/ Network
              \/ UNCHANGED vars
    BY <1>1, <1>10 DEF Boot, LoopTest, Enter, EndBatch, Signal, AnyWait, Dispatch,
       AcceptStops, ReadSome, AnyWriteAll, EchoAll, RestDropped, Network, Connect, ClientSend, ClientRecv,
       ClientShut, ClientClose, ResetArrives, vars, sockVars, loopVars, dataVars
  <1> QED
    BY <1>2, <1>3, <1>4, <1>5, <1>6, <1>7, <1>8, <1>9, <1>10
       DEF CommonNext, Accept, Flush

-----------------------------------------------------------------------------
(* The invariant holds initially and the theorems follow.                  *)

\* The initial state satisfies the invariant.
LEMMA InvInit == Init => Inv
  <1> SUFFICES ASSUME Init PROVE Inv
    OBVIOUS
  <1> USE SocketsAssumption, EpollLtAssumption DEF Init, SocketsInit
  <1>1. TypeOK
    <2>1. SocketsTypeOK
      <3>1. backlog \in Seq(Conns) /\ echo \in [Conns -> Seq(Byte)]
        BY ConstantTypes
      <3> QED
        BY <3>1 DEF SocketsTypeOK
    <2>2. pend \in [Fds -> Seq(Byte)] /\ interest \in [Fds -> SUBSET Flags]
      BY ConstantTypes
    <2> QED
      BY <2>1, <2>2, ConstantTypes DEF TypeOK
  <1>2. OwnerInv
    BY DEF OwnerInv, OpenFds
  <1>3. LoopInv /\ ArmInv
    BY DEF LoopInv, EventsCurrent, ArmInv, NoEvent
  <1> QED
    BY <1>1, <1>2, <1>3 DEF Inv

\* Every step of such a program preserves it.
LEMMA InvStep ==
    ASSUME Inv, NEW lossless \in BOOLEAN, [CommonNext(lossless)]_vars
    PROVE  Inv'
  BY TypeStep, OwnerStep, LoopStep, ArmStep DEF Inv

\* Inv is an invariant of the specification, whatever the clients do.
THEOREM Invariance == Spec => []Inv
  <1>1. Inv /\ [Next]_vars => Inv'
    BY NextIsCommon, InvStep
  <1> QED
    BY InvInit, <1>1, PTL DEF Spec

\* Every variable of the server and of the sockets keeps its type.
THEOREM TypeCorrect == Spec => []TypeOK
  BY Invariance, PTL DEF Inv

\* No event is handled for a connection other than the one it was reported
\* for, however descriptors are closed and reused during a batch.
THEOREM EventsAreCurrent == Spec => []EventsCurrent
  BY Invariance, PTL DEF Inv, LoopInv

\* The server never sleeps with unsent bytes and no EPOLLOUT, nor with
\* EPOLLOUT armed and nothing to send.
THEOREM PendingIsArmed == Spec => []PendingArmed
  <1>1. Inv => PendingArmed
    <2> SUFFICES ASSUME Inv, pc = "wait", NEW f \in Fds
                 PROVE  interest[f] = CASE owner[f] = NoConn -> {}
                            [] owner[f] # NoConn /\ pend[f] = <<>> -> {"IN"}
                            [] OTHER -> {"IN", "OUT"}
      BY DEF PendingArmed
    <2>1. interest[f] \subseteq {"IN", "OUT"}
      BY DEF Inv, TypeOK, Flags
    <2> QED
      BY <2>1 DEF Inv, ArmInv
  <1> QED
    BY Invariance, <1>1, PTL

-----------------------------------------------------------------------------
(* The counters of a -DSTATS build.                                        *)

Waiting == {f \in Fds : pend[f] # <<>>}

\* An EPOLLOUT event that is still to be handled is for a descriptor whose
\* bytes still wait, so a flush always begins with something to write and
\* ends with a request to count.
OutInv ==
    \A e \in batch :
        "OUT" \in e.rev => e.fd \in Fds /\ pend[e.fd] # <<>>

\* What EPOLLOUT events promise survives every step.
LEMMA OutStep ==
    ASSUME Inv, OutInv, NEW lossless \in BOOLEAN, [CommonNext(lossless)]_vars
    PROVE  OutInv'
  <1> USE SocketsAssumption, EpollLtAssumption
  <1>0. TypeOK /\ LoopInv /\ ArmInv /\ \A e \in batch : e \in Events
    BY DEF Inv, TypeOK
  <1>1. CASE batch' = {}
    BY <1>1 DEF OutInv
  <1>2. CASE batch' \subseteq batch /\ pend' = pend
    BY <1>2 DEF OutInv
  <1>3. CASE AnyWait
    <2>1. PICK S \in SUBSET Ready : batch' = {EventOf(f) : f \in S}
      BY <1>3 DEF AnyWait
    <2>2. ASSUME NEW f \in S, "OUT" \in EventOf(f).rev
          PROVE  EventOf(f).fd \in Fds /\ pend[EventOf(f).fd] # <<>>
      <3>1. f # listen_fd
        BY <2>2 DEF EventOf
      <3>2. f \in Fds /\ owner[f] # NoConn /\ EventOf(f).fd = f
        BY <2>1, <3>1 DEF EventOf, Ready, OpenFds
      <3>3. "OUT" \in interest[f]
        BY <2>2, <3>1 DEF EventOf, Revents
      <3>4. pc = "wait"
        BY <1>3 DEF AnyWait
      <3> QED
        BY <1>0, <3>2, <3>3, <3>4 DEF ArmInv
    <2>3. pend' = pend
      BY <1>3 DEF AnyWait, dataVars
    <2> QED
      BY <2>1, <2>2, <2>3 DEF OutInv
  <1>4. CASE /\ pc \in {"flush", "read", "write"} /\ batch' = batch
             /\ \A f \in Fds \ {cur.fd} : pend'[f] = pend[f]
    <2>1. \A e \in batch : e.fd # cur.fd
      BY <1>0, <1>4 DEF LoopInv
    <2> QED
      BY <1>4, <2>1 DEF OutInv
  <1>5. CASE AcceptClient \/ AcceptRefused
    <2>1. PICK f \in Fds : /\ owner[f] = NoConn
                           /\ \A g \in Fds \ {f} : pend'[g] = pend[g]
      BY <1>0, <1>5 DEF AcceptClient, AcceptRefused, AcceptAs, FreeFds, TypeOK
    <2>2. batch' = batch
      BY <1>5 DEF AcceptClient, AcceptRefused, loopVars
    <2>3. \A e \in batch : e.fd \in Fds => e.fd # f
      BY <1>0, <2>1 DEF LoopInv, EventsCurrent
    <2> QED
      BY <2>1, <2>2, <2>3 DEF OutInv
  <1>6. CASE Stop \/ Kill
    BY <1>1, <1>6 DEF Stop, Kill
  <1>7. CASE \/ FlushWrite \/ FlushBroken \/ ReadStops \/ AnyWriteAll \/ AnyWritePart
             \/ RestDropped \/ WriteBroken
    <2>1. /\ pc \in {"flush", "read", "write"} /\ batch' = batch
      BY <1>7 DEF FlushWrite, FlushBroken, ReadStops, AnyWriteAll, EchoAll, AnyWritePart,
         EchoPart, RestDropped, AfterWrite, WriteBroken, Done, loopVars
    <2>2. \A f \in Fds \ {cur.fd} : pend'[f] = pend[f]
      BY <1>0, <1>7 DEF FlushWrite, FlushBroken, ReadStops, AnyWriteAll, EchoAll,
         AnyWritePart, EchoPart, RestDropped, WriteBroken, DropClient, TypeOK
    <2> QED
      BY <1>4, <2>1, <2>2
  <1>8. CASE \/ Boot \/ LoopTest \/ Enter \/ Signal \/ Dispatch \/ EndBatch \/ AcceptStops
             \/ FlushBlocked \/ FlushDrained \/ ReadSome \/ Network \/ UNCHANGED vars
    BY <1>2, <1>8 DEF Boot, LoopTest, Enter, Signal, Dispatch, EndBatch, AcceptStops,
       FlushBlocked, FlushDrained, ReadSome, Network, Done, vars, loopVars, dataVars
  <1> QED
    BY <1>3, <1>5, <1>6, <1>7, <1>8 DEF CommonNext, Accept, Flush

\* The buffered echoes are those that wait and the one just drained.
Drained == IF pc = "flush" /\ pend[cur.fd] = <<>> THEN 1 ELSE 0

\* Both numbers are finite, before and after a step.
LEMMA BufferedCount ==
    /\ Buffered = Cardinality(Waiting) + Drained
    /\ Buffered' = Cardinality(Waiting') + Drained'
    /\ Waiting \in SUBSET Fds /\ Waiting' \in SUBSET Fds
    /\ Cardinality(Waiting) \in Nat /\ Cardinality(Waiting') \in Nat
    /\ Buffered \in Nat /\ Buffered' \in Nat
  <1>1. Waiting \in SUBSET Fds /\ Waiting' \in SUBSET Fds
    BY DEF Waiting
  <1>2. Cardinality(Waiting) \in Nat /\ Cardinality(Waiting') \in Nat
    BY <1>1, CountNat
  <1>3. Drained \in {0, 1} /\ Drained' \in {0, 1}
    BY DEF Drained
  <1>4. /\ Buffered = Cardinality(Waiting) + Drained
        /\ Buffered' = Cardinality(Waiting') + Drained'
    BY DEF Buffered, Waiting, Drained
  <1> QED
    BY <1>1, <1>2, <1>3, <1>4

\* A step that neither begins nor ends the buffering of an echo.
LEMMA BufferedSame ==
    ASSUME Inv, OutInv,
           \/ Boot \/ LoopTest \/ Enter \/ AnyWait \/ Dispatch \/ EndBatch \/ Signal
           \/ Accept \/ FlushWrite \/ FlushBlocked \/ ReadSome \/ AnyWriteAll
           \/ RestDropped \/ Network \/ UNCHANGED vars
    PROVE  Buffered' = Buffered
  <1> USE SocketsAssumption, EpollLtAssumption
  <1>1. TypeOK /\ LoopInv /\ ArmInv
    BY DEF Inv
  <1>2. ASSUME Waiting' = Waiting, Drained' = Drained PROVE Buffered' = Buffered
    BY <1>2, BufferedCount
  <1>3. CASE Dispatch
    <2>1. PICK e \in batch : cur' = e /\ (pc' = "flush" => "OUT" \in e.rev)
      BY <1>3 DEF Dispatch
    <2>2. pend' = pend /\ pc = "next"
      BY <1>3 DEF Dispatch, dataVars
    <2>3. Drained = 0 /\ Drained' = 0
      BY <2>1, <2>2 DEF OutInv, Drained
    <2> QED
      BY <1>2, <2>2, <2>3 DEF Waiting
  <1>4. CASE Accept
    <2>1. pc = "accept" /\ pc' \in {"accept", "next"}
      BY <1>4 DEF Accept, AcceptClient, AcceptRefused, AcceptStops, Done, loopVars
    <2>2. pend' = pend \/ \E f \in Fds : owner[f] = NoConn /\ pend' = [pend EXCEPT ![f] = <<>>]
      BY <1>4 DEF Accept, AcceptClient, AcceptRefused, AcceptStops, AcceptAs, FreeFds, dataVars
    <2>3. Waiting' = Waiting
      BY <1>1, <2>2 DEF Waiting, ArmInv, TypeOK
    <2> QED
      BY <1>2, <2>1, <2>3 DEF Drained
  <1>5. CASE FlushWrite
    <2>1. /\ pc = "flush" /\ pc' = pc /\ cur' = cur /\ pend[cur.fd] # <<>>
          /\ \A f \in Fds \ {cur.fd} : pend'[f] = pend[f]
      BY <1>1, <1>5 DEF FlushWrite, loopVars, TypeOK
    <2>2. cur.fd \in Fds /\ cur.fd \in Waiting /\ Drained = 0
      BY <1>1, <2>1, CurOwned DEF Waiting, Drained
    <2>3. CASE pend'[cur.fd] = <<>>
      <3>1. Waiting' = Waiting \ {cur.fd} /\ Drained' = 1
        BY <2>1, <2>2, <2>3 DEF Waiting, Drained
      <3>2. Cardinality(Waiting') = Cardinality(Waiting) - 1
        BY <2>2, <3>1, BufferedCount, CountLeave
      <3> QED
        BY <2>2, <3>1, <3>2, BufferedCount
    <2>4. CASE pend'[cur.fd] # <<>>
      <3>1. Waiting' = Waiting /\ Drained' = 0
        BY <2>1, <2>2, <2>4 DEF Waiting, Drained
      <3> QED
        BY <1>2, <2>2, <3>1
    <2> QED
      BY <2>3, <2>4
  <1>6. CASE FlushBlocked \/ ReadSome \/ AnyWriteAll \/ RestDropped
    <2>1. pend' = pend
      BY <1>6 DEF FlushBlocked, ReadSome, AnyWriteAll, EchoAll, RestDropped, dataVars
    <2>2. Drained = 0
      BY <1>6 DEF FlushBlocked, ReadSome, AnyWriteAll, EchoAll, RestDropped, Drained
    <2>3. pc' # "flush"
      BY <1>6 DEF FlushBlocked, ReadSome, AnyWriteAll, RestDropped, AfterFlush, AfterWrite, Done
    <2> QED
      BY <1>2, <2>1, <2>2, <2>3 DEF Waiting, Drained
  <1>7. CASE \/ Boot \/ LoopTest \/ Enter \/ AnyWait \/ EndBatch \/ Signal
             \/ Network \/ UNCHANGED vars
    <2>1. /\ pend' = pend
          /\ UNCHANGED <<pc, cur>> \/ (pc # "flush" /\ pc' # "flush")
      BY <1>7 DEF Boot, LoopTest, Enter, AnyWait, EndBatch, Signal, Network,
         vars, loopVars, dataVars
    <2> QED
      BY <1>2, <2>1 DEF Waiting, Drained
  <1> QED
    BY <1>3, <1>4, <1>5, <1>6, <1>7

\* A connection that ends takes its buffered echo with it.
LEMMA BufferedDropped ==
    ASSUME Inv, pc \in {"flush", "read", "write"}, Drained = 0, pc' # "flush",
           pend' = [pend EXCEPT ![cur.fd] = <<>>]
    PROVE  Buffered' = Buffered - Held(cur.fd)
  <1>1. cur.fd \in Fds /\ pend \in [Fds -> Seq(Byte)]
    BY CurOwned DEF Inv, TypeOK
  <1>2. Drained' = 0
    BY DEF Drained
  <1>3. CASE pend[cur.fd] = <<>>
    <2>1. Held(cur.fd) = 0 /\ Waiting' = Waiting
      BY <1>1, <1>3 DEF Held, Waiting
    <2> QED
      BY <1>2, <2>1, BufferedCount
  <1>4. CASE pend[cur.fd] # <<>>
    <2>1. /\ Held(cur.fd) = 1 /\ cur.fd \in Waiting
          /\ Waiting' = Waiting \ {cur.fd}
      BY <1>1, <1>4 DEF Held, Waiting
    <2>2. Cardinality(Waiting') = Cardinality(Waiting) - 1
      BY <2>1, BufferedCount, CountLeave
    <2> QED
      BY <1>2, <2>1, <2>2, BufferedCount
  <1> QED
    BY <1>3, <1>4

\* The rest of a short write is buffered in the place of what waits there.
LEMMA BufferedRest ==
    ASSUME Inv, AnyWritePart
    PROVE  Buffered' = Buffered + 1 - Held(cur.fd)
  <1> USE SocketsAssumption, EpollLtAssumption
  <1>1. TypeOK /\ LoopInv /\ pc = "write"
    BY DEF Inv, AnyWritePart, EchoPart
  <1>2. cur.fd \in Fds /\ Drained = 0 /\ Drained' = 0
    BY <1>1, CurOwned DEF AnyWritePart, AfterWrite, Done, Drained
  <1>3. PICK n \in Nat :
           /\ n < Len(buf)
           /\ pend' = [pend EXCEPT ![cur.fd] = SubSeq(buf, n + 1, Len(buf))]
    BY <1>1, ShortWrite
  <1>4. SubSeq(buf, n + 1, Len(buf)) # <<>>
    BY <1>1, <1>3, RestLeft DEF TypeOK
  <1>5. Waiting' = Waiting \cup {cur.fd}
    BY <1>1, <1>2, <1>3, <1>4 DEF Waiting, TypeOK
  <1>6. CASE pend[cur.fd] = <<>>
    <2>1. Held(cur.fd) = 0 /\ cur.fd \notin Waiting
      BY <1>6 DEF Held, Waiting
    <2>2. Cardinality(Waiting') = Cardinality(Waiting) + 1
      BY <1>2, <1>5, <2>1, BufferedCount, CountJoin
    <2> QED
      BY <1>2, <2>1, <2>2, BufferedCount
  <1>7. CASE pend[cur.fd] # <<>>
    <2>1. Held(cur.fd) = 1 /\ Waiting' = Waiting
      BY <1>2, <1>5, <1>7 DEF Held, Waiting
    <2> QED
      BY <1>2, <2>1, BufferedCount
  <1> QED
    BY <1>6, <1>7

\* Every step keeps the books of the counters.
LEMMA StatsStep ==
    ASSUME Inv, OutInv, [Next]_vars, STATS, pc' # "exit"
    PROVE  CountStep
  <1> DEFINE Reading == IF pc = "write" THEN 1 ELSE 0
  <1>1. /\ Abandoned = g_events - g_requests - Buffered - Reading
        /\ Abandoned' = g_events' - g_requests' - Buffered' - Reading'
        /\ g_requests \in Nat /\ g_events \in Nat
        /\ Buffered \in Nat /\ Buffered' \in Nat
        /\ TypeOK /\ LoopInv
    BY BufferedCount DEF Abandoned, Inv, TypeOK
  <1>2. ASSUME UNCHANGED <<g_requests, g_events>>, Buffered' = Buffered, Reading' = Reading
        PROVE  CountStep
    BY <1>1, <1>2 DEF CountStep
  <1>3. ASSUME UNCHANGED <<g_requests, g_events>>, pc \in {"flush", "read", "write"},
               pc' = "next", Drained = 0,
               pend' = [pend EXCEPT ![cur.fd] = <<>>], owner'[cur.fd] = NoConn
        PROVE  CountStep
    <2>1. Buffered' = Buffered - Held(cur.fd) /\ Reading' = 0
      BY <1>3, BufferedDropped
    <2>2. cur.fd \in Fds /\ owner[cur.fd] # NoConn
      BY <1>1, <1>3, CurOwned, SocketsAssumption
    <2>3. CASE Held(cur.fd) = 0 /\ Reading = 0
      BY <1>2, <1>3, <2>1, <2>3, BufferedCount
    <2>4. CASE ~(Held(cur.fd) = 0 /\ Reading = 0)
      <3>1. CutShort(cur.fd)
        BY <1>3, <2>2, <2>4 DEF CutShort, Held
      <3>2. Held(cur.fd) + Reading > 0 /\ Held(cur.fd) \in {0, 1} /\ Reading \in {0, 1}
        BY <2>4 DEF Held
      <3>3. Abandoned' > Abandoned
        BY <1>1, <1>3, <2>1, <3>2
      <3> QED
        BY <2>2, <3>1, <3>3 DEF CountStep
    <2> QED
      BY <2>3, <2>4
  <1>4. CASE \/ Boot \/ LoopTest \/ Enter \/ EpollWait \/ Dispatch \/ EndBatch \/ Signal
             \/ Accept \/ FlushWrite \/ FlushBlocked \/ Network \/ UNCHANGED vars
    <2>1. Buffered' = Buffered
      BY <1>4, BufferedSame DEF EpollWait, AnyWait
    <2>2. UNCHANGED <<g_requests, g_events>>
      BY <1>4 DEF Boot, LoopTest, Enter, EpollWait, Dispatch, EndBatch, Signal, Accept,
         AcceptClient, AcceptRefused, AcceptStops, FlushWrite, FlushBlocked, Network,
         vars, statVars
    <2>3. Reading' = Reading
      BY <1>4 DEF Boot, LoopTest, Enter, EpollWait, Dispatch, EndBatch, Signal, Accept,
         AcceptClient, AcceptRefused, AcceptStops, FlushWrite, FlushBlocked, AfterFlush,
         Done, Network, vars, loopVars
    <2> QED
      BY <1>2, <2>1, <2>2, <2>3
  <1>5. CASE FlushBroken
    <2>1. /\ UNCHANGED <<g_requests, g_events>> /\ pc = "flush" /\ pc' = "next"
          /\ Drained = 0 /\ pend' = [pend EXCEPT ![cur.fd] = <<>>]
          /\ owner' = [owner EXCEPT ![cur.fd] = NoConn]
      BY <1>5 DEF FlushBroken, DropClient, CloseFd, Done, Drained, statVars
    <2> QED
      BY <1>1, <1>3, <2>1, CurOwned DEF TypeOK, SocketsTypeOK
  <1>6. CASE FlushDrained
    <2>1. /\ g_requests' = g_requests + 1 /\ g_events' = g_events /\ pend' = pend
          /\ Drained = 1 /\ pc = "flush" /\ pc' \in {"read", "next"}
      BY <1>6 DEF FlushDrained, AfterFlush, Drained
    <2>2. Drained' = 0 /\ Waiting' = Waiting /\ Reading = 0 /\ Reading' = 0
      BY <2>1 DEF Drained, Waiting
    <2> QED
      BY <1>1, <2>1, <2>2, BufferedCount DEF CountStep
  <1>7. CASE ReadSome
    <2>1. /\ g_requests' = g_requests /\ g_events' = g_events + 1
          /\ Reading = 0 /\ Reading' = 1
      BY <1>7 DEF ReadSome
    <2> QED
      BY <1>1, <1>7, <2>1, BufferedSame DEF CountStep
  <1>8. CASE ReadStops
    <2>1. /\ UNCHANGED <<g_requests, g_events>> /\ pc = "read" /\ pc' = "next"
          /\ Drained = 0 /\ Drained' = 0
      BY <1>8 DEF ReadStops, Done, Drained, statVars
    <2>2. CASE pend' = pend
      BY <1>2, <2>1, <2>2, BufferedCount DEF Waiting
    <2>3. CASE DropClient(cur.fd)
      BY <1>1, <1>3, <2>1, <2>3, CurOwned DEF DropClient, CloseFd, TypeOK, SocketsTypeOK
    <2> QED
      BY <1>8, <2>2, <2>3 DEF ReadStops
  <1>9. CASE WriteAll
    <2>1. /\ g_requests' = g_requests + 1 /\ g_events' = g_events
          /\ Reading = 1 /\ Reading' = 0 /\ AnyWriteAll
      BY <1>9 DEF WriteAll, AnyWriteAll, EchoAll, AfterWrite, Done
    <2> QED
      BY <1>1, <2>1, BufferedSame DEF CountStep
  <1>10. CASE WritePart
    <2>1. /\ UNCHANGED <<g_requests, g_events, owner>> /\ pc = "write"
          /\ Reading = 1 /\ Reading' = 0 /\ AnyWritePart
      BY <1>10 DEF WritePart, AnyWritePart, EchoPart, AfterWrite, Done, statVars
    <2>2. Buffered' = Buffered + 1 - Held(cur.fd)
      BY <2>1, BufferedRest
    <2>3. CASE pend[cur.fd] = <<>>
      BY <1>1, <2>1, <2>2, <2>3 DEF Held, CountStep
    <2>4. CASE pend[cur.fd] # <<>>
      <3>1. Abandoned' > Abandoned
        BY <1>1, <2>1, <2>2, <2>4 DEF Held
      <3>2. cur.fd \in Fds /\ owner[cur.fd] # NoConn
        BY <1>1, <2>1, CurOwned, SocketsAssumption
      <3> QED
        BY <2>1, <2>4, <3>1, <3>2 DEF CutShort, CountStep
    <2> QED
      BY <2>3, <2>4
  <1>11. CASE WriteBroken
    <2>1. /\ UNCHANGED <<g_requests, g_events>> /\ pc = "write" /\ pc' = "next"
          /\ Drained = 0 /\ pend' = [pend EXCEPT ![cur.fd] = <<>>]
          /\ owner' = [owner EXCEPT ![cur.fd] = NoConn]
      BY <1>11 DEF WriteBroken, DropClient, CloseFd, Done, Drained, statVars
    <2> QED
      BY <1>1, <1>3, <2>1, CurOwned DEF TypeOK, SocketsTypeOK
  <1>12. CASE Stop \/ Kill
    BY <1>12 DEF Stop, Kill
  <1> QED
    BY <1>4, <1>5, <1>6, <1>7, <1>8, <1>9, <1>10, <1>11, <1>12
       DEF Next, Server, Loop, Flush, Serve

\* The counters that a -DSTATS build prints: no event and no request of any
\* client is missed or counted twice, whatever was flushed or cut short.
THEOREM StatsAreExact == Spec => StatsExact
  <1>1. Init => OutInv
    BY DEF Init, OutInv
  <1>2. Inv /\ OutInv /\ [Next]_vars => OutInv'
    BY NextIsCommon, OutStep
  <1>3. Inv /\ OutInv /\ [Next]_vars => [STATS /\ pc' # "exit" => CountStep]_vars
    BY StatsStep
  <1> QED
    BY Invariance, <1>1, <1>2, <1>3, PTL DEF Spec, StatsExact

-----------------------------------------------------------------------------
(* The data part of the inductive invariant.                               *)

\* The counters of a connection are ordered and its echo is exact.  A
\* lockstep client has a segment underway only when all before it was
\* echoed and received; a windowed one stays within its window.
ConnOK(c) ==
    /\ got[c] <= Len(echo[c])
    /\ Len(echo[c]) <= taken[c]
    /\ taken[c] <= sent[c]
    /\ echo[c] = Bytes(c, 0, Len(echo[c]))
    /\ phase[c] \in {"none", "queued"} => taken[c] = 0
    /\ Lockstep => (taken[c] < sent[c] => /\ got[c] = taken[c]
                                          /\ sent[c] - taken[c] <= ReqMax)
    /\ ~Lockstep => sent[c] - got[c] <= Window

\* The bytes of an open descriptor that were read and not yet written: in
\* the shared buffer while it is being served, else in client_states.  A
\* server that may lose the rest of a short write loses it only of a lockstep
\* client, which then has nothing more to say.
HandOK(f, c) ==
    /\ pend[f] = <<>>
    /\ buf = Bytes(c, Len(echo[c]), Len(buf))
    /\ taken[c] = Len(echo[c]) + Len(buf)

PendOK(lossless, f, c) ==
    /\ pend[f] = Bytes(c, Len(echo[c]), Len(pend[f]))
    /\ lossless \/ ~Lockstep \/ pend[f] # <<>> =>
          taken[c] = Len(echo[c]) + Len(pend[f])
    /\ ~Lockstep => pend[f] = <<>>

ConnInv == \A c \in Conns : ConnOK(c)
FdInv(lossless) ==
    \A f \in OpenFds :
        IF pc = "write" /\ cur.fd = f THEN HandOK(f, owner[f])
                                     ELSE PendOK(lossless, f, owner[f])

DataInv(lossless) == ConnInv /\ FdInv(lossless)

-----------------------------------------------------------------------------
(* Steps that leave a connection's data alone.                             *)

\* The types of one connection's counters.
LEMMA ConnTypes ==
    ASSUME TypeOK, NEW c \in Conns
    PROVE  /\ sent[c] \in Nat /\ taken[c] \in Nat /\ got[c] \in Nat
           /\ echo[c] \in Seq(Byte) /\ Len(echo[c]) \in Nat
  BY DEF TypeOK, SocketsTypeOK

\* The order of one connection's counters.
LEMMA ConnOrder ==
    ASSUME NEW c \in Conns, ConnOK(c)
    PROVE  /\ got[c] <= Len(echo[c]) /\ Len(echo[c]) <= taken[c] /\ taken[c] <= sent[c]
           /\ Lockstep /\ taken[c] < sent[c] => got[c] = taken[c]
           /\ Lockstep /\ taken[c] < sent[c] => sent[c] - taken[c] <= ReqMax
           /\ ~Lockstep => sent[c] - got[c] <= Window
  BY DEF ConnOK

\* No bytes: the empty run.
LEMMA BytesEmpty ==
    ASSUME NEW c \in Conns, NEW lo \in Nat
    PROVE  Bytes(c, lo, 0) = <<>>
  <1>1. Len(Bytes(c, lo, 0)) = 0 /\ Bytes(c, lo, 0) \in Seq(Byte)
    BY BytesType
  <1> QED
    BY <1>1, EmptySeq

\* ConnOK(c) mentions only c's own state.
LEMMA ConnKept ==
    ASSUME NEW c \in Conns, ConnOK(c),
           sent'[c] = sent[c], taken'[c] = taken[c], echo'[c] = echo[c], got'[c] = got[c],
           phase'[c] \in {"none", "queued"} => phase[c] \in {"none", "queued"}
    PROVE  ConnOK(c)'
  BY DEF ConnOK, Bytes

\* A descriptor keeps its bytes when neither it nor its connection is in hand.
LEMMA PendKept ==
    ASSUME NEW lossless \in BOOLEAN,
           NEW f \in Fds, NEW c \in Conns, PendOK(lossless, f, c),
           pend'[f] = pend[f], echo'[c] = echo[c], taken'[c] = taken[c]
    PROVE  PendOK(lossless, f, c)'
  BY DEF PendOK, Bytes

\* Neither do steps that change nothing a descriptor's bytes depend on.
LEMMA FdsKept ==
    ASSUME NEW lossless \in BOOLEAN,
           TypeOK, FdInv(lossless), UNCHANGED <<taken, echo, owner, pend, pc, cur, buf>>
    PROVE  FdInv(lossless)'
  <1> SUFFICES ASSUME NEW f \in OpenFds'
               PROVE  IF pc' = "write" /\ cur'.fd = f THEN HandOK(f, owner[f])'
                                                      ELSE PendOK(lossless, f, owner[f])'
    BY DEF FdInv
  <1>1. f \in OpenFds /\ f \in Fds /\ owner[f] \in Conns /\ owner'[f] = owner[f]
    BY DEF OpenFds, TypeOK, SocketsTypeOK
  <1>2. CASE pc = "write" /\ cur.fd = f
    <2>1. HandOK(f, owner[f])
      BY <1>1, <1>2 DEF FdInv
    <2> QED
      BY <1>1, <1>2, <2>1 DEF HandOK, Bytes
  <1>3. CASE ~(pc = "write" /\ cur.fd = f)
    <2>1. PendOK(lossless, f, owner[f])
      BY <1>1, <1>3 DEF FdInv
    <2> QED
      BY <1>1, <1>3, <2>1 DEF PendOK, Bytes
  <1> QED
    BY <1>2, <1>3

\* Steps of the loop that touch no data.
LEMMA QuietStep ==
    ASSUME NEW lossless \in BOOLEAN,
           TypeOK, DataInv(lossless), UNCHANGED <<sent, taken, echo, got, phase, owner, pend>>,
           pc # "write", pc' # "write"
    PROVE  DataInv(lossless)'
  <1>1. ConnInv'
    BY ConnKept DEF DataInv, ConnInv
  <1>2. ASSUME NEW f \in OpenFds'
        PROVE  PendOK(lossless, f, owner[f])'
    <2>1. f \in OpenFds /\ f \in Fds /\ owner[f] \in Conns /\ owner'[f] = owner[f]
      BY DEF OpenFds, TypeOK, SocketsTypeOK
    <2>2. PendOK(lossless, f, owner[f])
      BY <2>1 DEF DataInv, FdInv
    <2> QED
      BY <2>1, <2>2 DEF PendOK, Bytes
  <1> QED
    BY <1>1, <1>2 DEF DataInv, FdInv

\* Closing the descriptor in hand leaves the others' data alone.
LEMMA DropStep ==
    ASSUME NEW lossless \in BOOLEAN,
           TypeOK, OwnerInv, LoopInv, DataInv(lossless),
           pc \in {"flush", "read", "write"}, pc' # "write", DropClient(cur.fd)
    PROVE  DataInv(lossless)'
  <1>1. /\ cur.fd \in Fds /\ owner[cur.fd] \in Conns
        /\ owner' = [owner EXCEPT ![cur.fd] = NoConn]
        /\ phase' = [phase EXCEPT ![owner[cur.fd]] = "done"]
        /\ pend' = [pend EXCEPT ![cur.fd] = <<>>]
        /\ UNCHANGED <<sent, taken, echo, got>>
    BY CurOwned DEF DropClient, CloseFd
  <1>2. ConnInv'
    <2> SUFFICES ASSUME NEW c \in Conns PROVE ConnOK(c)'
      BY DEF ConnInv
    <2>1. phase'[c] \in {"none", "queued"} => phase[c] \in {"none", "queued"}
      BY <1>1 DEF TypeOK, SocketsTypeOK
    <2> QED
      BY <1>1, <2>1, ConnKept DEF DataInv, ConnInv
  <1>3. ASSUME NEW f \in OpenFds'
        PROVE  PendOK(lossless, f, owner[f])'
    <2>1. /\ f \in OpenFds /\ f # cur.fd /\ f \in Fds
          /\ owner[f] \in Conns /\ owner'[f] = owner[f] /\ pend'[f] = pend[f]
      BY <1>1 DEF OpenFds, TypeOK, SocketsTypeOK
    <2>2. PendOK(lossless, f, owner[f])
      BY <2>1 DEF DataInv, FdInv
    <2> QED
      BY <1>1, <2>1, <2>2 DEF PendOK, Bytes
  <1> QED
    BY <1>2, <1>3 DEF DataInv, FdInv

-----------------------------------------------------------------------------
(* Steps that write.                                                       *)

\* A write() of the first k bytes of a run d that continues the echo of c:
\* the echo stays exact, and what is left of d continues it.
EchoGrown(c, d, k) ==
    /\ Len(echo'[c]) = Len(echo[c]) + k
    /\ echo'[c] = Bytes(c, 0, Len(echo'[c]))
    /\ SubSeq(d, k + 1, Len(d)) = Bytes(c, Len(echo'[c]), Len(d) - k)
    /\ Len(SubSeq(d, k + 1, Len(d))) = Len(d) - k
    /\ \A e \in Conns \ {c} : echo'[e] = echo[e]

\* What is written and what is kept continue the echo.
LEMMA EchoGrows ==
    ASSUME TypeOK, NEW c \in Conns, ConnOK(c),
           NEW d \in Seq(Byte), d = Bytes(c, Len(echo[c]), Len(d)),
           NEW k \in Nat, k <= Len(d),
           echo' = [echo EXCEPT ![c] = @ \o SubSeq(d, 1, k)]
    PROVE  EchoGrown(c, d, k)
  <1> DEFINE L == Len(echo[c])
             n == Len(d)
             r == SubSeq(d, k + 1, n)
  <1>1. L \in Nat /\ n \in Nat /\ L + k \in Nat /\ n - k \in Nat
    BY ConnTypes
  <1>2. /\ echo[c] = Bytes(c, 0, L)
        /\ d = Bytes(c, L, n)
    BY DEF ConnOK
  <1>3. /\ Bytes(c, 0, L) \o SubSeq(Bytes(c, L, n), 1, k) = Bytes(c, 0, L + k)
        /\ SubSeq(Bytes(c, L, n), k + 1, n) = Bytes(c, L + k, n - k)
    <2>1. k <= n
      OBVIOUS
    <2> HIDE DEF L, n
    <2>2. WriteKeepsRuns(c, L, n, k)
      BY <1>1, <2>1, WriteRun
    <2> QED
      BY <2>2, Zenon DEF WriteKeepsRuns
  <1>4. echo'[c] = echo[c] \o SubSeq(d, 1, k)
    BY DEF TypeOK, SocketsTypeOK
  <1>5. echo'[c] = Bytes(c, 0, L + k) /\ r = Bytes(c, L + k, n - k)
    BY <1>2, <1>3, <1>4, Zenon
  <1>6. Len(Bytes(c, 0, L + k)) = L + k /\ Len(Bytes(c, L + k, n - k)) = n - k
    <2>1. 0 \in Nat
      OBVIOUS
    <2> HIDE DEF L, n
    <2> QED
      BY <1>1, <2>1, BytesType, Zenon
  <1>7. \A e \in Conns \ {c} : echo'[e] = echo[e]
    BY DEF TypeOK, SocketsTypeOK
  <1> QED
    BY <1>5, <1>6, <1>7, Zenon DEF EchoGrown

\* While c's echo grows, the other connections and descriptors keep theirs.
LEMMA OthersKept ==
    ASSUME NEW lossless \in BOOLEAN,
           TypeOK, OwnerInv, DataInv(lossless), NEW f \in OpenFds, cur.fd = f,
           \A e \in Conns \ {owner[f]} : echo'[e] = echo[e] /\ taken'[e] = taken[e],
           UNCHANGED <<sent, got, phase, owner>>,
           \A g \in Fds \ {f} : pend'[g] = pend[g]
    PROVE  /\ \A e \in Conns \ {owner[f]} : ConnOK(e)'
           /\ \A g \in OpenFds' \ {f} : PendOK(lossless, g, owner[g])'
  <1>1. \A e \in Conns \ {owner[f]} : ConnOK(e)'
    BY ConnKept DEF DataInv, ConnInv
  <1>2. ASSUME NEW g \in OpenFds' \ {f}
        PROVE  PendOK(lossless, g, owner[g])'
    <2>1. /\ g \in OpenFds /\ g \in Fds /\ owner[g] \in Conns \ {owner[f]}
          /\ owner'[g] = owner[g]
      BY DEF OpenFds, TypeOK, SocketsTypeOK, OwnerInv
    <2>2. PendOK(lossless, g, owner[g])
      BY <2>1 DEF DataInv, FdInv
    <2> QED
      BY <2>1, <2>2 DEF PendOK, Bytes
  <1> QED
    BY <1>1, <1>2

\* Flushing buffered bytes on EPOLLOUT.
LEMMA FlushStep ==
    ASSUME NEW lossless \in BOOLEAN,
           TypeOK, OwnerInv, LoopInv, DataInv(lossless), FlushWrite
    PROVE  DataInv(lossless)'
  <1>1. PICK f \in Fds, c \in Conns : f = cur.fd /\ c = owner[f]
    BY CurOwned DEF FlushWrite
  <1>2. PICK p \in Seq(Byte) : p = pend[f]
    BY DEF TypeOK
  <1>3. /\ f \in OpenFds /\ p # <<>> /\ Space(c) > 0
        /\ echo' = [echo EXCEPT ![c] = @ \o SubSeq(p, 1, WriteLen(c, p))]
        /\ pend' = [pend EXCEPT ![f] = SubSeq(p, WriteLen(c, p) + 1, Len(p))]
        /\ UNCHANGED <<sent, taken, got, phase, owner, pc, cur>> /\ pc = "flush"
    BY <1>1, <1>2, SocketsAssumption DEF FlushWrite, Write, OpenFds, loopVars
  <1>4. PICK k \in Nat : k = WriteLen(c, p) /\ k <= Len(p)
    BY <1>3, WriteLenType
  <1>5. PendOK(lossless, f, c) /\ ConnOK(c)
    BY <1>1, <1>3 DEF DataInv, FdInv, ConnInv
  <1>6. /\ p = Bytes(c, Len(echo[c]), Len(p))
        /\ taken[c] = Len(echo[c]) + Len(p)
        /\ Lockstep
    BY <1>2, <1>3, <1>5 DEF PendOK
  <1>7. pend'[f] = SubSeq(p, k + 1, Len(p))
    BY <1>3, <1>4 DEF TypeOK
  <1>8. /\ Len(echo'[c]) = Len(echo[c]) + k
        /\ echo'[c] = Bytes(c, 0, Len(echo'[c]))
        /\ pend'[f] = Bytes(c, Len(echo'[c]), Len(p) - k)
        /\ Len(pend'[f]) = Len(p) - k
        /\ \A e \in Conns \ {c} : echo'[e] = echo[e]
    <2>1. /\ echo' = [echo EXCEPT ![c] = @ \o SubSeq(p, 1, k)]
          /\ p \in Seq(Byte) /\ p = Bytes(c, Len(echo[c]), Len(p))
      BY <1>2, <1>3, <1>4, <1>6, Zenon
    <2>2. EchoGrown(c, p, k)
      BY <1>4, <1>5, <2>1, EchoGrows
    <2> QED
      BY <1>7, <2>2, Zenon DEF EchoGrown
  <1>9. Len(p) \in Nat
    OBVIOUS
  <1>10. ConnOK(c)'
    <2>1. /\ got[c] <= Len(echo'[c])
          /\ Len(echo'[c]) <= taken[c]
      BY <1>4, <1>5, <1>6, <1>8, <1>9, ConnTypes DEF ConnOK
    <2> QED
      BY <1>3, <1>5, <1>6, <1>8, <2>1 DEF ConnOK, Bytes
  <1>11. PendOK(lossless, f, c)'
    <2>1. taken'[c] = Len(echo'[c]) + Len(pend'[f])
      <3>1. taken'[c] = Len(echo[c]) + Len(p)
        BY <1>3, <1>6
      <3>2. Len(echo[c]) \in Nat
        BY ConnTypes
      <3> QED
        BY <1>4, <1>8, <1>9, <3>1, <3>2
    <2> QED
      BY <1>6, <1>8, <2>1 DEF PendOK, Bytes
  <1>12. \A g \in Fds \ {f} : pend'[g] = pend[g]
    BY <1>3 DEF TypeOK
  <1>13. /\ \A e \in Conns \ {c} : ConnOK(e)'
         /\ \A g \in OpenFds' \ {f} : PendOK(lossless, g, owner[g])'
    BY <1>1, <1>3, <1>8, <1>12, OthersKept
  <1> QED
    BY <1>1, <1>3, <1>10, <1>11, <1>13 DEF DataInv, ConnInv, FdInv

\* n bytes of t that were taken of s, over e echoed of which g received, fit
\* a socket that takes the client's whole window.
LEMMA WindowFits ==
    ASSUME NEW s \in Nat, NEW t \in Nat, NEW g \in Nat, NEW e \in Nat, NEW n \in Nat,
           NEW w \in Nat, NEW cap \in Nat,
           s - g <= w, t <= s, w <= cap, t = e + n
    PROVE  cap - (e - g) >= n
  OBVIOUS

\* write() of the bytes just read; the rest goes to client_states, which
\* was empty.
LEMMA WriteStep ==
    ASSUME NEW lossless \in BOOLEAN,
           TypeOK, OwnerInv, LoopInv, DataInv(lossless), SafeClients,
           AnyWriteAll \/ AnyWritePart \/ (~lossless /\ RestDropped)
    PROVE  DataInv(lossless)'
  <1>1. PICK f \in Fds, c \in Conns : f = cur.fd /\ c = owner[f]
    BY CurOwned DEF AnyWriteAll, EchoAll, AnyWritePart, EchoPart, RestDropped
  <1>2. /\ f \in OpenFds /\ pc = "write" /\ pc' \in {"next", "read"}
        /\ UNCHANGED <<sent, taken, got, phase, owner>>
    BY <1>1, SocketsAssumption DEF AnyWriteAll, EchoAll, AnyWritePart, EchoPart,
       RestDropped, AfterWrite, Done, OpenFds
  <1>3. HandOK(f, c) /\ ConnOK(c)
    BY <1>1, <1>2 DEF DataInv, FdInv, ConnInv
  <1>4. PICK n \in Nat : n = Len(buf)
    BY DEF TypeOK
  <1>5. /\ buf \in Seq(Byte) /\ buf = Bytes(c, Len(echo[c]), n)
        /\ taken[c] = Len(echo[c]) + n /\ pend[f] = <<>>
    BY <1>3, <1>4 DEF HandOK, TypeOK
  <1>6. ~Lockstep => Space(c) >= n
    <2> SUFFICES ASSUME ~Lockstep PROVE SndCap - (Len(echo[c]) - got[c]) >= n
      BY DEF Space, InFlight
    <2>1. sent[c] - got[c] <= Window /\ taken[c] <= sent[c] /\ Window <= SndCap
      BY <1>3, ConnOrder DEF SafeClients
    <2>2. taken[c] = Len(echo[c]) + n
      BY <1>5
    <2>3. /\ sent[c] \in Nat /\ taken[c] \in Nat /\ got[c] \in Nat
          /\ Len(echo[c]) \in Nat
      BY ConnTypes, Zenon
    <2>4. Window \in Nat /\ SndCap \in Nat
      BY SocketsAssumption
    <2> QED
      BY <2>1, <2>2, <2>3, <2>4, WindowFits, Zenon
  <1>8. \E k \in Nat :
          /\ k <= n
          /\ echo' = [echo EXCEPT ![c] = @ \o SubSeq(buf, 1, k)]
          /\ \/ k = n /\ pend' = pend
             \/ /\ k < n /\ Lockstep
                /\ \/ pend' = [pend EXCEPT ![f] = SubSeq(buf, k + 1, n)]
                   \/ ~lossless /\ pend' = pend
    <2>1. CASE AnyWriteAll
      <3>1. /\ WriteLen(c, buf) = n
            /\ echo' = [echo EXCEPT ![c] = @ \o SubSeq(buf, 1, WriteLen(c, buf))]
            /\ pend' = pend
        BY <1>1, <1>4, <2>1 DEF AnyWriteAll, EchoAll, Write
      <3>2. n <= n
        OBVIOUS
      <3> QED
        BY <3>1, <3>2, Zenon
    <2>2. CASE AnyWritePart \/ (~lossless /\ RestDropped)
      <3>1. PICK k \in Nat :
              /\ k < n
              /\ echo' = [echo EXCEPT ![c] = @ \o SubSeq(buf, 1, k)]
              /\ \/ pend' = [pend EXCEPT ![f] = SubSeq(buf, k + 1, n)]
                 \/ ~lossless /\ pend' = pend
        BY <1>1, <1>4, <2>2, ShortWrite
      <3>2. k <= n
        BY <3>1
      <3>3. Lockstep
        <4>1. SUFFICES ASSUME ~Lockstep PROVE FALSE
          OBVIOUS
        <4>2. /\ (IF WriteWouldBlock(c) THEN 0 ELSE WriteLen(c, buf)) < n
          BY <1>1, <1>4, <2>2 DEF AnyWritePart, EchoPart, RestDropped
        <4>3. Space(c) >= n /\ n > 0
          BY <1>6, <3>1, <4>1
        <4>4. Space(c) \in Int
          BY ConnTypes, SocketsAssumption DEF Space, InFlight
        <4>5. ~WriteWouldBlock(c) /\ WriteLen(c, buf) = n
          BY <1>4, <4>3, <4>4 DEF WriteWouldBlock, WriteLen, Lesser
        <4> QED
          BY <4>2, <4>5
      <3> QED
        BY <3>1, <3>2, <3>3
    <2> QED
      BY <2>1, <2>2
  <1>9. PICK k \in Nat :
          /\ k <= n
          /\ echo' = [echo EXCEPT ![c] = @ \o SubSeq(buf, 1, k)]
          /\ \/ k = n /\ pend' = pend
             \/ /\ k < n /\ Lockstep
                /\ \/ pend' = [pend EXCEPT ![f] = SubSeq(buf, k + 1, n)]
                   \/ ~lossless /\ pend' = pend
    BY <1>8
  <1>10. /\ Len(echo'[c]) = Len(echo[c]) + k
         /\ echo'[c] = Bytes(c, 0, Len(echo'[c]))
         /\ SubSeq(buf, k + 1, n) = Bytes(c, Len(echo'[c]), n - k)
         /\ Len(SubSeq(buf, k + 1, n)) = n - k
         /\ \A e \in Conns \ {c} : echo'[e] = echo[e]
    <2>1. buf = Bytes(c, Len(echo[c]), Len(buf)) /\ k <= Len(buf)
      BY <1>4, <1>5, <1>9, Zenon
    <2>2. echo' = [echo EXCEPT ![c] = @ \o SubSeq(buf, 1, k)]
      BY <1>9
    <2>3. EchoGrown(c, buf, k)
      BY <1>3, <1>5, <2>1, <2>2, EchoGrows
    <2> QED
      BY <1>4, <2>3, Zenon DEF EchoGrown
  <1>11. ConnOK(c)'
    <2>1. /\ got[c] <= Len(echo'[c])
          /\ Len(echo'[c]) <= taken[c]
      BY <1>3, <1>5, <1>9, <1>10, ConnTypes DEF ConnOK
    <2> QED
      BY <1>2, <1>3, <1>10, <2>1 DEF ConnOK, Bytes
  <1>12. PendOK(lossless, f, c)'
    <2>1. CASE k = n /\ pend' = pend
      <3>1. Len(echo'[c]) = taken[c] /\ Len(echo'[c]) \in Nat
        BY <1>5, <1>10, <2>1, ConnTypes
      <3>2. pend'[f] = <<>> /\ Len(pend'[f]) = 0
        BY <1>5, <2>1
      <3>3. pend'[f] = Bytes(c, Len(echo'[c]), Len(pend'[f]))
        BY <3>1, <3>2, BytesEmpty, Zenon
      <3>4. taken'[c] = Len(echo'[c]) + Len(pend'[f])
        BY <1>2, <3>1, <3>2
      <3> QED
        BY <3>2, <3>3, <3>4 DEF PendOK, Bytes
    <2>2. CASE k < n /\ Lockstep /\ pend' = [pend EXCEPT ![f] = SubSeq(buf, k + 1, n)]
      <3>1. pend'[f] = SubSeq(buf, k + 1, n)
        BY <2>2 DEF TypeOK
      <3>2. pend'[f] = Bytes(c, Len(echo'[c]), Len(pend'[f])) /\ Len(pend'[f]) = n - k
        BY <1>10, <3>1, Zenon
      <3>3. taken'[c] = Len(echo'[c]) + Len(pend'[f])
        <4>1. taken'[c] = Len(echo[c]) + n /\ Len(echo'[c]) = Len(echo[c]) + k
          BY <1>2, <1>5, <1>10
        <4>2. Len(echo[c]) \in Nat /\ Len(pend'[f]) = n - k
          BY <3>2, ConnTypes
        <4> QED
          BY <4>1, <4>2
      <3> QED
        BY <2>2, <3>2, <3>3 DEF PendOK, Bytes
    <2>3. CASE Lockstep /\ ~lossless /\ pend' = pend
      <3>1. pend'[f] = <<>> /\ Len(pend'[f]) = 0 /\ Len(echo'[c]) \in Nat
        BY <1>5, <1>10, <2>3, ConnTypes
      <3>2. pend'[f] = Bytes(c, Len(echo'[c]), Len(pend'[f]))
        BY <3>1, BytesEmpty, Zenon
      <3> QED
        BY <2>3, <3>1, <3>2 DEF PendOK, Bytes
    <2> QED
      BY <1>9, <2>1, <2>2, <2>3
  <1>13. \A g \in Fds \ {f} : pend'[g] = pend[g]
    BY <1>9 DEF TypeOK
  <1>14. /\ \A e \in Conns \ {c} : ConnOK(e)'
         /\ \A g \in OpenFds' \ {f} : PendOK(lossless, g, owner[g])'
    BY <1>1, <1>2, <1>10, <1>13, OthersKept
  <1>15. owner'[f] = c
    BY <1>1, <1>2
  <1> QED
    BY <1>2, <1>11, <1>12, <1>14, <1>15 DEF DataInv, ConnInv, FdInv

\* read(): a lockstep client's whole segment, or part of a window; nothing
\* is waiting in client_states.
LEMMA ReadStep ==
    ASSUME NEW lossless \in BOOLEAN,
           TypeOK, OwnerInv, LoopInv, DataInv(lossless), SafeClients, ReadSome
    PROVE  DataInv(lossless)'
  <1>1. PICK f \in Fds, c \in Conns : f = cur.fd /\ c = owner[f]
    BY CurOwned DEF ReadSome
  <1>2. /\ f \in OpenFds /\ pc = "read" /\ pc' = "write" /\ cur' = cur
        /\ Avail(c) > 0
        /\ buf' = Bytes(c, taken[c], ReadLen(c))
        /\ taken' = [taken EXCEPT ![c] = @ + ReadLen(c)]
        /\ UNCHANGED <<sent, echo, got, phase, owner, pend>>
    BY <1>1, SocketsAssumption DEF ReadSome, ReadData, OpenFds
  <1>3. PendOK(lossless, f, c) /\ ConnOK(c)
    BY <1>1, <1>2 DEF DataInv, FdInv, ConnInv
  <1>4. PICK n \in Nat : n = ReadLen(c)
    BY <1>2, ConnTypes, SocketsAssumption DEF ReadLen, Avail, Lesser
  <1>5. /\ n <= sent[c] - taken[c]
        /\ taken[c] < sent[c]
        /\ Lockstep => n = sent[c] - taken[c]
    BY <1>2, <1>3, <1>4, ConnTypes, SocketsAssumption
       DEF ConnOK, SafeClients, ReadLen, Avail, Lesser
  <1>6. pend[f] \in Seq(Byte) /\ Len(pend[f]) \in Nat
    BY DEF TypeOK
  <1>7. Len(pend[f]) = 0 /\ taken[c] = Len(echo[c])
    <2>1. /\ lossless \/ ~Lockstep \/ pend[f] # <<>> =>
                taken[c] = Len(echo[c]) + Len(pend[f])
          /\ ~Lockstep => pend[f] = <<>>
      BY <1>3 DEF PendOK
    <2>2. CASE Lockstep
      <3>1. got[c] = taken[c] /\ got[c] <= Len(echo[c])
        BY <1>3, <1>5, <2>2, ConnOrder
      <3>2. Len(echo[c]) \in Nat /\ Len(pend[f]) \in Nat /\ got[c] \in Nat
        BY <1>6, ConnTypes
      <3>3. Len(echo[c]) <= taken[c]
        BY <1>3, ConnOrder
      <3>4. taken[c] = Len(echo[c])
        BY <3>1, <3>2, <3>3, ConnTypes
      <3>5. pend[f] = <<>>
        <4>1. SUFFICES ASSUME pend[f] # <<>> PROVE FALSE
          OBVIOUS
        <4>2. taken[c] = Len(echo[c]) + Len(pend[f])
          BY <2>1, <4>1, Zenon
        <4>3. \A a, b \in Nat : a = a + b => b = 0
          OBVIOUS
        <4>4. Len(pend[f]) = 0
          BY <3>2, <3>4, <4>2, <4>3, Zenon
        <4> QED
          BY <1>6, <4>1, <4>4, EmptySeq
      <3> QED
        BY <3>4, <3>5, EmptySeq
    <2>3. CASE ~Lockstep
      <3>1. taken[c] = Len(echo[c]) + Len(pend[f]) /\ pend[f] = <<>>
        BY <2>1, <2>3, Zenon
      <3>2. Len(pend[f]) = 0
        BY <3>1, EmptySeq
      <3> QED
        BY <3>1, <3>2, ConnTypes
    <2> QED
      BY <2>2, <2>3
  <1>8. pend'[f] = <<>>
    BY <1>2, <1>6, <1>7, EmptySeq
  <1>9. taken'[c] = taken[c] + n /\ \A e \in Conns \ {c} : taken'[e] = taken[e]
    BY <1>2, <1>4 DEF TypeOK, SocketsTypeOK
  <1>10. HandOK(f, c)'
    <2>1. Len(Bytes(c, taken[c], n)) = n
      BY ConnTypes, BytesType
    <2>2. buf' = Bytes(c, Len(echo[c]), Len(buf')) /\ Len(buf') = n
      BY <1>2, <1>4, <1>7, <2>1, Zenon
    <2> QED
      BY <1>2, <1>7, <1>8, <1>9, <2>2, ConnTypes DEF HandOK, Bytes
  <1>11. ConnOK(c)'
    <2>1. /\ Len(echo[c]) <= taken'[c] /\ taken'[c] <= sent[c]
          /\ Lockstep => taken'[c] = sent[c]
      BY <1>3, <1>5, <1>9, ConnTypes DEF ConnOK
    <2>2. phase[c] \notin {"none", "queued"}
      BY <1>1, <1>2 DEF OwnerInv
    <2>3. sent[c] \in Nat
      BY ConnTypes
    <2> QED
      BY <1>2, <1>3, <2>1, <2>2, <2>3 DEF ConnOK, Bytes
  <1>12. /\ \A e \in Conns \ {c} : ConnOK(e)'
         /\ \A g \in OpenFds' \ {f} : PendOK(lossless, g, owner[g])'
    BY <1>1, <1>2, <1>9, OthersKept
  <1>13. owner'[f] = c /\ cur'.fd = f
    BY <1>1, <1>2
  <1> QED
    BY <1>2, <1>10, <1>11, <1>12, <1>13 DEF DataInv, ConnInv, FdInv

-----------------------------------------------------------------------------
(* Accepting, stopping, and the clients.                                   *)

\* accept() gives a fresh descriptor to a connection nothing was read from.
LEMMA AcceptStep ==
    ASSUME NEW lossless \in BOOLEAN,
           TypeOK, OwnerInv, LoopInv, DataInv(lossless), AcceptClient \/ AcceptRefused
    PROVE  DataInv(lossless)'
  <1> USE SocketsAssumption
  <1>1. PICK f \in Fds, h \in Conns :
          /\ owner[f] = NoConn /\ phase[h] = "queued"
          /\ \/ /\ owner' = [owner EXCEPT ![f] = h]
                /\ phase' = [phase EXCEPT ![h] = "open"]
                /\ pend' = [pend EXCEPT ![f] = <<>>]
             \/ /\ owner' = owner
                /\ phase' = [phase EXCEPT ![h] = "done"]
                /\ pend' = [pend EXCEPT ![f] = <<>>] \/ pend' = pend
    <2>1. /\ backlog # <<>> => Head(backlog) \in Conns /\ 1 \in 1..Len(backlog)
          /\ Head(backlog) = backlog[1]
      BY DEF TypeOK, SocketsTypeOK
    <2>2. backlog # <<>> => phase[Head(backlog)] = "queued"
      BY <2>1 DEF OwnerInv
    <2> QED
      BY <2>1, <2>2 DEF AcceptClient, AcceptRefused, AcceptAs, FreeFds
  <1>2. /\ UNCHANGED <<sent, taken, echo, got, pc, cur>>
        /\ pc = "accept"
    BY DEF AcceptClient, AcceptRefused, loopVars
  <1>3. ConnInv'
    <2> SUFFICES ASSUME NEW c \in Conns PROVE ConnOK(c)'
      BY DEF ConnInv
    <2>1. phase'[c] \in {"none", "queued"} => phase[c] \in {"none", "queued"}
      BY <1>1 DEF TypeOK, SocketsTypeOK
    <2> QED
      BY <1>2, <2>1, ConnKept DEF DataInv, ConnInv
  <1>4. ASSUME NEW g \in OpenFds'
        PROVE  PendOK(lossless, g, owner[g])'
    <2>1. CASE g \in OpenFds
      <3>1. /\ g \in Fds /\ owner[g] \in Conns
            /\ owner'[g] = owner[g] /\ pend'[g] = pend[g]
        BY <1>1, <2>1 DEF OpenFds, TypeOK, SocketsTypeOK
      <3>2. PendOK(lossless, g, owner[g])
        BY <1>2, <2>1 DEF DataInv, FdInv
      <3> QED
        BY <1>2, <3>1, <3>2 DEF PendOK, Bytes
    <2>2. CASE g \notin OpenFds
      <3>1. g = f /\ owner'[g] = h /\ pend'[g] = <<>>
        BY <1>1, <2>2 DEF OpenFds, TypeOK, SocketsTypeOK
      <3>2. taken[h] = 0 /\ Len(echo[h]) = 0
        <4>1. taken[h] = 0
          BY <1>1 DEF DataInv, ConnInv, ConnOK
        <4>2. Len(echo[h]) <= taken[h] /\ Len(echo[h]) \in Nat
          BY ConnTypes, ConnOrder DEF DataInv, ConnInv
        <4> QED
          BY <4>1, <4>2
      <3>3. Bytes(h, 0, 0) = <<>> /\ Len(<<>>) = 0
        BY BytesEmpty
      <3>4. /\ pend'[g] = Bytes(h, Len(echo'[h]), Len(pend'[g]))
            /\ Len(pend'[g]) = 0
        BY <1>2, <3>1, <3>2, <3>3, Zenon
      <3> QED
        BY <1>2, <3>1, <3>2, <3>4 DEF PendOK, Bytes
    <2> QED
      BY <2>1, <2>2
  <1> QED
    BY <1>2, <1>3, <1>4 DEF DataInv, FdInv

\* The process ends: no descriptor is left.
LEMMA ExitStep ==
    ASSUME NEW lossless \in BOOLEAN, TypeOK, DataInv(lossless), Stop \/ Kill
    PROVE  DataInv(lossless)'
  <1>1. /\ UNCHANGED <<sent, taken, echo, got>>
        /\ owner' = [f \in Fds |-> NoConn]
        /\ phase' = [c \in Conns |-> IF phase[c] = "none" THEN "none" ELSE "done"]
    BY DEF Stop, Kill, ProcessExit
  <1>2. OpenFds' = {}
    BY <1>1 DEF OpenFds
  <1>3. ConnInv'
    <2> SUFFICES ASSUME NEW c \in Conns PROVE ConnOK(c)'
      BY DEF ConnInv
    <2>1. phase'[c] \in {"none", "queued"} => phase[c] \in {"none", "queued"}
      BY <1>1
    <2> QED
      BY <1>1, <2>1, ConnKept DEF DataInv, ConnInv
  <1> QED
    BY <1>2, <1>3 DEF DataInv, FdInv

\* The clients keep to their protocol.
LEMMA NetworkStep ==
    ASSUME NEW lossless \in BOOLEAN, TypeOK, DataInv(lossless), Network
    PROVE  DataInv(lossless)'
  <1>1. PICK c \in Conns :
          \/ Connect(c) \/ ClientSend(c) \/ ClientRecv(c)
          \/ ClientShut(c) \/ ClientClose(c) \/ ResetArrives(c)
    BY DEF Network
  <1>2. UNCHANGED <<pc, cur, buf, pend, taken, echo, owner>>
    BY <1>1 DEF Network, Connect, ClientSend, ClientRecv, ClientShut, ClientClose,
       ResetArrives, loopVars, dataVars
  <1>3. FdInv(lossless)'
    BY <1>2, FdsKept DEF DataInv
  <1>4. ASSUME NEW e \in Conns, sent'[e] = sent[e], got'[e] = got[e],
               phase'[e] \in {"none", "queued"} => phase[e] \in {"none", "queued"}
        PROVE  ConnOK(e)'
    BY <1>2, <1>4, ConnKept DEF DataInv, ConnInv
  <1>5. ASSUME NEW e \in Conns, e # c
        PROVE  ConnOK(e)'
    <2>1. sent'[e] = sent[e] /\ got'[e] = got[e] /\ phase'[e] = phase[e]
      BY <1>1, <1>5 DEF Connect, ClientSend, ClientRecv, ClientShut, ClientClose,
         ResetArrives, TypeOK, SocketsTypeOK
    <2> QED
      BY <1>4, <2>1
  <1>6. ConnOK(c)'
    <2>1. CASE Connect(c) \/ ClientShut(c) \/ ClientClose(c) \/ ResetArrives(c)
      <3>1. /\ sent'[c] = sent[c] /\ got'[c] = got[c]
            /\ phase'[c] \in {"none", "queued"} => phase[c] \in {"none", "queued"}
        BY <2>1 DEF Connect, ClientShut, ClientClose, ResetArrives, TypeOK, SocketsTypeOK
      <3> QED
        BY <1>4, <3>1
    <2>2. CASE ClientSend(c)
      <3>1. PICK n \in 1..(MaxBytes - sent[c]) :
               MaySend(c, n) /\ sent' = [sent EXCEPT ![c] = @ + n]
        BY <2>2 DEF ClientSend
      <3>2. /\ sent'[c] = sent[c] + n /\ n \in Nat
            /\ got' = got /\ phase' = phase
        BY <2>2, <3>1, SocketsAssumption DEF ClientSend, TypeOK, SocketsTypeOK
      <3>3. ConnOK(c)
        BY DEF DataInv, ConnInv
      <3>4. taken[c] <= sent'[c]
        BY <3>2, <3>3, ConnOrder, ConnTypes
      <3>5. Lockstep => got[c] = taken[c] /\ sent'[c] - taken[c] <= ReqMax
        <4>1. Lockstep => got[c] = sent[c] /\ n <= ReqMax
          BY <3>1 DEF MaySend
        <4>2. got[c] <= Len(echo[c]) /\ Len(echo[c]) <= taken[c] /\ taken[c] <= sent[c]
          BY <3>3, ConnOrder
        <4> QED
          BY <3>2, <4>1, <4>2, ConnTypes, SocketsAssumption
      <3>6. ~Lockstep => sent'[c] - got[c] <= Window
        <4>1. ~Lockstep => sent[c] + n - got[c] <= Window
          BY <3>1 DEF MaySend
        <4>2. sent'[c] = sent[c] + n
          BY <3>2
        <4> QED
          BY <3>2, <4>1, <4>2, ConnTypes, SocketsAssumption
      <3> QED
        BY <1>2, <3>2, <3>3, <3>4, <3>5, <3>6 DEF ConnOK, Bytes
    <2>3. CASE ClientRecv(c)
      <3>1. /\ got'[c] = got[c] + 1 /\ got[c] < Len(echo[c])
            /\ sent' = sent /\ phase' = phase
        BY <2>3, ConnTypes DEF ClientRecv, InFlight, TypeOK, SocketsTypeOK
      <3>2. ConnOK(c)
        BY DEF DataInv, ConnInv
      <3>3. got'[c] <= Len(echo[c])
        BY <3>1, ConnTypes
      <3>4. ~(Lockstep /\ taken[c] < sent[c])
        BY <3>1, <3>2, ConnOrder, ConnTypes
      <3>5. ~Lockstep => sent[c] - got'[c] <= Window
        <4>1. ~Lockstep => sent[c] - got[c] <= Window
          BY <3>2, ConnOrder
        <4> QED
          BY <3>1, <4>1, ConnTypes, SocketsAssumption
      <3> QED
        BY <1>2, <3>1, <3>2, <3>3, <3>4, <3>5 DEF ConnOK, Bytes
    <2> QED
      BY <1>1, <2>1, <2>2, <2>3
  <1> QED
    BY <1>3, <1>5, <1>6 DEF DataInv, ConnInv

-----------------------------------------------------------------------------
(* The theorems.                                                           *)

\* Every step of the server and of well-behaved clients keeps the data exact.
LEMMA DataStep ==
    ASSUME NEW lossless \in BOOLEAN,
           SafeClients, Inv, DataInv(lossless), [CommonNext(lossless)]_vars
    PROVE  DataInv(lossless)'
  <1> USE DEF Inv
  <1>1. CASE \/ Boot \/ LoopTest \/ Enter \/ EndBatch \/ Signal \/ AnyWait \/ Dispatch
             \/ AcceptStops \/ FlushBlocked \/ FlushDrained
    <2>1. UNCHANGED <<sent, taken, echo, got, phase, owner, pend>>
      BY <1>1 DEF Boot, LoopTest, Enter, EndBatch, Signal, AnyWait, Dispatch,
         AcceptStops, FlushBlocked, FlushDrained, sockVars, dataVars
    <2>2. CASE pc # "write" /\ pc' # "write"
      BY <2>1, <2>2, QuietStep
    <2>3. CASE Signal /\ pc = "write"
      <3>1. UNCHANGED <<pc, cur, buf>>
        BY <2>3 DEF Signal, dataVars
      <3>2. ConnInv'
        BY <2>1, ConnKept DEF DataInv, ConnInv
      <3> QED
        BY <2>1, <3>1, <3>2, FdsKept DEF DataInv
    <2>4. (pc # "write" /\ pc' # "write") \/ (Signal /\ pc = "write")
      BY <1>1 DEF Boot, LoopTest, Enter, EndBatch, Signal, AnyWait, Dispatch,
         AcceptStops, Done, FlushBlocked, FlushDrained, AfterFlush
    <2> QED
      BY <2>2, <2>3, <2>4
  <1>2. CASE FlushBroken \/ ReadStops \/ WriteBroken
    <2>1. pc \in {"flush", "read", "write"} /\ pc' = "next"
      BY <1>2 DEF FlushBroken, ReadStops, WriteBroken, Done
    <2>2. CASE DropClient(cur.fd)
      BY <2>1, <2>2, DropStep
    <2>3. CASE pc = "read" /\ UNCHANGED <<sent, taken, echo, got, phase, owner, pend>>
      BY <2>1, <2>3, QuietStep
    <2> QED
      BY <1>2, <2>2, <2>3 DEF FlushBroken, ReadStops, WriteBroken, sockVars
  <1>3. CASE UNCHANGED vars
    <2>1. /\ UNCHANGED <<sent, got, phase>>
          /\ UNCHANGED <<taken, echo, owner, pend, pc, cur, buf>>
      BY <1>3 DEF vars, sockVars, loopVars, dataVars
    <2>2. ConnInv'
      BY <2>1, ConnKept DEF DataInv, ConnInv
    <2> QED
      BY <2>1, <2>2, FdsKept DEF DataInv
  <1> QED
    BY <1>1, <1>2, <1>3, AcceptStep, ExitStep, FlushStep, ReadStep, WriteStep, NetworkStep
       DEF CommonNext, Accept, Flush

\* Nothing was sent, read or written at the start.
LEMMA DataInit ==
    ASSUME NEW lossless \in BOOLEAN, Init
    PROVE  DataInv(lossless)
  <1>1. ASSUME NEW c \in Conns
        PROVE  ConnOK(c)
    <2>1. /\ sent[c] = 0 /\ taken[c] = 0 /\ got[c] = 0 /\ echo[c] = <<>>
          /\ Len(echo[c]) = 0
      BY DEF Init, SocketsInit
    <2>2. echo[c] = Bytes(c, 0, Len(echo[c]))
      <3>1. 0 \in Nat
        OBVIOUS
      <3> QED
        BY <2>1, <3>1, BytesEmpty, Zenon
    <2> QED
      BY <2>1, <2>2, SocketsAssumption DEF ConnOK
  <1>2. OpenFds = {}
    BY DEF Init, SocketsInit, OpenFds
  <1> QED
    BY <1>1, <1>2 DEF DataInv, ConnInv, FdInv

\* The data invariant of the server with well-behaved clients.
THEOREM DataInvariance == ASSUME SafeClients PROVE Spec => [](Inv /\ DataInv(TRUE))
  <1>1. Inv /\ DataInv(TRUE) /\ [Next]_vars => (Inv /\ DataInv(TRUE))'
    BY NextIsCommon, InvStep, DataStep
  <1>2. Init => Inv /\ DataInv(TRUE)
    BY InvInit, DataInit
  <1> QED
    BY <1>1, <1>2, PTL DEF Spec

\* Exact bytes are an exact echo.
LEMMA ExactEcho ==
    ASSUME NEW lossless \in BOOLEAN, Inv, DataInv(lossless)
    PROVE  EchoExact
  <1> SUFFICES ASSUME NEW c \in Conns, NEW i \in 1..Len(echo[c])
               PROVE  echo[c][i] = <<c, i>>
    BY DEF EchoExact
  <1>1. echo[c] = Bytes(c, 0, Len(echo[c])) /\ Len(echo[c]) \in Nat
    BY ConnTypes DEF Inv, DataInv, ConnInv, ConnOK
  <1>2. Bytes(c, 0, Len(echo[c]))[i] = <<c, i>>
    BY <1>1 DEF Bytes
  <1> QED
    BY <1>1, <1>2

\* The echo of every connection is a prefix of what its client sent.
THEOREM EchoIsExact == ASSUME SafeClients PROVE Spec => []EchoExact
  <1>1. Inv /\ DataInv(TRUE) => EchoExact
    BY ExactEcho
  <1> QED
    BY DataInvariance, <1>1, PTL

\* Every byte read is written, buffered or in hand: none is ever overwritten.
THEOREM NothingIsDropped == ASSUME SafeClients PROVE Spec => []NothingDropped
  <1>1. Inv /\ DataInv(TRUE) => NothingDropped
    <2> SUFFICES ASSUME Inv, DataInv(TRUE), NEW f \in OpenFds
                 PROVE  taken[owner[f]] = Len(echo[owner[f]]) + Len(pend[f]) + InHand(f)
      BY DEF NothingDropped
    <2>1. /\ owner[f] \in Conns
          /\ pend[f] \in Seq(Byte) /\ buf \in Seq(Byte)
      BY DEF Inv, TypeOK, SocketsTypeOK, OpenFds
    <2>2. CASE pc = "write" /\ cur.fd = f
      <3>1. InHand(f) = Len(buf) /\ HandOK(f, owner[f])
        BY <2>2 DEF InHand, DataInv, FdInv
      <3>2. /\ Len(pend[f]) = 0
            /\ taken[owner[f]] = Len(echo[owner[f]]) + Len(buf)
        BY <3>1, EmptySeq DEF HandOK
      <3> QED
        BY <2>1, <3>1, <3>2, ConnTypes DEF Inv
    <2>3. CASE ~(pc = "write" /\ cur.fd = f)
      <3>1. InHand(f) = 0 /\ PendOK(TRUE, f, owner[f])
        BY <2>3 DEF InHand, DataInv, FdInv
      <3>2. taken[owner[f]] = Len(echo[owner[f]]) + Len(pend[f])
        BY <3>1, Zenon DEF PendOK
      <3> QED
        BY <2>1, <3>1, <3>2, ConnTypes DEF Inv
    <2> QED
      BY <2>2, <2>3
  <1> QED
    BY DataInvariance, <1>1, PTL

-----------------------------------------------------------------------------
(* The server implements EchoService.                                      *)

\* How clients leave: a reset comes only from a client that is gone, and a
\* client that has shut down its side had its whole answer.
LeaveInv ==
    \A c \in Conns : /\ rst[c] => cl[c] = "gone"
                     /\ cl[c] = "shut" => got[c] = sent[c]

\* At first nobody has left, and the service starts with the server.
LEMMA LeaveInit ==
    ASSUME Init
    PROVE  LeaveInv /\ Echoer!Init
  BY DEF Init, SocketsInit, LeaveInv, Echoer!Init

\* Clients leave that way when they are polite, or close both sides at once.
LEMMA LeaveStep ==
    ASSUME NEW lossless \in BOOLEAN,
           Polite \/ ~HalfClose, Inv, DataInv(lossless), LeaveInv, [CommonNext(lossless)]_vars
    PROVE  LeaveInv'
  <1>1. CASE UNCHANGED <<rst, cl, got, sent>>
    BY <1>1 DEF LeaveInv
  <1>2. ASSUME NEW c \in Conns,
               \/ Connect(c) \/ ClientSend(c) \/ ClientRecv(c)
               \/ ClientShut(c) \/ ClientClose(c) \/ ResetArrives(c)
        PROVE  LeaveInv'
    <2> USE DEF LeaveInv
    <2>1. CASE Connect(c)
      BY <1>1, <2>1 DEF Connect
    <2>2. CASE ClientSend(c)
      <3>1. /\ cl[c] = "up" /\ UNCHANGED <<rst, cl, got>>
            /\ \A e \in Conns \ {c} : sent'[e] = sent[e]
        BY <2>2 DEF ClientSend, Inv, TypeOK, SocketsTypeOK
      <3> QED
        BY <3>1
    <2>3. CASE ClientRecv(c)
      <3>1. /\ UNCHANGED <<rst, cl, sent>> /\ got[c] < Len(echo[c])
            /\ \A e \in Conns \ {c} : got'[e] = got[e]
        BY <2>3, ConnTypes DEF ClientRecv, InFlight, Inv, TypeOK, SocketsTypeOK
      <3>2. Len(echo[c]) <= taken[c] /\ taken[c] <= sent[c]
        BY ConnOrder DEF DataInv, ConnInv
      <3>3. cl[c] # "shut"
        BY <3>1, <3>2, ConnTypes DEF Inv
      <3> QED
        BY <3>1, <3>3
    <2>4. CASE ClientShut(c)
      <3>1. got[c] = sent[c] /\ cl[c] = "up"
        BY <2>4 DEF ClientShut, MayLeave
      <3>2. cl' = [cl EXCEPT ![c] = "shut"] /\ UNCHANGED <<rst, got, sent>>
        BY <2>4 DEF ClientShut
      <3> QED
        BY <3>1, <3>2 DEF Inv, TypeOK, SocketsTypeOK
    <2>5. CASE ClientClose(c)
      <3>1. PICK r \in BOOLEAN : /\ rst' = [rst EXCEPT ![c] = r]
                                /\ cl' = [cl EXCEPT ![c] = "gone"]
                                /\ UNCHANGED <<got, sent>>
        BY <2>5 DEF ClientClose
      <3> QED
        BY <3>1 DEF Inv, TypeOK, SocketsTypeOK
    <2>6. CASE ResetArrives(c)
      <3>1. /\ cl[c] = "gone" /\ rst' = [rst EXCEPT ![c] = TRUE]
            /\ UNCHANGED <<cl, got, sent>>
        BY <2>6 DEF ResetArrives
      <3> QED
        BY <3>1 DEF Inv, TypeOK, SocketsTypeOK
    <2> QED
      BY <1>2, <2>1, <2>2, <2>3, <2>4, <2>5, <2>6
  <1>3. CASE Network
    BY <1>2, <1>3 DEF Network
  <1>4. CASE ~Network
    <2>1. UNCHANGED <<rst, cl, got, sent>>
      BY <1>4 DEF CommonNext, Boot, Signal, Kill, LoopTest, Enter, AnyWait, Dispatch,
         EndBatch, Stop, ProcessExit, Accept, AcceptClient, AcceptRefused, AcceptStops,
         Flush, FlushWrite, FlushBlocked, FlushBroken, FlushDrained, ReadSome,
         ReadStops, AnyWriteAll, EchoAll, AnyWritePart, EchoPart, RestDropped, WriteBroken,
         DropClient, vars, sockVars
    <2> QED
      BY <1>1, <2>1
  <1> QED
    BY <1>3, <1>4

\* Closing the descriptor in hand is a hang-up of its connection, which is
\* gone or has finished and been answered.
LEMMA DropRefines ==
    ASSUME NEW lossless \in BOOLEAN,
           Inv, DataInv(lossless), LeaveInv, pc \in {"flush", "read", "write"}, DropClient(cur.fd),
           LET c == owner[cur.fd] IN rst[c] \/ (Avail(c) = 0 /\ Eof(c))
    PROVE  \E c \in Conns : Echoer!Hangup(c)
  <1>1. PICK f \in Fds, c \in Conns : f = cur.fd /\ c = owner[f]
    BY CurOwned DEF Inv
  <1>2. /\ phase[c] = "open"
        /\ phase' = [phase EXCEPT ![c] = "done"]
        /\ UNCHANGED <<listening, cl, sent, echo>>
    BY <1>1, SocketsAssumption DEF Inv, OwnerInv, OpenFds, DropClient, CloseFd
  <1>3. cl[c] = "gone" \/ (cl[c] = "shut" /\ Len(echo[c]) = sent[c])
    <2>1. cl[c] = "gone" \/ cl[c] = "shut"
      BY <1>1 DEF LeaveInv, Eof, Inv, TypeOK, SocketsTypeOK
    <2>2. cl[c] = "shut" => got[c] = sent[c]
      BY DEF LeaveInv
    <2>3. got[c] <= Len(echo[c]) /\ Len(echo[c]) <= taken[c] /\ taken[c] <= sent[c]
      BY ConnOrder DEF DataInv, ConnInv
    <2> QED
      BY <2>1, <2>2, <2>3, ConnTypes DEF Inv
  <1> QED
    BY <1>2, <1>3 DEF Echoer!Hangup

\* A write that kept the data exact is a step of the echo, or none if the
\* socket took nothing.
LEMMA EchoRefines ==
    ASSUME NEW lossless \in BOOLEAN,
           Inv, DataInv(lossless), DataInv(lossless)', TypeOK', pc \in {"flush", "write"},
           NEW d \in Seq(Byte),
           echo' = [echo EXCEPT ![owner[cur.fd]] = @ \o d],
           UNCHANGED <<listening, phase, owner, cl, sent>>
    PROVE  (\E c \in Conns : Echoer!Echo(c)) \/ UNCHANGED Echoer!echoVars
  <1>1. PICK f \in Fds, c \in Conns : f = cur.fd /\ c = owner[f]
    BY CurOwned DEF Inv
  <1>2. phase[c] = "open"
    BY <1>1, SocketsAssumption DEF Inv, OwnerInv, OpenFds
  <1>3. /\ echo[c] \in Seq(Byte) /\ echo'[c] = echo[c] \o d
        /\ Len(echo'[c]) = Len(echo[c]) + Len(d)
    <2>1. echo \in [Conns -> Seq(Byte)]
      BY DEF Inv, TypeOK, SocketsTypeOK
    <2>2. echo[c] \in Seq(Byte) /\ echo'[c] = echo[c] \o d
      BY <1>1, <2>1
    <2>3. Len(echo[c] \o d) = Len(echo[c]) + Len(d)
      BY <2>2, ConcatType
    <2> QED
      BY <2>2, <2>3
  <1>4. PICK n \in Nat : n = Len(echo'[c])
    BY <1>3
  <1>5. /\ echo'[c] = Bytes(c, 0, n)
        /\ n <= sent[c]
    <2>1. ConnOK(c)'
      BY DEF DataInv, ConnInv
    <2>2. echo'[c] = Bytes(c, 0, n)
      BY <1>4, <2>1 DEF ConnOK, Bytes
    <2>3. n <= taken'[c] /\ taken'[c] <= sent[c]
      BY <1>4, <2>1 DEF ConnOK
    <2>4. taken'[c] \in Nat /\ sent[c] \in Nat
      BY DEF Inv, TypeOK, SocketsTypeOK
    <2> QED
      BY <2>2, <2>3, <2>4
  <1>6. echo' = [echo EXCEPT ![c] = [i \in 1..n |-> <<c, i>>]]
    <2>1. Bytes(c, 0, n) = [i \in 1..n |-> <<c, i>>]
      BY DEF Bytes
    <2>2. echo' = [echo EXCEPT ![c] = echo'[c]]
      BY <1>1, <1>3 DEF Inv, TypeOK, SocketsTypeOK
    <2> QED
      BY <1>5, <2>1, <2>2
  <1>7. CASE d = <<>>
    <2>1. echo'[c] = echo[c]
      BY <1>3, <1>7
    <2>2. echo' = echo
      BY <1>1, <1>3, <2>1 DEF Inv, TypeOK, SocketsTypeOK
    <2> QED
      BY <2>2 DEF Echoer!echoVars
  <1>8. CASE d # <<>>
    <2>1. n \in (Len(echo[c]) + 1)..sent[c]
      <3>1. Len(d) > 0
        BY <1>8
      <3> QED
        BY <1>3, <1>4, <1>5, <3>1, ConnTypes DEF Inv
    <2> QED
      BY <1>2, <1>6, <2>1 DEF Echoer!Echo
  <1> QED
    BY <1>7, <1>8

\* Every step of the server is a step of the echo service, or none.
LEMMA EchoStep ==
    ASSUME NEW lossless \in BOOLEAN,
           Inv, DataInv(lossless), LeaveInv, Inv', DataInv(lossless)', Polite \/ ~HalfClose, [CommonNext(lossless)]_vars
    PROVE  [Echoer!Next]_(Echoer!echoVars)
  <1> USE DEF Inv
  <1>1. CASE UNCHANGED <<listening, phase, cl, sent, echo>>
    BY <1>1 DEF Echoer!echoVars
  <1>2. CASE Boot
    <2>1. listening' = TRUE \/ listening' = listening
      BY <1>2 DEF Boot
    <2> QED
      BY <1>1, <1>2, <2>1 DEF Boot, Echoer!Start, Echoer!Next
  <1>3. CASE Stop \/ Kill
    BY <1>3 DEF Stop, Kill, ProcessExit, Echoer!Shutdown, Echoer!Next
  <1>4. CASE AcceptClient \/ AcceptRefused
    <2> DEFINE h == Head(backlog)
    <2>1. /\ backlog # <<>>
          /\ \E p \in {"open", "done"} : phase' = [phase EXCEPT ![h] = p]
          /\ UNCHANGED <<listening, cl, sent, echo>>
      BY <1>4 DEF AcceptClient, AcceptRefused, AcceptAs
    <2>2. h \in Conns /\ phase[h] = "queued"
      <3>1. backlog \in Seq(Conns)
        BY DEF TypeOK, SocketsTypeOK
      <3>2. h = backlog[1] /\ h \in Conns /\ 1 \in 1..Len(backlog)
        BY <2>1, <3>1
      <3> QED
        BY <3>2 DEF OwnerInv
    <2> QED
      BY <2>1, <2>2 DEF Echoer!Admit, Echoer!Next
  <1>5. CASE FlushBroken \/ ReadStops \/ WriteBroken
    <2>1. CASE ReadStops /\ ReadWouldBlock(owner[cur.fd])
      BY <1>1, <2>1 DEF ReadStops, sockVars
    <2>2. CASE ReadStops /\ ~ReadWouldBlock(owner[cur.fd])
      BY <2>2, DropRefines DEF ReadStops, ReadWouldBlock, Readable, Echoer!Next
    <2>3. CASE FlushBroken \/ WriteBroken
      BY <2>3, DropRefines DEF FlushBroken, WriteBroken, WriteFails, Echoer!Next
    <2> QED
      BY <1>5, <2>1, <2>2, <2>3
  <1>6. CASE FlushWrite \/ AnyWriteAll \/ AnyWritePart \/ RestDropped
    <2>1. /\ pc \in {"flush", "write"}
          /\ UNCHANGED <<listening, phase, owner, cl, sent>>
      BY <1>6 DEF FlushWrite, AnyWriteAll, EchoAll, AnyWritePart, EchoPart, RestDropped
    <2>2. \E d \in Seq(Byte) : echo' = [echo EXCEPT ![owner[cur.fd]] = @ \o d]
      <3>1. cur.fd \in Fds /\ owner[cur.fd] \in Conns
        BY <2>1, CurOwned
      <3> DEFINE c == owner[cur.fd]
      <3>2. /\ buf \in Seq(Byte) /\ pend[cur.fd] \in Seq(Byte)
            /\ echo[c] \in Seq(Byte)
        BY <3>1 DEF TypeOK, SocketsTypeOK
      <3>3. \E b \in {buf, pend[cur.fd]} : \E k \in {0, WriteLen(c, b)} :
               /\ echo' = [echo EXCEPT ![c] = @ \o SubSeq(b, 1, k)]
               /\ k # 0 => Space(c) > 0
        <4>1. CASE FlushWrite
          BY <4>1 DEF FlushWrite, Write
        <4>2. CASE AnyWriteAll
          BY <4>2 DEF AnyWriteAll, EchoAll, Write
        <4>3. CASE AnyWritePart \/ RestDropped
          <5>1. ~WriteWouldBlock(c) => Space(c) > 0
            BY <3>1, <4>3, RoomLeft DEF AnyWritePart, EchoPart, RestDropped, WriteFails
          <5> QED
            BY <4>3, <5>1 DEF AnyWritePart, EchoPart, RestDropped
        <4> QED
          BY <1>6, <4>1, <4>2, <4>3
      <3>4. PICK b \in {buf, pend[cur.fd]} : \E k \in {0, WriteLen(c, b)} :
               /\ echo' = [echo EXCEPT ![c] = @ \o SubSeq(b, 1, k)]
               /\ k # 0 => Space(c) > 0
        BY <3>3
      <3>5. PICK k \in {0, WriteLen(c, b)} :
               /\ echo' = [echo EXCEPT ![c] = @ \o SubSeq(b, 1, k)]
               /\ k # 0 => Space(c) > 0
        BY <3>4
      <3>6. k \in Nat /\ k <= Len(b)
        <4>1. CASE k = 0
          BY <3>2, <4>1
        <4>2. CASE k # 0
          BY <3>1, <3>2, <3>5, <4>2, WriteLenType
        <4> QED
          BY <4>1, <4>2
      <3>7. SubSeq(b, 1, k) \in Seq(Byte)
        BY <3>2, <3>6, SubSeqType
      <3> QED
        BY <3>5, <3>7
    <2> QED
      BY <2>1, <2>2, EchoRefines DEF Echoer!Next
  <1>7. ASSUME NEW c \in Conns,
               \/ Connect(c) \/ ClientSend(c) \/ ClientRecv(c)
               \/ ClientShut(c) \/ ClientClose(c) \/ ResetArrives(c)
        PROVE  [Echoer!Next]_(Echoer!echoVars)
    <2>1. CASE Connect(c)
      BY <2>1 DEF Connect, Echoer!Arrive, Echoer!Next
    <2>2. CASE ClientSend(c)
      <3>1. PICK n \in 1..(MaxBytes - sent[c]) : sent' = [sent EXCEPT ![c] = @ + n]
        BY <2>2 DEF ClientSend
      <3>2. sent'[c] > sent[c] /\ sent' = [sent EXCEPT ![c] = sent'[c]]
        BY <3>1 DEF TypeOK, SocketsTypeOK
      <3>3. /\ phase[c] \in {"queued", "open"} /\ cl[c] = "up"
            /\ UNCHANGED <<listening, phase, cl, echo>>
        BY <2>2 DEF ClientSend, Connected
      <3> QED
        BY <3>2, <3>3 DEF Echoer!Send, Echoer!Next
    <2>3. CASE ClientRecv(c) \/ ResetArrives(c)
      BY <1>1, <2>3 DEF ClientRecv, ResetArrives
    <2>4. CASE ClientShut(c)
      BY <2>4 DEF ClientShut, MayLeave, Connected, Echoer!Leave, Echoer!Next
    <2>5. CASE ClientClose(c)
      BY <2>5 DEF ClientClose, MayLeave, Connected, Echoer!Leave, Echoer!Next
    <2> QED
      BY <1>7, <2>1, <2>2, <2>3, <2>4, <2>5
  <1>8. CASE Network
    BY <1>7, <1>8 DEF Network
  <1>9. CASE \/ LoopTest \/ Enter \/ AnyWait \/ Dispatch \/ EndBatch \/ Signal
             \/ AcceptStops \/ FlushBlocked \/ FlushDrained \/ ReadSome \/ UNCHANGED vars
    BY <1>1, <1>9 DEF LoopTest, Enter, AnyWait, Dispatch, EndBatch, Signal, AcceptStops,
       FlushBlocked, FlushDrained, ReadSome, vars, sockVars
  <1> QED
    BY <1>2, <1>3, <1>4, <1>5, <1>6, <1>8, <1>9 DEF CommonNext, Accept, Flush

\* For clients that keep to one of the two protocols, and that do not shut
\* down one side with an answer outstanding, the level-triggered server is
\* an echo service: every step of its loop is one of the service's, or none.
THEOREM EchoServiceImplemented ==
    ASSUME SafeClients, Polite \/ ~HalfClose
    PROVE  Spec => ImplementsEcho
  <1>1. Init => Inv /\ DataInv(TRUE) /\ LeaveInv /\ Echoer!Init
    BY InvInit, DataInit, LeaveInit
  <1>2. /\ Inv /\ DataInv(TRUE) /\ LeaveInv /\ [Next]_vars
        => Inv' /\ DataInv(TRUE)' /\ LeaveInv'
    BY NextIsCommon, InvStep, DataStep, LeaveStep
  <1>3. /\ Inv /\ DataInv(TRUE) /\ LeaveInv /\ Inv' /\ DataInv(TRUE)' /\ [Next]_vars
        => [Echoer!Next]_(Echoer!echoVars)
    BY NextIsCommon, EchoStep
  <1> QED
    BY <1>1, <1>2, <1>3, PTL DEF Spec, ImplementsEcho, Echoer!Spec

-----------------------------------------------------------------------------
(* The lean server.                                                        *)

\* Its steps, the heap apart: without memory the rest of an echo is lost.
LEMMA LeanIsCommon == [LeanNext]_leanVars => [CommonNext(FALSE)]_vars
  <1> SUFFICES ASSUME [LeanNext]_leanVars PROVE [CommonNext(FALSE)]_vars
    OBVIOUS
  <1>1. EpollWait => AnyWait
    BY DEF EpollWait, AnyWait
  <1>2. WriteAll => AnyWriteAll
    BY DEF WriteAll, AnyWriteAll, AfterWrite
  <1>3. WritePart => AnyWritePart
    BY DEF WritePart, AnyWritePart, AfterWrite
  <1>4. LeanNoMemory => RestDropped
    BY DEF LeanNoMemory, RestDropped, AfterWrite
  <1> QED
    BY <1>1, <1>2, <1>3, <1>4
       DEF CommonNext, LeanNext, LeanBoot, LeanLoop, LeanExit, LeanAccept, LeanFlush,
           LeanRead, LeanWrite, LeanNetwork, Accept, Flush, leanVars

\* With any client, a step frees the block of the echo it ends, or adds one
\* for the rest of a short write, which may replace a block.
LEMMA HeapStep ==
    ASSUME Inv, OutInv, heap \in Int, [LeanNext]_leanVars
    PROVE  BlockStep /\ heap' \in Int
  <1>1. /\ Leaked = heap - Buffered /\ Leaked' = heap' - Buffered'
        /\ Buffered \in Nat /\ Buffered' \in Nat
        /\ TypeOK /\ LoopInv
    BY BufferedCount DEF Leaked, Inv
  <1>2. ASSUME heap' = heap, Buffered' = Buffered PROVE BlockStep /\ heap' \in Int
    BY <1>1, <1>2 DEF BlockStep
  <1>3. ASSUME heap' = heap - Held(cur.fd), pc \in {"flush", "read", "write"},
               Drained = 0, pc' # "flush", pend' = [pend EXCEPT ![cur.fd] = <<>>]
        PROVE  BlockStep /\ heap' \in Int
    <2>1. Held(cur.fd) \in {0, 1} /\ Buffered' = Buffered - Held(cur.fd)
      BY <1>3, BufferedDropped DEF Held
    <2> QED
      BY <1>1, <1>3, <2>1 DEF BlockStep
  <1>4. CASE /\ heap' = heap
             /\ \/ Boot \/ LoopTest \/ Enter \/ EpollWait \/ Dispatch \/ EndBatch \/ Signal
                \/ Accept \/ FlushWrite \/ FlushBlocked \/ ReadSome \/ WriteAll
                \/ LeanNoMemory \/ Network \/ UNCHANGED vars
    <2>1. EpollWait => AnyWait
      BY DEF EpollWait, AnyWait
    <2>2. WriteAll => AnyWriteAll
      BY DEF WriteAll, AnyWriteAll, AfterWrite
    <2>3. LeanNoMemory => RestDropped
      BY DEF LeanNoMemory, RestDropped, AfterWrite
    <2>4. Buffered' = Buffered
      BY <1>4, <2>1, <2>2, <2>3, BufferedSame
    <2> QED
      BY <1>2, <1>4, <2>4
  <1>5. CASE LeanExit
    <2>1. heap' = 0 /\ pc' = "exit" /\ Waiting' = {} /\ Drained' = 0
      BY <1>5 DEF LeanExit, Stop, Kill, Waiting, Drained
    <2>2. Leaked' = 0
      BY <1>1, <2>1, BufferedCount, FS_EmptySet
    <2> QED
      BY <2>1, <2>2 DEF BlockStep
  <1>6. CASE FlushDrained /\ heap' = heap - 1
    <2>1. pend' = pend /\ Drained = 1 /\ pc' # "flush"
      BY <1>6 DEF FlushDrained, AfterFlush, Drained
    <2>2. Waiting' = Waiting /\ Drained' = 0
      BY <2>1 DEF Waiting, Drained
    <2> QED
      BY <1>1, <1>6, <2>1, <2>2, BufferedCount DEF BlockStep
  <1>7. CASE FlushBroken /\ heap' = heap - 1
    <2>1. /\ pc = "flush" /\ pend' = [pend EXCEPT ![cur.fd] = <<>>]
          /\ Held(cur.fd) = 1 /\ Drained = 0 /\ pc' # "flush"
      BY <1>7 DEF FlushBroken, DropClient, Done, Held, Drained
    <2> QED
      BY <1>3, <1>7, <2>1
  <1>8. CASE ReadStops /\ heap' = IF Readable(owner[cur.fd]) THEN heap - Held(cur.fd) ELSE heap
    <2>1. pc = "read" /\ pc' = "next" /\ Drained = 0 /\ Drained' = 0
      BY <1>8 DEF ReadStops, Done, Drained
    <2>2. CASE heap' = heap /\ pend' = pend
      BY <1>2, <2>1, <2>2, BufferedCount DEF Waiting
    <2>3. CASE heap' = heap - Held(cur.fd) /\ pend' = [pend EXCEPT ![cur.fd] = <<>>]
      BY <1>3, <2>1, <2>3
    <2> QED
      BY <1>8, <2>2, <2>3 DEF ReadStops, ReadWouldBlock, DropClient
  <1>9. CASE WriteBroken /\ heap' = heap - Held(cur.fd)
    <2>1. /\ pc = "write" /\ pc' = "next" /\ pend' = [pend EXCEPT ![cur.fd] = <<>>]
      BY <1>9 DEF WriteBroken, DropClient, Done
    <2> QED
      BY <1>3, <1>9, <2>1 DEF Drained
  <1>10. CASE WritePart /\ heap' = heap + 1
    <2>1. /\ pc = "write" /\ owner' = owner /\ AnyWritePart
      BY <1>10 DEF WritePart, EchoPart, AnyWritePart, AfterWrite
    <2>2. Buffered' = Buffered + 1 - Held(cur.fd)
      BY <2>1, BufferedRest
    <2>3. CASE pend[cur.fd] = <<>>
      BY <1>1, <1>10, <2>2, <2>3 DEF Held, BlockStep
    <2>4. CASE pend[cur.fd] # <<>>
      BY <1>1, <1>10, <2>1, <2>2, <2>4 DEF Held, BlockStep
    <2> QED
      BY <2>3, <2>4
  <1>11. LeanNoMemory => heap' = heap
    BY DEF LeanNoMemory
  <1> QED
    BY <1>4, <1>5, <1>6, <1>7, <1>8, <1>9, <1>10, <1>11
       DEF LeanNext, LeanBoot, LeanLoop, LeanAccept, Accept, LeanFlush, LeanRead, LeanWrite,
           LeanNetwork, leanVars

\* The part of its invariant that holds for any client.
LeanBase == Inv /\ OutInv /\ heap \in Int

\* The lean server keeps it, whatever its clients do.
LEMMA LeanBaseInvariance == LeanSpec => []LeanBase
  <1>1. LeanInit => LeanBase
    BY InvInit DEF LeanInit, Init, LeanBase, OutInv
  <1>2. LeanBase /\ [LeanNext]_leanVars => LeanBase'
    BY LeanIsCommon, InvStep, OutStep, HeapStep DEF LeanBase
  <1> QED
    BY <1>1, <1>2, PTL DEF LeanSpec

\* Whatever the clients do and whether or not malloc() fails: no block is
\* freed twice, and the only place where one is lost is line 204, when it
\* replaces a block with bytes that still wait.
THEOREM LeanAccountsForBlocks == LeanSpec => BlocksAccounted
  <1>1. LeanBase /\ [LeanNext]_leanVars => [BlockStep]_leanVars
    BY HeapStep DEF LeanBase
  <1> QED
    BY LeanBaseInvariance, <1>1, PTL DEF LeanSpec, BlocksAccounted

-----------------------------------------------------------------------------
(* The bytes of a connection whose client does as it likes.                *)

\* A write() of k of the bytes of d moves them from d to the echo e.
LengthsMoved(e, d, k) ==
    /\ Len(e \o SubSeq(d, 1, k)) = Len(e) + k
    /\ Len(SubSeq(d, k + 1, Len(d))) = Len(d) - k

LEMMA WriteMoves ==
    ASSUME NEW e \in Seq(Byte), NEW d \in Seq(Byte), NEW k \in Nat, k <= Len(d)
    PROVE  LengthsMoved(e, d, k)
  BY DEF LengthsMoved

\* What a handler does is about the descriptor in hand: the bytes of every
\* other connection stay where they are.
LEMMA OthersLoseNothing ==
    ASSUME Inv, NEW f \in OpenFds, owner'[f] = owner[f],
           [LeanNext]_leanVars, pc \in {"flush", "read", "write"}, cur.fd # f
    PROVE  LossStep(f)
  <1>1. /\ f \in Fds /\ cur.fd \in Fds /\ owner[f] \in Conns /\ owner[cur.fd] \in Conns
        /\ owner[f] # owner[cur.fd]
    BY CurOwned, SocketsAssumption DEF Inv, OwnerInv, OpenFds, TypeOK, SocketsTypeOK
  <1>2. /\ taken \in [Conns -> Nat] /\ echo \in [Conns -> Seq(Byte)]
        /\ pend \in [Fds -> Seq(Byte)] /\ owner \in [Fds -> Conns \cup {NoConn}]
    BY DEF Inv, TypeOK, SocketsTypeOK
  <1>3. CASE LeanExit
    BY <1>1, <1>3, SocketsAssumption DEF LeanExit, Stop, Kill, ProcessExit
  <1>4. CASE ~LeanExit
    <2>1. /\ taken'[owner[f]] = taken[owner[f]] /\ echo'[owner[f]] = echo[owner[f]]
          /\ pend'[f] = pend[f]
      <3>1. CASE LeanFlush
        BY <1>1, <1>2, <3>1 DEF LeanFlush, FlushWrite, Write, FlushBlocked, FlushBroken,
           FlushDrained, DropClient, dataVars, sockVars
      <3>2. CASE LeanRead
        BY <1>1, <1>2, <3>2 DEF LeanRead, ReadSome, ReadStops, DropClient, sockVars
      <3>3. CASE LeanWrite \/ LeanNoMemory
        BY <1>1, <1>2, <3>3 DEF LeanWrite, WriteAll, EchoAll, Write, WritePart, EchoPart,
           WriteBroken, DropClient, LeanNoMemory
      <3>4. CASE LeanNetwork \/ UNCHANGED leanVars
        BY <3>4 DEF LeanNetwork, Network, Connect, ClientSend, ClientRecv, ClientShut,
           ClientClose, ResetArrives, leanVars, vars, dataVars, sockVars
      <3>5. CASE LeanBoot \/ LeanLoop \/ LeanAccept
        BY <3>5 DEF LeanBoot, Boot, LeanLoop, LoopTest, Enter, EpollWait, Dispatch, EndBatch,
           Signal, LeanAccept, AcceptClient, AcceptRefused, AcceptStops, dataVars, sockVars
      <3> QED
        BY <1>4, <3>1, <3>2, <3>3, <3>4, <3>5 DEF LeanNext
    <2>2. pc' = "write" => cur' = cur
      BY DEF LeanNext, LeanBoot, Boot, LeanLoop, LoopTest, Enter, EpollWait, Dispatch,
         EndBatch, Signal, LeanExit, Stop, Kill, LeanAccept, AcceptClient, AcceptRefused,
         AcceptStops, LeanFlush, FlushWrite, FlushBlocked, AfterFlush, FlushBroken,
         FlushDrained, LeanRead, ReadSome, ReadStops, LeanWrite, WriteAll, WritePart,
         WriteBroken, LeanNoMemory, Done, LeanNetwork, Network, leanVars, vars, loopVars
    <2>3. InHand(f) = 0 /\ InHand(f)' = 0
      BY <2>2 DEF InHand
    <2> QED
      BY <2>1, <2>3 DEF LossStep, Lost
  <1> QED
    BY <1>3, <1>4

\* Of the descriptor in hand bytes are moved, or lost as LossStep says.
LEMMA HandLosesRests ==
    ASSUME Inv, NEW f \in OpenFds, owner'[f] = owner[f], cur.fd = f,
           \/ LeanFlush \/ LeanRead \/ LeanWrite \/ LeanNoMemory
    PROVE  LossStep(f)
  <1> DEFINE c == owner[f]
  <1>1. /\ TypeOK /\ f \in Fds /\ c \in Conns
        /\ echo \in [Conns -> Seq(Byte)] /\ pend \in [Fds -> Seq(Byte)]
        /\ taken \in [Conns -> Nat] /\ owner \in [Fds -> Conns \cup {NoConn}]
        /\ buf \in Seq(Byte) /\ Len(buf) \in Nat
        /\ Len(echo[c]) \in Nat /\ Len(pend[f]) \in Nat /\ taken[c] \in Nat
    BY DEF Inv, TypeOK, SocketsTypeOK, OpenFds
  <1>0. /\ Lost(f) = taken[c] - Len(echo[c]) - Len(pend[f]) - InHand(f)
        /\ Lost(f)' = taken'[c] - Len(echo'[c]) - Len(pend'[f]) - InHand(f)'
    BY DEF Lost
  <1>2. ASSUME DropClient(f) PROVE FALSE
    BY <1>1, <1>2, SocketsAssumption DEF DropClient, CloseFd
  <1>3. ASSUME pc # "write", pc' # "write", UNCHANGED <<taken, echo, pend>>
        PROVE  LossStep(f)
    BY <1>3 DEF LossStep, Lost, InHand
  <1>4. CASE FlushWrite
    <2>1. PICK k \in Nat :
             /\ k <= Len(pend[f])
             /\ echo' = [echo EXCEPT ![c] = @ \o SubSeq(pend[f], 1, k)]
             /\ pend' = [pend EXCEPT ![f] = SubSeq(pend[f], k + 1, Len(pend[f]))]
      <3>1. Space(c) > 0 /\ pend[f] \in Seq(Byte)
        BY <1>1, <1>4 DEF FlushWrite, Write
      <3>2. WriteLen(c, pend[f]) \in Nat /\ WriteLen(c, pend[f]) <= Len(pend[f])
        BY <1>1, <3>1, WriteLenType
      <3> QED
        BY <1>4, <3>2 DEF FlushWrite, Write
    <2>2. /\ Len(echo'[c]) = Len(echo[c]) + k
          /\ Len(pend'[f]) = Len(pend[f]) - k
      <3>1. /\ echo'[c] = echo[c] \o SubSeq(pend[f], 1, k)
            /\ pend'[f] = SubSeq(pend[f], k + 1, Len(pend[f]))
            /\ echo[c] \in Seq(Byte) /\ pend[f] \in Seq(Byte)
        BY <1>1, <2>1
      <3>2. LengthsMoved(echo[c], pend[f], k)
        BY <2>1, <3>1, WriteMoves, Zenon
      <3> QED
        BY <3>1, <3>2, Zenon DEF LengthsMoved
    <2>3. taken' = taken /\ InHand(f) = 0 /\ InHand(f)' = 0
      BY <1>4 DEF FlushWrite, loopVars, InHand
    <2>4. Lost(f)' = Lost(f)
      BY <1>0, <1>1, <2>1, <2>2, <2>3
    <2> QED
      BY <2>4 DEF LossStep
  <1>5. CASE FlushBlocked \/ FlushDrained
    BY <1>3, <1>5 DEF FlushBlocked, FlushDrained, AfterFlush, sockVars, dataVars
  <1>6. CASE ReadSome
    <2>1. PICK n \in Nat : n = ReadLen(c)
      BY <1>1, <1>6, ConnTypes, SocketsAssumption DEF ReadSome, ReadLen, Avail, Lesser
    <2>2. taken'[c] = taken[c] + n /\ Len(buf') = n
      BY <1>1, <1>6, <2>1, BytesType DEF ReadSome, ReadData
    <2>3. /\ UNCHANGED <<echo, pend>>
          /\ InHand(f) = 0 /\ InHand(f)' = Len(buf')
      BY <1>6 DEF ReadSome, InHand
    <2>4. Lost(f)' = Lost(f)
      BY <1>0, <1>1, <2>1, <2>2, <2>3
    <2> QED
      BY <2>4 DEF LossStep
  <1>7. CASE ReadStops
    BY <1>2, <1>3, <1>7 DEF ReadStops, Done, sockVars
  <1>8. CASE WriteAll
    <2>1. /\ echo' = [echo EXCEPT ![c] = @ \o SubSeq(buf, 1, Len(buf))]
          /\ UNCHANGED <<taken, pend>> /\ pc = "write" /\ pc' = "next"
      BY <1>8 DEF WriteAll, EchoAll, Write, Done
    <2>2. Len(echo'[c]) = Len(echo[c]) + Len(buf)
      <3>1. echo'[c] = echo[c] \o SubSeq(buf, 1, Len(buf)) /\ echo[c] \in Seq(Byte)
        BY <1>1, <2>1
      <3>2. Len(buf) \in Nat /\ Len(buf) <= Len(buf) /\ buf \in Seq(Byte)
        BY <1>1
      <3>3. LengthsMoved(echo[c], buf, Len(buf))
        BY <3>1, <3>2, WriteMoves, Zenon
      <3> QED
        BY <3>1, <3>3, Zenon DEF LengthsMoved
    <2>3. /\ taken'[c] = taken[c] /\ Len(pend'[f]) = Len(pend[f])
          /\ InHand(f) = Len(buf) /\ InHand(f)' = 0
      BY <2>1 DEF InHand
    <2>4. Lost(f)' = Lost(f)
      BY <1>0, <1>1, <2>2, <2>3
    <2> QED
      BY <2>4 DEF LossStep
  <1>9. CASE WritePart \/ LeanNoMemory
    <2>1. /\ WritePart => AnyWritePart
          /\ LeanNoMemory => RestDropped
          /\ TypeOK /\ LoopInv
      BY DEF WritePart, AnyWritePart, LeanNoMemory, RestDropped, AfterWrite, Inv
    <2>2. PICK n \in Nat :
             /\ n < Len(buf)
             /\ echo' = [echo EXCEPT ![c] = @ \o SubSeq(buf, 1, n)]
             /\ WritePart => pend' = [pend EXCEPT ![f] = SubSeq(buf, n + 1, Len(buf))]
             /\ LeanNoMemory => pend' = pend
      BY <1>9, <2>1, ShortWrite
    <2>3. /\ Len(echo'[c]) = Len(echo[c]) + n
          /\ Len(SubSeq(buf, n + 1, Len(buf))) = Len(buf) - n
      <3>1. echo'[c] = echo[c] \o SubSeq(buf, 1, n) /\ echo[c] \in Seq(Byte)
        BY <1>1, <2>2
      <3>2. n <= Len(buf) /\ buf \in Seq(Byte)
        BY <1>1, <2>2
      <3>3. LengthsMoved(echo[c], buf, n)
        BY <3>1, <3>2, WriteMoves, Zenon
      <3> QED
        BY <3>1, <3>3, Zenon DEF LengthsMoved
    <2>4. taken'[c] = taken[c] /\ pc = "write" /\ pc' = "next"
      BY <1>9 DEF WritePart, EchoPart, LeanNoMemory, Done
    <2>5. InHand(f) = Len(buf) /\ InHand(f)' = 0
      BY <2>4 DEF InHand
    <2>6. CASE WritePart
      <3>1. Len(pend'[f]) = Len(buf) - n
        BY <1>1, <2>2, <2>3, <2>6
      <3>2. Lost(f)' = Lost(f) + Len(pend[f])
        <4>1. /\ taken[c] \in Nat /\ Len(echo[c]) \in Nat /\ Len(pend[f]) \in Nat
              /\ Len(buf) \in Nat /\ n \in Nat
          BY <1>1
        <4>2. /\ Lost(f) = taken[c] - Len(echo[c]) - Len(pend[f]) - Len(buf)
              /\ Lost(f)' = taken[c] - (Len(echo[c]) + n) - (Len(buf) - n) - 0
          BY <1>0, <2>3, <2>4, <2>5, <3>1
        <4> QED
          BY <4>1, <4>2
      <3> QED
        BY <2>4, <3>2 DEF LossStep
    <2>7. CASE LeanNoMemory
      <3>1. Lost(f)' > Lost(f)
        BY <1>0, <1>1, <2>2, <2>3, <2>4, <2>5, <2>7
      <3> QED
        BY <2>2, <2>4, <2>7, <3>1 DEF LossStep, LeanNoMemory
    <2> QED
      BY <1>9, <2>6, <2>7
  <1>10. CASE FlushBroken \/ WriteBroken
    BY <1>2, <1>10 DEF FlushBroken, WriteBroken
  <1> QED
    BY <1>4, <1>5, <1>6, <1>7, <1>8, <1>9, <1>10 DEF LeanFlush, LeanRead, LeanWrite

\* Outside the handlers no byte moves.
LEMMA LossStepTaken ==
    ASSUME Inv, [LeanNext]_leanVars, NEW f \in OpenFds, owner'[f] = owner[f]
    PROVE  LossStep(f)
  <1>1. f \in Fds /\ owner[f] # NoConn /\ TypeOK
    BY DEF OpenFds, Inv
  <1>2. CASE LeanFlush \/ LeanRead \/ LeanWrite \/ LeanNoMemory
    <2>1. pc \in {"flush", "read", "write"}
      BY <1>2 DEF LeanFlush, FlushWrite, FlushBlocked, FlushBroken, FlushDrained, LeanRead,
         ReadSome, ReadStops, LeanWrite, WriteAll, EchoAll, WritePart, EchoPart,
         WriteBroken, LeanNoMemory
    <2> QED
      BY <1>2, <2>1, OthersLoseNothing, HandLosesRests
  <1>3. CASE LeanExit
    BY <1>1, <1>3 DEF LeanExit, Stop, Kill, ProcessExit
  <1>4. ASSUME UNCHANGED <<taken, echo>>, pend'[f] = pend[f], InHand(f)' = InHand(f)
        PROVE  LossStep(f)
    BY <1>4 DEF LossStep, Lost
  <1>5. CASE LeanAccept
    <2>1. UNCHANGED <<taken, echo>> /\ InHand(f)' = InHand(f)
      BY <1>5 DEF LeanAccept, AcceptClient, AcceptRefused, AcceptStops, Done, InHand,
         loopVars, sockVars
    <2>2. pend'[f] = pend[f]
      <3>1. \A g \in Fds : AcceptAs(g) => g # f
        BY <1>1 DEF AcceptAs, FreeFds
      <3> QED
        BY <1>1, <1>5, <3>1 DEF LeanAccept, AcceptClient, AcceptRefused, AcceptStops,
           dataVars, TypeOK
    <2> QED
      BY <1>4, <2>1, <2>2
  <1>6. CASE LeanBoot \/ LeanLoop \/ LeanNetwork \/ UNCHANGED leanVars
    <2>1. UNCHANGED <<taken, echo, pend>>
      BY <1>6 DEF LeanBoot, Boot, LeanLoop, LoopTest, Enter, EpollWait, Dispatch, EndBatch,
         Signal, LeanNetwork, Network, Connect, ClientSend, ClientRecv, ClientShut,
         ClientClose, ResetArrives, leanVars, vars, dataVars, sockVars
    <2>2. InHand(f)' = InHand(f)
      BY <1>6 DEF LeanBoot, Boot, LeanLoop, LoopTest, Enter, EpollWait, Dispatch, EndBatch,
         Signal, LeanNetwork, Network, leanVars, vars, loopVars, dataVars, InHand
    <2> QED
      BY <1>4, <2>1, <2>2
  <1> QED
    BY <1>2, <1>3, <1>5, <1>6 DEF LeanNext

\* With any client and any behaviour of malloc(): no byte of an open
\* connection is lost but in the block that line 204 replaces and in the rest
\* of an echo for which there is no memory, and none is written twice.
THEOREM LeanAccountsForBytes == LeanSpec => LossAccounted
  <1>1. LeanBase /\ [LeanNext]_leanVars
        => [\A f \in OpenFds : owner'[f] = owner[f] => LossStep(f)]_leanVars
    BY LossStepTaken DEF LeanBase
  <1> QED
    BY LeanBaseInvariance, <1>1, PTL DEF LeanSpec, LossAccounted

-----------------------------------------------------------------------------
(* The lean server and well-behaved clients.                               *)

\* The rest of its invariant needs well-behaved clients.
LeanInv == LeanBase /\ DataInv(FALSE) /\ NoLeak

\* The lean server starts with an empty heap and keeps its invariant: the
\* table is empty where a block is put into it.
LEMMA LeanInvariance == ASSUME SafeClients PROVE LeanSpec => []LeanInv
  <1>1. LeanInit => DataInv(FALSE) /\ NoLeak
    <2> SUFFICES ASSUME LeanInit PROVE DataInv(FALSE) /\ NoLeak
      OBVIOUS
    <2>1. Init /\ heap = 0 /\ Waiting = {} /\ Drained = 0
      BY DEF LeanInit, Init, Waiting, Drained
    <2>2. NoLeak
      BY <2>1, BufferedCount, FS_EmptySet DEF NoLeak, Leaked
    <2> QED
      BY <2>1, <2>2, DataInit
  <1>2. ASSUME LeanInv, BlockStep PROVE NoLeak'
    <2>1. CASE pc = "write" /\ pend[cur.fd] # <<>>
      <3>1. cur.fd \in OpenFds
        BY <1>2, <2>1, CurOwned, SocketsAssumption DEF LeanInv, LeanBase, Inv, OpenFds
      <3> QED
        BY <1>2, <2>1, <3>1 DEF LeanInv, DataInv, FdInv, HandOK
    <2> QED
      BY <1>2, <2>1 DEF LeanInv, NoLeak, BlockStep
  <1>3. LeanInv /\ [LeanNext]_leanVars => DataInv(FALSE)' /\ NoLeak'
    BY <1>2, LeanIsCommon, DataStep, HeapStep DEF LeanInv, LeanBase
  <1> QED
    BY LeanBaseInvariance, <1>1, <1>3, PTL DEF LeanSpec, LeanInv

\* With clients that wait for their answer, or whose window the socket takes
\* (SafeClients), line 204 never finds a block in its place: none is leaked
\* and none freed twice, whether or not malloc() fails.  With clients that
\* pipeline more than that it does leak: LeanAccountsForBlocks says where.
THEOREM LeanLeaksNothing == ASSUME SafeClients PROVE LeanSpec => []NoLeak
  BY LeanInvariance, PTL DEF LeanInv

\* What the lean server writes to a connection is a prefix of what its client
\* sent, even when malloc() fails and the rest of an echo is dropped.
THEOREM LeanEchoIsExact == ASSUME SafeClients PROVE LeanSpec => []EchoExact
  <1>1. LeanInv => EchoExact
    BY ExactEcho DEF LeanInv, LeanBase
  <1> QED
    BY LeanInvariance, <1>1, PTL

\* The lean server is an echo service to clients that do not shut down one
\* side with an answer outstanding.
THEOREM LeanImplementsEcho ==
    ASSUME SafeClients, Polite \/ ~HalfClose
    PROVE  LeanSpec => ImplementsEcho
  <1>1. LeanInit => LeaveInv /\ Echoer!Init
    BY LeaveInit DEF LeanInit
  <1>2. LeanInv /\ LeaveInv /\ [LeanNext]_leanVars => LeaveInv'
    BY LeanIsCommon, LeaveStep DEF LeanInv, LeanBase
  <1>3. /\ LeanInv /\ LeaveInv /\ LeanInv' /\ [LeanNext]_leanVars
        => [Echoer!Next]_(Echoer!echoVars)
    BY LeanIsCommon, EchoStep DEF LeanInv, LeanBase
  <1> QED
    BY LeanInvariance, <1>1, <1>2, <1>3, PTL DEF LeanSpec, ImplementsEcho, Echoer!Spec

-----------------------------------------------------------------------------
(* The edge-triggered server.                                              *)

\* Its steps, the ready list apart: what a wait reports is ready, and a full
\* read is followed by another.
LEMMA EtIsCommon == [EtNext]_etVars => [CommonNext(TRUE)]_vars
  <1> SUFFICES ASSUME [EtNext]_etVars PROVE [CommonNext(TRUE)]_vars
    OBVIOUS
  <1>1. EtWait => AnyWait
    BY DEF EtWait, AnyWait
  <1>2. AfterEcho => AfterWrite
    BY DEF AfterEcho, AfterWrite
  <1>3. EtWrite => AnyWriteAll \/ AnyWritePart \/ WriteBroken
    BY <1>2 DEF EtWrite, AnyWriteAll, AnyWritePart
  <1>4. EtNetwork => Network
    BY DEF EtNetwork, EtArrives, EtRecv, EtConnect, Network
  <1> QED
    BY <1>1, <1>3, <1>4
       DEF CommonNext, EtNext, EtBoot, EtServer, EtControl, EtStop, EtAccept, EtFlush,
           EtRead, EtReadStops, EtSignal, EtKill, Accept, Flush, etVars

\* The loop's invariant holds of it for all clients.
LEMMA EtInvariance == EtSpec => []Inv
  <1>1. EtInit => Inv
    BY InvInit DEF EtInit
  <1>2. Inv /\ [EtNext]_etVars => Inv'
    BY EtIsCommon, InvStep
  <1> QED
    BY <1>1, <1>2, PTL DEF EtSpec

\* The edge-triggered server is an echo service as well.
THEOREM EtImplementsEcho ==
    ASSUME SafeClients, Polite \/ ~HalfClose
    PROVE  EtSpec => ImplementsEcho
  <1>1. EtInit => Inv /\ DataInv(TRUE) /\ LeaveInv /\ Echoer!Init
    BY InvInit, DataInit, LeaveInit DEF EtInit
  <1>2. /\ Inv /\ DataInv(TRUE) /\ LeaveInv /\ [EtNext]_etVars
        => Inv' /\ DataInv(TRUE)' /\ LeaveInv'
    BY EtIsCommon, InvStep, DataStep, LeaveStep
  <1>3. /\ Inv /\ DataInv(TRUE) /\ LeaveInv /\ Inv' /\ DataInv(TRUE)' /\ [EtNext]_etVars
        => [Echoer!Next]_(Echoer!echoVars)
    BY EtIsCommon, EchoStep
  <1> QED
    BY <1>1, <1>2, <1>3, PTL DEF EtSpec, ImplementsEcho, Echoer!Spec

-----------------------------------------------------------------------------
(* No edge is lost.                                                        *)

\* An event of the batch announces the flag for f.
Reported(f, flag) == \E e \in batch : e.fd = f /\ flag \in e.rev

\* The handler in hand will read from f again before it lets go of it, or
\* close it: a short read breaks off only when nothing was left to read.
WillRead(f) ==
    /\ cur.fd = f
    /\ \/ pc = "read"
       \/ pc = "flush" /\ "IN" \in cur.rev
       \/ pc = "write" /\ (rst[owner[f]] \/ Len(buf) = BUF_SIZE)

WillFlush(f) == pc = "flush" /\ cur.fd = f

\* Whatever there is to read or to flush is on its way to a handler.
ReadEdge(f) ==
    Avail(owner[f]) > 0 \/ rst[owner[f]] => f \in rdl \/ Reported(f, "IN") \/ WillRead(f)
FlushEdge(f) ==
    pend[f] # <<>> /\ Space(owner[f]) > 0
        => f \in rdl \/ Reported(f, "OUT") \/ WillFlush(f)
EdgeInv == \A f \in OpenFds : ReadEdge(f) /\ FlushEdge(f)

\* And so is a connection to accept, while descriptors last.
ListenerInv ==
    backlog # <<>> =>
        listen_fd \in rdl \/ (\E e \in batch : e.fd = listen_fd) \/ pc = "accept"

\* An open descriptor, its connection and its registration.
LEMMA OpenFd ==
    ASSUME Inv, NEW f \in OpenFds
    PROVE  /\ f \in Fds /\ f # listen_fd
           /\ owner[f] \in Conns
           /\ "IN" \in interest[f]
           /\ pend[f] # <<>> => "OUT" \in interest[f]
           /\ Avail(owner[f]) \in Int /\ Space(owner[f]) \in Int
  <1>1. f \in Fds /\ f # listen_fd /\ owner[f] \in Conns
    BY EpollLtAssumption DEF OpenFds, Inv, TypeOK, SocketsTypeOK
  <1>2. "IN" \in interest[f] /\ (pend[f] # <<>> => "OUT" \in interest[f])
    BY <1>1 DEF OpenFds, Inv, ArmInv
  <1>3. Avail(owner[f]) \in Int /\ Space(owner[f]) \in Int
    BY <1>1, ConnTypes, SocketsAssumption DEF Inv, Avail, Space, InFlight
  <1> QED
    BY <1>1, <1>2, <1>3

\* What there is to do makes the descriptor ready.
LEMMA WorkIsReady ==
    ASSUME Inv, NEW f \in OpenFds
    PROVE  /\ Avail(owner[f]) > 0 \/ rst[owner[f]] => "IN" \in Revents(f)
           /\ pend[f] # <<>> /\ Space(owner[f]) > 0 => "OUT" \in Revents(f)
  BY OpenFd DEF Revents, Readable, Writable

\* f's edges are kept by a step that leaves f and its connection alone.
LEMMA EdgeKept ==
    ASSUME NEW f \in OpenFds, NEW c, c = owner[f], ReadEdge(f), FlushEdge(f),
           owner'[f] = c, pend'[f] = pend[f], batch' = batch,
           rst'[c] = rst[c], sent'[c] = sent[c], taken'[c] = taken[c],
           echo'[c] = echo[c], got'[c] = got[c],
           f \in rdl => f \in rdl',
           WillRead(f) => WillRead(f)', WillFlush(f) => WillFlush(f)'
    PROVE  ReadEdge(f)' /\ FlushEdge(f)'
  BY DEF ReadEdge, FlushEdge, Reported, Avail, Space, InFlight

\* Steps that work for the descriptor in hand keep the edges of the others.
LEMMA OtherEdges ==
    ASSUME Inv, EdgeInv, pc \in {"flush", "read", "write"},
           NEW f \in OpenFds, f # cur.fd,
           owner'[f] = owner[f], batch' = batch, cur' = cur \/ cur'.fd # f,
           \A g \in Fds \ {cur.fd} : pend'[g] = pend[g],
           \A c \in Conns \ {owner[cur.fd]} : taken'[c] = taken[c] /\ echo'[c] = echo[c],
           UNCHANGED <<rst, sent, got>>,
           rdl \ {cur.fd} \subseteq rdl'
    PROVE  ReadEdge(f)' /\ FlushEdge(f)'
  <1>1. cur.fd \in OpenFds
    BY CurOwned, SocketsAssumption DEF Inv, OpenFds
  <1>2. owner[f] \in Conns \ {owner[cur.fd]} /\ f \in Fds
    BY <1>1, OpenFd DEF Inv, OwnerInv
  <1>3. ReadEdge(f) /\ FlushEdge(f) /\ ~WillRead(f) /\ ~WillFlush(f)
    BY DEF EdgeInv, WillRead, WillFlush
  <1> QED
    BY <1>2, <1>3, EdgeKept

\* A wait takes an entry off the list only to report it, or when there is
\* nothing to do for it.
LEMMA WaitEdge ==
    ASSUME Inv, EdgeInv, EtWait
    PROVE  EdgeInv'
  <1>1. pc = "wait" /\ batch = {} /\ UNCHANGED <<sockVars, dataVars>>
    BY DEF EtWait, Inv, LoopInv
  <1>2. PICK S \in SUBSET rdl :
           /\ batch' = {EventOf(f) : f \in S \cap Ready}
           /\ rdl' = rdl \ S
    BY DEF EtWait
  <1>3. OpenFds' = OpenFds
    BY <1>1 DEF OpenFds, sockVars
  <1> SUFFICES ASSUME NEW f \in OpenFds PROVE ReadEdge(f)' /\ FlushEdge(f)'
    BY <1>3 DEF EdgeInv
  <1>4. /\ Avail(owner[f]) > 0 \/ rst[owner[f]] => f \in rdl
        /\ pend[f] # <<>> /\ Space(owner[f]) > 0 => f \in rdl
    BY <1>1 DEF EdgeInv, ReadEdge, FlushEdge, Reported, WillRead, WillFlush
  <1>5. ASSUME NEW flag \in Revents(f), f \in rdl
        PROVE  f \in rdl' \/ Reported(f, flag)'
    <2>1. CASE f \notin S
      BY <1>2, <1>5, <2>1
    <2>2. CASE f \in S
      <3>1. f \in S \cap Ready
        BY <2>2 DEF Ready
      <3>2. EventOf(f) \in batch'
        BY <1>2, <3>1
      <3>3. EventOf(f).fd = f /\ EventOf(f).rev = Revents(f)
        BY OpenFd DEF EventOf
      <3> QED
        BY <3>2, <3>3 DEF Reported
    <2> QED
      BY <2>1, <2>2
  <1>6. /\ Avail(owner[f])' = Avail(owner[f]) /\ Space(owner[f])' = Space(owner[f])
        /\ rst' = rst /\ pend' = pend /\ owner' = owner
    BY <1>1 DEF Avail, Space, InFlight, sockVars, dataVars
  <1> QED
    BY <1>4, <1>5, <1>6, WorkIsReady DEF ReadEdge, FlushEdge

\* What an event announces is done by its handler.
LEMMA DispatchEdge ==
    ASSUME Inv, EdgeInv, Dispatch, rdl' = rdl
    PROVE  EdgeInv'
  <1>1. PICK e \in batch :
           /\ batch' = batch \ {e} /\ cur' = e
           /\ pc' = IF e.fd = listen_fd THEN "accept"
                    ELSE IF "OUT" \in e.rev THEN "flush" ELSE "read"
    BY DEF Dispatch
  <1>2. pc = "next" /\ UNCHANGED <<sockVars, dataVars>> /\ OpenFds' = OpenFds
    BY DEF Dispatch, OpenFds, sockVars
  <1> SUFFICES ASSUME NEW f \in OpenFds PROVE ReadEdge(f)' /\ FlushEdge(f)'
    BY <1>2 DEF EdgeInv
  <1>3. ReadEdge(f) /\ FlushEdge(f) /\ ~WillRead(f) /\ ~WillFlush(f) /\ f # listen_fd
    BY <1>2, OpenFd DEF EdgeInv, WillRead, WillFlush
  <1>4. Reported(f, "IN") => Reported(f, "IN")' \/ WillRead(f)'
    BY <1>1, <1>3 DEF Reported, WillRead
  <1>5. Reported(f, "OUT") => Reported(f, "OUT")' \/ WillFlush(f)'
    BY <1>1, <1>3 DEF Reported, WillFlush
  <1>6. /\ Avail(owner[f])' = Avail(owner[f]) /\ Space(owner[f])' = Space(owner[f])
        /\ rst' = rst /\ pend' = pend /\ owner' = owner
    BY <1>2 DEF Avail, Space, InFlight, sockVars, dataVars
  <1> QED
    BY <1>3, <1>4, <1>5, <1>6 DEF ReadEdge, FlushEdge

\* Registering a descriptor, or registering it anew, sees what is there.
LEMMA RepollSees ==
    ASSUME NEW f \in Fds, Repoll(f), "IN" \in interest'[f]
    PROVE  /\ rdl \subseteq rdl'
           /\ (Avail(owner[f]) > 0 \/ rst[owner[f]])' => f \in rdl'
           /\ "OUT" \in interest'[f] /\ (Space(owner[f]) > 0)' => f \in rdl'
  BY DEF Repoll, Revents, Readable, Writable

\* accept() registers the new descriptor; the others keep their edges.
LEMMA AcceptEdge ==
    ASSUME Inv, EdgeInv, EtAccept
    PROVE  EdgeInv'
  <1> USE SocketsAssumption, EpollLtAssumption
  <1>1. CASE AcceptClient /\ \E f \in FreeFds \ FreeFds' : Repoll(f)
    <2>1. PICK f \in Fds :
             /\ AcceptAs(f)
             /\ owner' = [owner EXCEPT ![f] = Head(backlog)]
             /\ pend' = [pend EXCEPT ![f] = <<>>]
             /\ interest' = [interest EXCEPT ![f] = {"IN"}]
      BY <1>1 DEF AcceptClient
    <2>2. /\ pc = "accept" /\ UNCHANGED <<batch, rst, sent, taken, echo, got>>
      BY <1>1 DEF AcceptClient, loopVars
    <2>3. owner[f] = NoConn /\ Head(backlog) \in Conns /\ backlog # <<>>
      BY <2>1 DEF AcceptAs, FreeFds, Inv, TypeOK, SocketsTypeOK
    <2>4. Repoll(f)
      <3>1. FreeFds \ FreeFds' = {f}
        BY <2>1, <2>3 DEF FreeFds, Inv, TypeOK, SocketsTypeOK
      <3> QED
        BY <1>1, <3>1
    <2>5. /\ owner'[f] = Head(backlog) /\ pend'[f] = <<>> /\ "IN" \in interest'[f]
          /\ rdl \subseteq rdl'
          /\ (Avail(owner[f]) > 0 \/ rst[owner[f]])' => f \in rdl'
      BY <2>1, <2>4, RepollSees DEF Inv, TypeOK, SocketsTypeOK
    <2>6. ReadEdge(f)' /\ FlushEdge(f)'
      BY <2>5 DEF ReadEdge, FlushEdge
    <2>7. ASSUME NEW g \in OpenFds', g # f
          PROVE  ReadEdge(g)' /\ FlushEdge(g)'
      <3>1. g \in OpenFds /\ owner'[g] = owner[g] /\ pend'[g] = pend[g]
        BY <2>1, <2>7 DEF OpenFds, Inv, TypeOK, SocketsTypeOK
      <3>2. ReadEdge(g) /\ FlushEdge(g) /\ ~WillRead(g) /\ ~WillFlush(g)
        BY <2>2, <3>1 DEF EdgeInv, WillRead, WillFlush
      <3> QED
        BY <2>2, <2>5, <3>1, <3>2, EdgeKept
    <2> QED
      BY <2>6, <2>7 DEF EdgeInv
  <1>2. CASE (AcceptRefused \/ AcceptStops) /\ UNCHANGED rdl
    <2>1. /\ pc = "accept" /\ UNCHANGED <<owner, batch, rst, sent, taken, echo, got>>
      BY <1>2 DEF AcceptRefused, AcceptStops, Done, loopVars, sockVars
    <2>2. \A g \in OpenFds : pend'[g] = pend[g]
      BY <1>2 DEF AcceptRefused, AcceptStops, AcceptAs, FreeFds, OpenFds, dataVars, Inv, TypeOK
    <2> SUFFICES ASSUME NEW g \in OpenFds PROVE ReadEdge(g)' /\ FlushEdge(g)'
      BY <2>1 DEF EdgeInv, OpenFds
    <2>3. ReadEdge(g) /\ FlushEdge(g) /\ ~WillRead(g) /\ ~WillFlush(g)
      BY <2>1 DEF EdgeInv, WillRead, WillFlush
    <2> QED
      BY <1>2, <2>1, <2>2, <2>3, EdgeKept
  <1> QED
    BY <1>1, <1>2 DEF EtAccept

\* Closing the descriptor in hand.
LEMMA DropEdge ==
    ASSUME Inv, EdgeInv, pc \in {"flush", "read", "write"}, DropClient(cur.fd), Done,
           rdl' = rdl \ {cur.fd}
    PROVE  EdgeInv'
  <1>1. /\ cur.fd \in Fds
        /\ owner' = [owner EXCEPT ![cur.fd] = NoConn]
        /\ pend' = [pend EXCEPT ![cur.fd] = <<>>]
        /\ UNCHANGED <<rst, sent, taken, echo, got>>
    BY CurOwned DEF DropClient, CloseFd, Inv
  <1> SUFFICES ASSUME NEW f \in OpenFds' PROVE ReadEdge(f)' /\ FlushEdge(f)'
    BY DEF EdgeInv
  <1>2. f \in OpenFds /\ f # cur.fd /\ owner'[f] = owner[f]
    BY <1>1 DEF OpenFds, Inv, TypeOK, SocketsTypeOK
  <1>3. batch' = batch /\ cur'.fd # f
    BY <1>2, OpenFd DEF Done, NoEvent
  <1>4. \A g \in Fds \ {cur.fd} : pend'[g] = pend[g]
    BY <1>1 DEF Inv, TypeOK
  <1> QED
    BY <1>1, <1>2, <1>3, <1>4, OtherEdges

\* A flush goes on while there is room, and MOD looks at the socket again.
LEMMA FlushKeepsEdges ==
    ASSUME Inv, EdgeInv, EtFlush
    PROVE  EdgeInv'
  <1>1. CASE FlushBroken /\ rdl' = rdl \ {cur.fd}
    BY <1>1, DropEdge DEF FlushBroken
  <1>2. CASE \/ (FlushWrite \/ FlushBlocked) /\ UNCHANGED rdl
             \/ FlushDrained /\ \E f \in {cur.fd} : Repoll(f)
    <2>1. PICK f \in OpenFds : f = cur.fd
      BY <1>2, CurOwned, SocketsAssumption
         DEF FlushWrite, FlushBlocked, FlushDrained, OpenFds, Inv
    <2>2. /\ pc = "flush"
          /\ UNCHANGED <<owner, batch, rst, sent, taken, got>>
          /\ cur' = cur \/ cur' = NoEvent
      BY <1>2 DEF FlushWrite, FlushBlocked, FlushDrained, sockVars, loopVars
    <2>3. ReadEdge(f) /\ FlushEdge(f) /\ OpenFds' = OpenFds
      BY <2>2 DEF EdgeInv, OpenFds
    <2>4. ReadEdge(f)' /\ FlushEdge(f)' /\ rdl \subseteq rdl'
      <3>1. CASE FlushWrite /\ UNCHANGED rdl
        <4>1. pc' = pc /\ cur' = cur
          BY <3>1 DEF FlushWrite, loopVars
        <4> QED
          BY <2>1, <2>2, <2>3, <3>1, <4>1
             DEF ReadEdge, FlushEdge, Reported, WillRead, WillFlush, Avail
      <3>2. CASE FlushBlocked /\ UNCHANGED rdl
        <4>1. /\ Space(owner[f]) <= 0 /\ Space(owner[f]) \in Int
              /\ Space(owner[f])' = Space(owner[f])
          BY <2>1, <3>2, OpenFd DEF FlushBlocked, WriteWouldBlock, Space, InFlight, sockVars
        <4>2. WillRead(f) => WillRead(f)'
          BY <2>1, <2>2, <3>2 DEF FlushBlocked, AfterFlush, WillRead
        <4> QED
          BY <2>2, <2>3, <3>2, <4>1, <4>2 DEF ReadEdge, FlushEdge, Reported, Avail
      <3>3. CASE FlushDrained /\ \E g \in {cur.fd} : Repoll(g)
        <4>1. pend'[f] = <<>> /\ rdl \subseteq rdl'
          BY <2>1, <3>3 DEF FlushDrained, Repoll
        <4>2. WillRead(f) => WillRead(f)'
          BY <2>1, <2>2, <3>3 DEF FlushDrained, AfterFlush, WillRead
        <4> QED
          BY <2>2, <2>3, <4>1, <4>2 DEF ReadEdge, FlushEdge, Reported, Avail
      <3> QED
        BY <1>2, <3>1, <3>2, <3>3
    <2>5. /\ \A g \in Fds \ {f} : pend'[g] = pend[g]
          /\ \A c \in Conns \ {owner[f]} : echo'[c] = echo[c]
      BY <1>2, <2>1 DEF FlushWrite, Write, FlushBlocked, FlushDrained, sockVars, dataVars,
         Inv, TypeOK, SocketsTypeOK
    <2>6. ASSUME NEW g \in OpenFds, g # f PROVE ReadEdge(g)' /\ FlushEdge(g)'
      <3>1. cur' = cur \/ cur'.fd # g
        BY <2>2, OpenFd DEF NoEvent
      <3> QED
        BY <2>1, <2>2, <2>4, <2>5, <2>6, <3>1, OtherEdges
    <2> QED
      BY <2>3, <2>4, <2>6 DEF EdgeInv
  <1> QED
    BY <1>1, <1>2 DEF EtFlush

\* What a write() accepts only takes room.
LEMMA EchoTakesRoom ==
    ASSUME Inv, NEW c \in Conns, NEW k \in Nat, k <= Len(buf),
           echo' = [echo EXCEPT ![c] = @ \o SubSeq(buf, 1, k)], got' = got
    PROVE  /\ (Space(c) > 0)' => Space(c) > 0
           /\ \A e \in Conns \ {c} : echo'[e] = echo[e]
  <1>1. /\ buf \in Seq(Byte) /\ echo[c] \in Seq(Byte) /\ got[c] \in Nat
        /\ echo'[c] = echo[c] \o SubSeq(buf, 1, k)
        /\ \A e \in Conns \ {c} : echo'[e] = echo[e]
    BY DEF Inv, TypeOK, SocketsTypeOK
  <1>2. SubSeq(buf, 1, k) \in Seq(Byte)
    BY <1>1, SubSeqType
  <1>3. Len(echo'[c]) = Len(echo[c]) + Len(SubSeq(buf, 1, k))
    BY <1>1, <1>2, ConcatType
  <1>4. Len(SubSeq(buf, 1, k)) \in Nat /\ Len(echo[c]) \in Nat
    BY <1>1, <1>2
  <1> HIDE DEF Inv
  <1>5. (Space(c) > 0)' => Space(c) > 0
    BY <1>1, <1>3, <1>4, SocketsAssumption DEF Space, InFlight
  <1> QED
    BY <1>1, <1>5

\* A read that leaves something behind filled the buffer, so another follows;
\* one that would block has left nothing.
LEMMA ReadEdges ==
    ASSUME Inv, EdgeInv, EtRead \/ EtReadStops
    PROVE  EdgeInv'
  <1> USE SocketsAssumption
  <1>1. PICK f \in OpenFds : f = cur.fd /\ pc = "read"
    BY CurOwned DEF EtRead, EtReadStops, ReadSome, ReadStops, OpenFds, Inv
  <1>2. /\ ReadEdge(f) /\ FlushEdge(f) /\ ~WillFlush(f)
        /\ owner[f] \in Conns /\ Avail(owner[f]) \in Int
    BY <1>1, OpenFd DEF EdgeInv, WillFlush
  <1>3. CASE EtRead
    <2>1. /\ pc' = "write" /\ UNCHANGED <<owner, batch, cur, pend, rst, sent, echo, got, rdl>>
          /\ Avail(owner[f]) > 0
          /\ taken' = [taken EXCEPT ![owner[f]] = @ + ReadLen(owner[f])]
          /\ buf' = Bytes(owner[f], taken[owner[f]], ReadLen(owner[f]))
      BY <1>1, <1>3 DEF EtRead, ReadSome, ReadData
    <2>2. OpenFds' = OpenFds
      BY <2>1 DEF OpenFds
    <2>3. (Avail(owner[f]) > 0)' => Len(buf') = BUF_SIZE
      <3>1. taken[owner[f]] \in Nat /\ sent[owner[f]] \in Nat
        BY <1>2, ConnTypes DEF Inv
      <3>2. ReadLen(owner[f]) \in Nat
        BY <1>2, <2>1 DEF ReadLen, Lesser
      <3>3. taken'[owner[f]] = taken[owner[f]] + ReadLen(owner[f]) /\ sent' = sent
        BY <1>2, <2>1 DEF Inv, TypeOK, SocketsTypeOK
      <3>4. (Avail(owner[f]) > 0)' => ReadLen(owner[f]) = BUF_SIZE
        BY <2>1, <3>1, <3>2, <3>3 DEF Avail, ReadLen, Lesser
      <3>5. Len(buf') = ReadLen(owner[f])
        BY <1>2, <2>1, <3>1, <3>2, BytesType
      <3> QED
        BY <3>4, <3>5
    <2>4. ReadEdge(f)' /\ FlushEdge(f)'
      <3>1. ReadEdge(f)'
        BY <1>1, <2>1, <2>3 DEF ReadEdge, WillRead
      <3>2. FlushEdge(f)'
        BY <1>2, <2>1 DEF FlushEdge, Reported, Space, InFlight
      <3> QED
        BY <3>1, <3>2
    <2>5. ASSUME NEW g \in OpenFds, g # f PROVE ReadEdge(g)' /\ FlushEdge(g)'
      <3>1. \A c \in Conns \ {owner[f]} : taken'[c] = taken[c]
        BY <2>1 DEF Inv, TypeOK, SocketsTypeOK
      <3> QED
        BY <1>1, <2>1, <2>5, <3>1, OtherEdges
    <2> QED
      BY <2>2, <2>4, <2>5 DEF EdgeInv
  <1>4. CASE EtReadStops /\ ReadWouldBlock(owner[cur.fd])
    <2>1. UNCHANGED <<sockVars, pend, batch, rdl>>
      BY <1>4 DEF EtReadStops, ReadStops, ReadWouldBlock, Done
    <2>2. /\ ~(Avail(owner[f]) > 0) /\ ~rst[owner[f]]
          /\ pc' = "next" /\ cur' = NoEvent
      BY <1>1, <1>4 DEF EtReadStops, ReadStops, ReadWouldBlock, Readable, Done
    <2>3. OpenFds' = OpenFds
      BY <2>1 DEF OpenFds, sockVars
    <2>4. ReadEdge(f)' /\ FlushEdge(f)'
      BY <1>2, <2>1, <2>2 DEF ReadEdge, FlushEdge, Reported, Avail, Space, InFlight, sockVars
    <2>5. ASSUME NEW g \in OpenFds, g # f PROVE ReadEdge(g)' /\ FlushEdge(g)'
      <3>1. cur'.fd # g
        BY <2>2, OpenFd DEF NoEvent
      <3> QED
        BY <1>1, <2>1, <2>5, <3>1, OtherEdges DEF sockVars
    <2> QED
      BY <2>3, <2>4, <2>5 DEF EdgeInv
  <1>5. CASE EtReadStops /\ ~ReadWouldBlock(owner[cur.fd])
    BY <1>1, <1>5, DropEdge DEF EtReadStops, ReadStops, ReadWouldBlock
  <1> QED
    BY <1>3, <1>4, <1>5

\* After a short read the echo ends the event: what came since is on the list.
LEMMA WriteEdges ==
    ASSUME Inv, EdgeInv, EtWrite
    PROVE  EdgeInv'
  <1> USE SocketsAssumption
  <1>1. CASE WriteBroken /\ rdl' = rdl \ {cur.fd}
    BY <1>1, DropEdge DEF WriteBroken
  <1>2. CASE \/ EchoAll /\ AfterEcho /\ UNCHANGED rdl
             \/ EchoPart /\ AfterEcho /\ Repoll(cur.fd)
    <2>1. PICK f \in OpenFds : f = cur.fd /\ pc = "write"
      BY <1>2, CurOwned DEF EchoAll, EchoPart, OpenFds, Inv
    <2>2. /\ ReadEdge(f) /\ FlushEdge(f) /\ ~WillFlush(f)
          /\ f \in Fds /\ owner[f] \in Conns
      BY <2>1, OpenFd DEF EdgeInv, WillFlush
    <2>3. /\ UNCHANGED <<owner, batch, rst, sent, taken, got>> /\ ~rst[owner[f]]
          /\ \/ Done /\ Len(buf) < BUF_SIZE
             \/ pc' = "read" /\ cur' = cur
      <3>1. /\ UNCHANGED <<owner, rst, sent, taken, got>> /\ ~rst[owner[f]]
        BY <1>2, <2>1 DEF EchoAll, EchoPart, Write, WriteFails
      <3>2. /\ UNCHANGED batch
            /\ \/ Done /\ Len(buf) < BUF_SIZE
               \/ pc' = "read" /\ cur' = cur
        BY <1>2 DEF AfterEcho, Done
      <3> QED
        BY <3>1, <3>2
    <2>4. OpenFds' = OpenFds
      BY <2>3 DEF OpenFds
    <2>5. PICK k \in Nat : /\ k <= Len(buf)
                           /\ echo' = [echo EXCEPT ![owner[f]] = @ \o SubSeq(buf, 1, k)]
      <3>1. CASE EchoAll
        <4>1. buf \in Seq(Byte) /\ Len(buf) \in Nat
          BY DEF Inv, TypeOK
        <4>2. WriteLen(owner[f], buf) = Len(buf) /\ Write(owner[f], buf)
          BY <2>1, <3>1 DEF EchoAll
        <4>3. echo' = [echo EXCEPT ![owner[f]] = @ \o SubSeq(buf, 1, Len(buf))]
          BY <4>2 DEF Write
        <4>4. Len(buf) <= Len(buf)
          BY <4>1
        <4> QED
          BY <4>1, <4>3, <4>4
      <3>2. CASE EchoPart /\ AfterEcho
        <4>1. AnyWritePart
          BY <3>2 DEF AnyWritePart, AfterEcho, AfterWrite
        <4>2. PICK k \in Nat :
                 /\ k < Len(buf)
                 /\ echo' = [echo EXCEPT ![owner[cur.fd]] = @ \o SubSeq(buf, 1, k)]
          BY <4>1, ShortWrite DEF Inv
        <4>3. k <= Len(buf)
          BY <4>2 DEF Inv, TypeOK
        <4> QED
          BY <2>1, <4>2, <4>3
      <3> QED
        BY <1>2, <3>1, <3>2
    <2>6. /\ (Space(owner[f]) > 0)' => Space(owner[f]) > 0
          /\ \A c \in Conns \ {owner[f]} : echo'[c] = echo[c]
      BY <2>2, <2>3, <2>5, EchoTakesRoom DEF Space, InFlight
    <2>7. rdl \subseteq rdl'
      BY <1>2 DEF Repoll
    <2>8. ReadEdge(f)'
      <3>1. WillRead(f) => WillRead(f)'
        BY <2>1, <2>3 DEF WillRead
      <3> QED
        BY <2>2, <2>3, <2>7, <3>1 DEF ReadEdge, Reported, Avail
    <2>9. FlushEdge(f)'
      <3>1. CASE EchoAll /\ UNCHANGED rdl
        BY <2>2, <2>3, <2>6, <3>1 DEF FlushEdge, Reported, EchoAll
      <3>2. CASE EchoPart /\ Repoll(f)
        <4>1. interest'[f] = {"IN", "OUT"}
          BY <2>1, <2>2, <3>2 DEF EchoPart, Inv, TypeOK
        <4>2. (Space(owner[f]) > 0)' => f \in rdl'
          BY <2>2, <3>2, <4>1, RepollSees
        <4> QED
          BY <4>2 DEF FlushEdge
      <3> QED
        BY <1>2, <2>1, <3>1, <3>2
    <2>10. ASSUME NEW g \in OpenFds, g # f PROVE ReadEdge(g)' /\ FlushEdge(g)'
      <3>1. \A h \in Fds \ {f} : pend'[h] = pend[h]
        BY <1>2, <2>1 DEF EchoAll, EchoPart, Inv, TypeOK
      <3>2. cur' = cur \/ cur'.fd # g
        BY <2>3, OpenFd DEF Done, NoEvent
      <3> QED
        BY <2>1, <2>3, <2>6, <2>7, <2>10, <3>1, <3>2, OtherEdges
    <2> QED
      BY <2>4, <2>8, <2>9, <2>10 DEF EdgeInv
  <1> QED
    BY <1>1, <1>2 DEF EtWrite

\* A step of the loop, or of a signal, that touches no connection.
LEMMA QuietEdge ==
    ASSUME Inv, EdgeInv, EtBoot \/ LoopTest \/ Enter \/ EndBatch \/ EtSignal, rdl' = rdl
    PROVE  EdgeInv'
  <1>1. UNCHANGED <<owner, batch, cur, pend, rst, sent, taken, echo, got>>
    BY DEF EtBoot, Boot, LoopTest, Enter, EndBatch, EtSignal, Signal, sockVars, dataVars
  <1>2. pc \notin {"flush", "read", "write"} \/ (pc' = pc /\ UNCHANGED buf)
    BY DEF EtBoot, Boot, LoopTest, Enter, EndBatch, EtSignal, Signal, dataVars
  <1> SUFFICES ASSUME NEW f \in OpenFds PROVE ReadEdge(f)' /\ FlushEdge(f)'
    BY <1>1 DEF EdgeInv, OpenFds
  <1>3. (WillRead(f) => WillRead(f)') /\ (WillFlush(f) => WillFlush(f)')
    BY <1>1, <1>2 DEF WillRead, WillFlush
  <1> QED
    BY <1>1, <1>3, EdgeKept DEF EdgeInv

\* Whatever the network brings to a connection queues its descriptor.
LEMMA NetworkEdge ==
    ASSUME Inv, EdgeInv, EtNetwork
    PROVE  EdgeInv'
  <1>1. PICK c \in Conns : EtArrives(c) \/ EtRecv(c) \/ EtConnect(c)
    BY DEF EtNetwork
  <1>2. UNCHANGED <<pc, batch, cur, buf, pend, interest>>
    BY DEF EtNetwork, loopVars, dataVars
  <1>3. UNCHANGED <<owner, taken, echo>>
    BY <1>1 DEF EtArrives, EtRecv, EtConnect, ClientSend, ClientShut, ClientClose,
                ResetArrives, ClientRecv, Connect
  <1>4. \A d \in Conns \ {c} : rst'[d] = rst[d] /\ sent'[d] = sent[d] /\ got'[d] = got[d]
    BY <1>1 DEF EtArrives, EtRecv, EtConnect, ClientSend, ClientShut, ClientClose,
                ResetArrives, ClientRecv, Connect, Inv, TypeOK, SocketsTypeOK
  <1>5. rdl \subseteq rdl'
    BY <1>1 DEF EtArrives, EtRecv, EtConnect
  <1> SUFFICES ASSUME NEW f \in OpenFds PROVE ReadEdge(f)' /\ FlushEdge(f)'
    BY <1>3 DEF EdgeInv, OpenFds
  <1>6. /\ ReadEdge(f) /\ FlushEdge(f) /\ f \in Fds /\ owner[f] \in Conns
        /\ interest[f] # {} /\ (pend[f] # <<>> => "OUT" \in interest[f])
    BY OpenFd DEF EdgeInv
  <1>7. CASE owner[f] # c
    <2>1. WillRead(f) => WillRead(f)'
      BY <1>2, <1>3, <1>4, <1>6, <1>7 DEF WillRead
    <2>2. WillFlush(f) => WillFlush(f)'
      BY <1>2 DEF WillFlush
    <2> QED
      BY <1>2, <1>3, <1>4, <1>5, <1>6, <1>7, <2>1, <2>2, EdgeKept
  <1>8. CASE owner[f] = c /\ (EtConnect(c) \/ (EtArrives(c) /\ cl[c] = "shut" /\ rst' = rst))
    <2>1. UNCHANGED <<rst, sent, got>>
      BY <1>8 DEF EtConnect, Connect, EtArrives, ClientSend, ClientShut, ClientClose,
                  ResetArrives
    <2>2. (WillRead(f) => WillRead(f)') /\ (WillFlush(f) => WillFlush(f)')
      BY <1>2, <1>3, <2>1 DEF WillRead, WillFlush
    <2> QED
      BY <1>2, <1>3, <1>5, <1>6, <1>8, <2>1, <2>2, EdgeKept
  <1>9. CASE owner[f] = c /\ EtArrives(c) /\ ~(cl[c] = "shut" /\ rst' = rst)
    <2>1. f \in rdl'
      BY <1>6, <1>9 DEF EtArrives, FdOf
    <2> QED
      BY <2>1 DEF ReadEdge, FlushEdge
  <1>10. CASE owner[f] = c /\ EtRecv(c)
    <2>1. UNCHANGED <<rst, sent>>
      BY <1>10 DEF EtRecv, ClientRecv
    <2>2. WillRead(f) => WillRead(f)'
      BY <1>2, <1>3, <2>1 DEF WillRead
    <2>3. ReadEdge(f)'
      BY <1>2, <1>3, <1>5, <1>6, <2>1, <2>2 DEF ReadEdge, Reported, Avail
    <2>4. pend[f] # <<>> => f \in rdl'
      BY <1>6, <1>10 DEF EtRecv, FdOf
    <2> QED
      BY <1>2, <2>3, <2>4 DEF FlushEdge
  <1> QED
    BY <1>1, <1>7, <1>8, <1>9, <1>10

\* The edges of the clients survive every step.
LEMMA EdgeStep ==
    ASSUME Inv, EdgeInv, [EtNext]_etVars
    PROVE  EdgeInv'
  <1>1. CASE EtBoot \/ EtControl \/ EtSignal
    <2>1. CASE Dispatch /\ rdl' = rdl
      BY <2>1, DispatchEdge
    <2> QED
      BY <1>1, <2>1, QuietEdge DEF EtControl, EtBoot, EtSignal
  <1>2. CASE EtStop \/ EtKill
    <2>1. OpenFds' = {}
      BY <1>2 DEF EtStop, EtKill, Stop, Kill, ProcessExit, OpenFds
    <2> QED
      BY <2>1 DEF EdgeInv
  <1>3. CASE UNCHANGED etVars
    <2>1. UNCHANGED <<sockVars, loopVars, dataVars, rdl>>
      BY <1>3 DEF etVars, vars
    <2> QED
      BY <2>1 DEF EdgeInv, ReadEdge, FlushEdge, Reported, WillRead, WillFlush, OpenFds,
                  Avail, Space, InFlight, sockVars, loopVars, dataVars
  <1> QED
    BY <1>1, <1>2, <1>3, WaitEdge, AcceptEdge, FlushKeepsEdges, ReadEdges, WriteEdges,
       NetworkEdge
       DEF EtNext, EtServer

\* The listener's edge is kept by a step that leaves the backlog alone.
LEMMA ListenerKept ==
    ASSUME ListenerInv, UNCHANGED <<backlog, batch>>, listen_fd \in rdl => listen_fd \in rdl',
           pc = "accept" => pc' = "accept"
    PROVE  ListenerInv'
  BY DEF ListenerInv

\* accept() runs until the queue is empty, unless it meets a full table.
LEMMA ListenerStep ==
    ASSUME Inv, ListenerInv, pc = "accept" => ~AcceptNoFd, [EtNext]_etVars
    PROVE  ListenerInv'
  <1> USE EpollLtAssumption
  <1>1. CASE EtBoot \/ EtControl \/ EtSignal
    <2>1. CASE Dispatch /\ rdl' = rdl
      <3>1. PICK e \in batch :
               /\ batch' = batch \ {e}
               /\ e.fd = listen_fd => pc' = "accept"
        BY <2>1 DEF Dispatch
      <3>2. pc = "next" /\ backlog' = backlog
        BY <2>1 DEF Dispatch, sockVars
      <3> QED
        BY <2>1, <3>1, <3>2 DEF ListenerInv
    <2>2. CASE EtBoot \/ LoopTest \/ Enter \/ EndBatch \/ EtSignal
      <3>1. /\ UNCHANGED <<backlog, batch>> /\ (pc = "accept" => pc' = "accept")
        BY <2>2 DEF EtBoot, Boot, LoopTest, Enter, EndBatch, EtSignal, Signal, sockVars
      <3>2. rdl' = rdl
        BY <1>1 DEF EtBoot, EtControl, EtSignal
      <3> QED
        BY <3>1, <3>2, ListenerKept
    <2> QED
      BY <1>1, <2>1, <2>2 DEF EtControl
  <1>2. CASE EtStop \/ EtKill
    <2>1. backlog' = <<>>
      BY <1>2 DEF EtStop, EtKill, Stop, Kill, ProcessExit
    <2> QED
      BY <2>1 DEF ListenerInv
  <1>3. CASE EtWait
    <2>1. PICK S \in SUBSET rdl :
             /\ batch' = {EventOf(f) : f \in S \cap Ready}
             /\ rdl' = rdl \ S
      BY <1>3 DEF EtWait
    <2>2. pc = "wait" /\ batch = {} /\ backlog' = backlog
      BY <1>3 DEF EtWait, Inv, LoopInv, sockVars
    <2>3. backlog # <<>> => listen_fd \in rdl /\ listen_fd \in Ready
      BY <2>2 DEF ListenerInv, Ready
    <2>4. EventOf(listen_fd).fd = listen_fd
      BY DEF EventOf
    <2> QED
      BY <2>1, <2>2, <2>3, <2>4 DEF ListenerInv
  <1>4. CASE EtAccept
    <2>1. CASE AcceptClient \/ AcceptRefused
      BY <2>1 DEF AcceptClient, AcceptRefused, loopVars, ListenerInv
    <2>2. CASE AcceptStops
      BY <2>2 DEF AcceptStops, AcceptWouldBlock, AcceptNoFd, sockVars, ListenerInv
    <2> QED
      BY <1>4, <2>1, <2>2 DEF EtAccept
  <1>5. CASE EtFlush \/ EtRead \/ EtReadStops \/ EtWrite
    <2>1. pc \in {"flush", "read", "write"} /\ UNCHANGED <<backlog, batch>>
      BY <1>5 DEF EtFlush, EtRead, EtReadStops, EtWrite, FlushWrite, FlushBlocked,
                  FlushBroken, FlushDrained, ReadSome, ReadStops, EchoAll, EchoPart,
                  WriteBroken, AfterEcho, Done, DropClient, loopVars, sockVars
    <2>2. cur.fd # listen_fd
      BY <2>1 DEF Inv, LoopInv
    <2>3. rdl \ {cur.fd} \subseteq rdl'
      BY <1>5 DEF EtFlush, EtRead, EtReadStops, EtWrite, Repoll
    <2> QED
      BY <2>1, <2>2, <2>3, ListenerKept
  <1>6. CASE EtNetwork
    <2>1. PICK c \in Conns : EtArrives(c) \/ EtRecv(c) \/ EtConnect(c)
      BY <1>6 DEF EtNetwork
    <2>2. UNCHANGED <<pc, batch>> /\ rdl \subseteq rdl'
      BY <1>6, <2>1 DEF EtNetwork, EtArrives, EtRecv, EtConnect, loopVars
    <2>3. CASE EtConnect(c)
      BY <2>3 DEF EtConnect, ListenerInv
    <2>4. CASE EtArrives(c) \/ EtRecv(c)
      <3>1. backlog' = backlog
        BY <2>4 DEF EtArrives, EtRecv, ClientSend, ClientShut, ClientClose, ResetArrives,
                    ClientRecv
      <3> QED
        BY <2>2, <3>1, ListenerKept
    <2> QED
      BY <2>1, <2>3, <2>4
  <1>7. CASE UNCHANGED etVars
    <2>1. UNCHANGED <<pc, batch, backlog, rdl>>
      BY <1>7 DEF etVars, vars, sockVars, loopVars
    <2> QED
      BY <2>1, ListenerKept
  <1> QED
    BY <1>1, <1>2, <1>3, <1>4, <1>5, <1>6, <1>7 DEF EtNext, EtServer

\* Initially there is nothing to report.
LEMMA EdgeInit == EtInit => EdgeInv /\ ListenerInv
  BY DEF EtInit, Init, SocketsInit, EdgeInv, ListenerInv, OpenFds

\* Asleep, the thread has nothing in hand: what is announced is on the list.
LEMMA AsleepEdges == Inv /\ EdgeInv /\ ListenerInv => NoLostEdge
  <1> SUFFICES ASSUME Inv, EdgeInv, ListenerInv, pc = "wait" PROVE NoLostEdge
    BY DEF NoLostEdge
  <1>1. batch = {}
    BY DEF Inv, LoopInv
  <1> QED
    BY <1>1 DEF NoLostEdge, EdgeInv, ReadEdge, FlushEdge, Reported, WillRead, WillFlush,
                ListenerInv

(***************************************************************************)
(* The edges of the clients are kept whatever happens: the short-read      *)
(* break, a full socket, a reset in the middle of an answer.               *)
(***************************************************************************)
THEOREM ClientEdgesAreKept == EtSpec => []EdgeInv
  <1>1. Inv /\ EdgeInv /\ [EtNext]_etVars => EdgeInv'
    BY EdgeStep
  <1> QED
    BY <1>1, EtInvariance, EdgeInit, PTL DEF EtSpec

(***************************************************************************)
(* The thread never sleeps on work of which no edge is queued, as long as  *)
(* accept() never meets a full descriptor table: leaving the accept loop   *)
(* with EMFILE is what uses up the edge of the listener.                   *)
(***************************************************************************)
THEOREM NoEdgeIsLost ==
    EtSpec /\ [](pc = "accept" => ~AcceptNoFd) => []NoLostEdge
  <1>1. /\ Inv /\ ListenerInv /\ (pc = "accept" => ~AcceptNoFd) /\ [EtNext]_etVars
        => ListenerInv'
    BY ListenerStep
  <1> QED
    BY <1>1, EtInvariance, EdgeInit, ClientEdgesAreKept, AsleepEdges, PTL DEF EtSpec

\* With a descriptor for every connection there is no EMFILE.
THEOREM NoEdgeIsLostWithEnoughFds ==
    ASSUME IsFiniteSet(Conns), Cardinality(Conns) <= Cardinality(Fds)
    PROVE  EtSpec => []NoLostEdge
  <1>1. Inv => (pc = "accept" => ~AcceptNoFd)
    BY EnoughFds DEF Inv, TypeOK
  <1> QED
    BY <1>1, EtInvariance, NoEdgeIsLost, PTL
=============================================================================
