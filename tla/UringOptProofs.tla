--------------------------- MODULE UringOptProofs ---------------------------
(***************************************************************************)
(* Proofs about UringOpt, for every set of connections, descriptors and    *)
(* buffers, every size of the submission queue and either way of running   *)
(* completions.                                                            *)
(*                                                                         *)
(*   BuffersAreConserved      Spec => []BuffersConserved                   *)
(*   RecvsAreArmed            Spec => []RecvArmed                          *)
(*   OneRecvEach              Spec => [](starved = 0 => OneRecv)           *)
(*   EveryByteWaitsOnce       Spec /\ [](starved = 0) => []WaitsOnce       *)
(*   NothingIsDropped         Spec /\ [](starved = 0) => []NothingDropped  *)
(*   UringOptImplementsEcho   Spec /\ [](starved = 0) => ImplementsEcho    *)
(*                                                                         *)
(* the last four for clients that leave when they have been answered.     *)
(***************************************************************************)
EXTENDS UringOpt, SocketsProofs, SumTheorems

-----------------------------------------------------------------------------
(* Counting the entries of a queue.                                        *)

\* The positions of s that hold a member of P.
Matches(s, P) == {i \in DOMAIN s : s[i] \in P}

\* They are finitely many.
LEMMA MatchesNat ==
    ASSUME NEW S, NEW s \in Seq(S), NEW P
    PROVE  IsFiniteSet(Matches(s, P)) /\ Cardinality(Matches(s, P)) \in Nat
  <1>1. Matches(s, P) \subseteq 1..Len(s) /\ Len(s) \in Int
    BY DEF Matches
  <1>2. IsFiniteSet(1..Len(s))
    BY <1>1, FS_Interval
  <1> QED
    BY <1>1, <1>2, FS_Subset, FS_CardinalityType

\* A new last entry counts for itself.
LEMMA MatchesAppend ==
    ASSUME NEW S, NEW s \in Seq(S), NEW P, NEW e \in S
    PROVE  Cardinality(Matches(Append(s, e), P))
              = Cardinality(Matches(s, P)) + (IF e \in P THEN 1 ELSE 0)
  <1>1. Len(s) + 1 \notin Matches(s, P)
    BY DEF Matches
  <1>2. Matches(Append(s, e), P)
           = IF e \in P THEN Matches(s, P) \cup {Len(s) + 1} ELSE Matches(s, P)
    BY DEF Matches
  <1>3. IsFiniteSet(Matches(s, P)) /\ Cardinality(Matches(s, P)) \in Nat
    BY MatchesNat
  <1>4. Cardinality(Matches(s, P) \cup {Len(s) + 1}) = Cardinality(Matches(s, P)) + 1
    BY <1>1, <1>3, FS_AddElement
  <1> QED
    BY <1>2, <1>3, <1>4

\* The first entry taken away no longer counts.
LEMMA MatchesTail ==
    ASSUME NEW S, NEW s \in Seq(S), NEW P, s # <<>>
    PROVE  Cardinality(Matches(s, P))
              = Cardinality(Matches(Tail(s), P)) + (IF Head(s) \in P THEN 1 ELSE 0)
  <1> DEFINE M == Matches(s, P)
             T == Matches(Tail(s), P)
             next == [i \in T |-> i + 1]
  <1>1. T \subseteq Nat /\ M \subseteq Nat
    BY DEF Matches
  <1>2. \A i \in T : i + 1 \in M \ {1}
    BY DEF Matches
  <1>3. \A j \in M \ {1} : j - 1 \in T
    BY DEF Matches
  <1>4. 1 \in M <=> Head(s) \in P
    BY DEF Matches
  <1>5. Tail(s) \in Seq(S)
    OBVIOUS
  <1> HIDE DEF M, T
  <1>6. next \in Bijection(T, M \ {1})
    <2>1. next \in Injection(T, M \ {1})
      BY <1>1, <1>2 DEF Injection, IsInjective
    <2>2. next \in Surjection(T, M \ {1})
      BY <1>1, <1>2, <1>3 DEF Surjection
    <2> QED
      BY <2>1, <2>2 DEF Bijection
  <1>7. IsFiniteSet(T) /\ IsFiniteSet(M) /\ Cardinality(T) \in Nat /\ Cardinality(M) \in Nat
    BY <1>5, MatchesNat DEF T, M
  <1>8. Cardinality(M \ {1}) = Cardinality(T)
    BY <1>6, <1>7, FS_Bijection DEF ExistsBijection
  <1>9. Cardinality(M \ {1}) = IF 1 \in M THEN Cardinality(M) - 1 ELSE Cardinality(M)
    BY <1>7, FS_RemoveElement
  <1>10. Cardinality(M) = Cardinality(T) + (IF Head(s) \in P THEN 1 ELSE 0)
    BY <1>4, <1>7, <1>8, <1>9
  <1> QED
    BY <1>10 DEF M, T

-----------------------------------------------------------------------------
(* The invariants.                                                         *)

\* Submission and completion queue entries that the program and the kernel make.
FdNums == Fds \cup {listen_fd}
Ops == {"accept", "recv", "send"}

Sqes ==
    {s \in [op : Ops, fd : FdNums, bid : Bids \cup {NoBid}] :
        /\ s.op = "send" <=> s.bid # NoBid
        /\ s.op # "accept" => s.fd \in Fds}

Cqes ==
    {e \in [op : Ops, fd : FdNums, bid : Bids \cup {NoBid},
            res : {"ok", "nobufs", "bad"}, len : Nat, more : BOOLEAN] :
        /\ e.op = "accept" => e.bid = NoBid /\ (e.res = "ok" <=> e.fd \in Fds)
        /\ e.op = "send" => e.bid # NoBid
        /\ e.op = "recv" => (e.bid # NoBid <=> e.len > 0)
        /\ e.op # "accept" => e.fd \in Fds
        /\ e.res = "nobufs" => e.op = "recv" /\ e.len = 0}

TypeOK ==
    /\ SocketsTypeOK
    /\ pc \in {"boot", "submit", "wait", "reap", "rearm", "flush", "exit"}
    /\ back \in {"reap", "rearm"}
    /\ sq \in Seq(Sqes)
    /\ accepting \in BOOLEAN
    /\ recvs \in [Conns -> Nat]
    /\ num \in [Conns -> FdNums]
    /\ sends \subseteq [who : Conns, fd : Fds, bid : Bids]
    /\ cq \in Seq(Cqes)
    /\ free \subseteq Bids
    /\ store \in [Bids -> Seq(Byte)]
    /\ active \in [Fds -> BOOLEAN]
    /\ starved \in Nat /\ g_events \in Nat /\ g_requests \in Nat

\* The CQE in hand while its re-arm test is still to come.
InHand == pc = "rearm" \/ (pc = "flush" /\ back = "rearm")

LoopInv ==
    /\ InHand => cq # <<>> /\ Head(cq).op = "recv"
    /\ pc = "wait" => sq = <<>>
    /\ pc = "boot" => sq = <<>> /\ cq = <<>> /\ sends = {}
    /\ pc \in {"boot", "exit"} => OpenFds = {}
    /\ \A c \in Conns : recvs[c] > 0 => num[c] \in Fds

-----------------------------------------------------------------------------
(* Types.                                                                  *)

\* The entries the program prepares.
LEMMA SqeTypes ==
    /\ Sqe("accept", listen_fd, NoBid) \in Sqes
    /\ \A f \in Fds : Sqe("recv", f, NoBid) \in Sqes
    /\ \A f \in Fds, b \in Bids : Sqe("send", f, b) \in Sqes
  BY UringOptAssumption DEF Sqe, Sqes, Ops, FdNums, NoBid

\* The entries the kernel posts.
LEMMA CqeTypes ==
    /\ Cqe("accept", listen_fd, NoBid, "bad", 0, FALSE) \in Cqes
    /\ \A f \in Fds : Cqe("accept", f, NoBid, "ok", 0, TRUE) \in Cqes
    /\ \A f \in Fds, b \in Bids, n \in Nat, r \in {"ok", "bad"} :
          Cqe("send", f, b, r, n, FALSE) \in Cqes
    /\ \A f \in Fds, b \in Bids, n \in Nat \ {0}, m \in BOOLEAN :
          Cqe("recv", f, b, "ok", n, m) \in Cqes
    /\ \A f \in Fds, r \in {"ok", "nobufs", "bad"} :
          Cqe("recv", f, NoBid, r, 0, FALSE) \in Cqes
  <1> USE UringOptAssumption DEF Cqe, Cqes, Ops, FdNums, NoBid
  <1>1. /\ Cqe("accept", listen_fd, NoBid, "bad", 0, FALSE) \in Cqes
        /\ \A f \in Fds : Cqe("accept", f, NoBid, "ok", 0, TRUE) \in Cqes
    OBVIOUS
  <1>2. \A f \in Fds, b \in Bids, n \in Nat, r \in {"ok", "bad"} :
          Cqe("send", f, b, r, n, FALSE) \in Cqes
    OBVIOUS
  <1>3. \A f \in Fds, b \in Bids, n \in Nat \ {0}, m \in BOOLEAN :
          Cqe("recv", f, b, "ok", n, m) \in Cqes
    OBVIOUS
  <1>4. \A f \in Fds, r \in {"ok", "nobufs", "bad"} :
          Cqe("recv", f, NoBid, r, 0, FALSE) \in Cqes
    OBVIOUS
  <1> QED
    BY <1>1, <1>2, <1>3, <1>4, Zenon

\* Appending an entry keeps the type of a queue.
LEMMA AppendTypes ==
    /\ \A q \in Seq(Sqes), s \in Sqes : Append(q, s) \in Seq(Sqes)
    /\ \A q \in Seq(Cqes), e \in Cqes : Append(q, e) \in Seq(Cqes)
    /\ \A q \in Seq(Sqes) : q # <<>> => Head(q) \in Sqes /\ Tail(q) \in Seq(Sqes)
    /\ \A q \in Seq(Cqes) : q # <<>> => Head(q) \in Cqes /\ Tail(q) \in Seq(Cqes)
    /\ <<>> \in Seq(Sqes) /\ <<>> \in Seq(Cqes)
  OBVIOUS

\* The first completion, and what is left of the queue.
LEMMA HeadTypes ==
    ASSUME TypeOK, cq # <<>>
    PROVE  Head(cq) \in Cqes /\ Tail(cq) \in Seq(Cqes)
  BY DEF TypeOK

\* What a send of an entry does: a completion, and bytes that fit.
LEMMA TransmitTypes ==
    ASSUME TypeOK, NEW c \in Conns, NEW f \in Fds, NEW b \in Bids, Transmit(c, f, b)
    PROVE  /\ echo' \in [Conns -> Seq(Byte)]
           /\ \E e \in Cqes : /\ cq' = Append(cq, e)
                              /\ e.op = "send" /\ e.fd = f /\ e.bid = b
  <1>1. CASE rst[c]
    <2> DEFINE e == Cqe("send", f, b, "bad", 0, FALSE)
    <2>1. e \in Cqes
      BY CqeTypes
    <2>2. e.op = "send" /\ e.fd = f /\ e.bid = b
      BY DEF Cqe
    <2>3. cq' = Append(cq, e) /\ echo' = echo
      BY <1>1 DEF Transmit, Post
    <2> QED
      BY <2>1, <2>2, <2>3 DEF TypeOK, SocketsTypeOK
  <1>2. CASE ~rst[c]
    <2> DEFINE n == WriteLen(c, store[b])
               e == Cqe("send", f, b, "ok", n, FALSE)
    <2>1. Space(c) > 0 /\ echo' = [echo EXCEPT ![c] = @ \o SubSeq(store[b], 1, n)]
      BY <1>2 DEF Transmit, Write
    <2>2. store[b] \in Seq(Byte) /\ echo[c] \in Seq(Byte)
      BY DEF TypeOK, SocketsTypeOK
    <2>3. n \in Nat /\ n <= Len(store[b])
      <3>1. Space(c) \in Int
        BY SocketsAssumption DEF TypeOK, SocketsTypeOK, Space, InFlight
      <3> QED
        BY <2>1, <2>2, <3>1 DEF WriteLen, Lesser
    <2> HIDE DEF n
    <2>4. SubSeq(store[b], 1, n) \in Seq(Byte)
      BY <2>2, <2>3, SubSeqType
    <2>5. echo[c] \o SubSeq(store[b], 1, n) \in Seq(Byte)
      BY <2>2, <2>4, ConcatType
    <2>6. echo' \in [Conns -> Seq(Byte)]
      BY <2>1, <2>5 DEF TypeOK, SocketsTypeOK
    <2>7. e \in Cqes
      BY <2>3, CqeTypes
    <2>8. e.op = "send" /\ e.fd = f /\ e.bid = b
      BY DEF Cqe
    <2>9. cq' = Append(cq, e)
      BY <1>2 DEF Transmit, Post, n
    <2> QED
      BY <2>6, <2>7, <2>8, <2>9
  <1> QED
    BY <1>1, <1>2

\* So the kernel's variables keep their types.
LEMMA TransmitPosts ==
    ASSUME TypeOK, NEW c \in Conns, NEW f \in Fds, NEW b \in Bids, Transmit(c, f, b)
    PROVE  echo' \in [Conns -> Seq(Byte)] /\ cq' \in Seq(Cqes)
  <1>1. echo' \in [Conns -> Seq(Byte)]
    BY TransmitTypes
  <1>2. PICK e \in Cqes : cq' = Append(cq, e)
    BY TransmitTypes
  <1>3. cq' \in Seq(Cqes)
    BY <1>2, AppendTypes DEF TypeOK
  <1> QED
    BY <1>1, <1>3

\* close() of a number keeps the types.
LEMMA CloseTypes ==
    ASSUME SocketsTypeOK, NEW f \in Fds, CloseNumber(f)
    PROVE  /\ owner' \in [Fds -> Conns \cup {NoConn}]
           /\ phase' \in [Conns -> {"none", "queued", "open", "done"}]
  <1>1. CASE owner[f] = NoConn
    BY <1>1 DEF SocketsTypeOK, CloseNumber
  <1>2. CASE owner[f] # NoConn
    BY <1>2 DEF SocketsTypeOK, CloseNumber, CloseFd
  <1> QED
    BY <1>1, <1>2

\* The CQE in hand is a recv's, so its number is a client's.
LEMMA HandTypes ==
    ASSUME TypeOK, LoopInv, InHand
    PROVE  /\ cq # <<>> /\ Head(cq) \in Cqes /\ Head(cq).op = "recv"
           /\ Head(cq).fd \in Fds
  BY AppendTypes DEF TypeOK, LoopInv, Cqes

\* Every step preserves the type invariant.
LEMMA TypeStep ==
    ASSUME TypeOK, OwnerInv, LoopInv, [Next]_uVars
    PROVE  TypeOK'
  <1>1. CASE Boot
    <2>1. CASE sq' = <<Sqe("accept", listen_fd, NoBid)>>
      <3>1. sq' \in Seq(Sqes)
        BY <2>1, SqeTypes
      <3> QED
        BY <1>1, <3>1 DEF Boot, TypeOK, SocketsTypeOK, kernVars, statVars
    <2>2. CASE UNCHANGED <<listening, free, sq>>
      BY <1>1, <2>2 DEF Boot, TypeOK, SocketsTypeOK, kernVars, statVars
    <2> QED
      BY <1>1, <2>1, <2>2 DEF Boot
  <1>2. CASE Kill
    BY <1>2, ExitTypes, AppendTypes DEF Kill, TypeOK, statVars
  <1>3. CASE Issue
    <2> DEFINE s == Head(sq)
               c == IF s.op = "accept" THEN NoConn ELSE owner[s.fd]
    <2>1. s \in Sqes /\ sq' \in Seq(Sqes)
      BY <1>3, AppendTypes DEF Issue, TypeOK
    <2>2. s.op # "accept" => s.fd \in Fds /\ c \in Conns \cup {NoConn}
      BY <2>1 DEF Sqes, TypeOK, SocketsTypeOK
    <2>3. s.op = "send" => s.bid \in Bids
      BY <2>1 DEF Sqes
    <2>4. s.op \in {"accept", "recv", "send"}
      BY <2>1 DEF Sqes, Ops
    <2>5. UNCHANGED <<listening, backlog, phase, owner, cl, rst, sent, taken, got,
                      bufVars, statVars, pc, back, active>>
      BY <1>3 DEF Issue
    <2> HIDE DEF s
    <2>6. CASE accepting' = TRUE /\ UNCHANGED <<recvs, num, sends, cq, echo>>
      BY <2>1, <2>5, <2>6 DEF TypeOK, SocketsTypeOK, bufVars, statVars
    <2>7. CASE /\ s.op # "accept"
               /\ Post(Cqe(s.op, s.fd, s.bid, "bad", 0, FALSE))
               /\ UNCHANGED <<accepting, recvs, num, sends, echo>>
      <3>1. Cqe(s.op, s.fd, s.bid, "bad", 0, FALSE) \in Cqes
        <4>1. CASE s.op = "recv"
          BY <2>1, <2>2, <2>7, <4>1, CqeTypes DEF Sqes
        <4>2. CASE s.op = "send"
          BY <2>2, <2>3, <2>7, <4>2, CqeTypes
        <4> QED
          BY <2>4, <2>7, <4>1, <4>2
      <3>2. cq' \in Seq(Cqes)
        BY <2>7, <3>1, AppendTypes DEF Post, TypeOK
      <3> QED
        BY <2>1, <2>5, <2>7, <3>2 DEF TypeOK, SocketsTypeOK, bufVars, statVars
    <2>8. CASE /\ s.op = "recv" /\ c # NoConn
               /\ recvs' = [recvs EXCEPT ![c] = @ + 1]
               /\ num' = [num EXCEPT ![c] = s.fd]
               /\ UNCHANGED <<accepting, sends, cq, echo>>
      <3>1. c \in Conns /\ s.fd \in FdNums
        BY <2>2, <2>8 DEF FdNums
      <3> HIDE DEF c
      <3>2. recvs' \in [Conns -> Nat] /\ num' \in [Conns -> FdNums]
        BY <2>8, <3>1 DEF TypeOK
      <3> QED
        BY <2>1, <2>5, <2>8, <3>2 DEF TypeOK, SocketsTypeOK, bufVars, statVars
    <2>9. CASE /\ s.op = "send" /\ c # NoConn
               /\ Transmit(c, s.fd, s.bid)
               /\ UNCHANGED <<accepting, recvs, num, sends>>
      <3>1. echo' \in [Conns -> Seq(Byte)] /\ cq' \in Seq(Cqes)
        <4>1. c \in Conns /\ s.fd \in Fds /\ s.bid \in Bids
          BY <2>2, <2>3, <2>9
        <4> QED
          BY <2>9, <4>1, TransmitPosts
      <3> QED
        BY <2>1, <2>5, <2>9, <3>1 DEF TypeOK, SocketsTypeOK, bufVars, statVars
    <2>10. CASE /\ s.op = "send" /\ c # NoConn
                /\ sends' = sends \cup {[who |-> c, fd |-> s.fd, bid |-> s.bid]}
                /\ UNCHANGED <<accepting, recvs, num, cq, echo>>
      <3>1. c \in Conns /\ s.fd \in Fds /\ s.bid \in Bids
        BY <2>2, <2>3, <2>10
      <3> HIDE DEF c
      <3>2. sends' \subseteq [who : Conns, fd : Fds, bid : Bids]
        BY <2>10, <3>1 DEF TypeOK
      <3> QED
        BY <2>1, <2>5, <2>10, <3>2 DEF TypeOK, SocketsTypeOK, bufVars, statVars
    <2> QED
      BY <1>3, <2>6, <2>7, <2>8, <2>9, <2>10 DEF Issue, s
  <1>4. CASE Issued \/ Return \/ Flush \/ EndRound
    BY <1>4 DEF Issued, Return, Flush, EndRound, TypeOK, SocketsTypeOK, sockVars,
                kernVars, bufVars, statVars
  <1>5. CASE CompleteAccept
    <2>1. CASE \E f \in Fds :
                  /\ AcceptAs(f)
                  /\ owner' = [owner EXCEPT ![f] = Head(backlog)]
                  /\ phase' = [phase EXCEPT ![Head(backlog)] = "open"]
                  /\ Post(Cqe("accept", f, NoBid, "ok", 0, TRUE))
                  /\ UNCHANGED accepting
      <3>1. PICK f \in Fds :
                  /\ AcceptAs(f)
                  /\ owner' = [owner EXCEPT ![f] = Head(backlog)]
                  /\ phase' = [phase EXCEPT ![Head(backlog)] = "open"]
                  /\ Post(Cqe("accept", f, NoBid, "ok", 0, TRUE))
                  /\ UNCHANGED accepting
        BY <2>1
      <3>2. /\ backlog' \in Seq(Conns)
            /\ owner' \in [Fds -> Conns \cup {NoConn}]
            /\ phase' \in [Conns -> {"none", "queued", "open", "done"}]
        BY <3>1, AcceptOwner DEF TypeOK
      <3>3. cq' \in Seq(Cqes)
        BY <3>1, CqeTypes, AppendTypes DEF Post, TypeOK
      <3> QED
        BY <1>5, <3>1, <3>2, <3>3
           DEF CompleteAccept, TypeOK, SocketsTypeOK, bufVars, statVars
    <2>2. CASE /\ Post(Cqe("accept", listen_fd, NoBid, "bad", 0, FALSE))
               /\ accepting' = FALSE
               /\ UNCHANGED <<owner, phase, backlog>>
      <3>1. cq' \in Seq(Cqes)
        BY <2>2, CqeTypes, AppendTypes DEF Post, TypeOK
      <3> QED
        BY <1>5, <2>2, <3>1 DEF CompleteAccept, TypeOK, SocketsTypeOK, bufVars, statVars
    <2> QED
      BY <1>5, <2>1, <2>2 DEF CompleteAccept
  <1>6. CASE \E c \in Conns : CompleteRecv(c)
    <2>1. PICK c \in Conns : CompleteRecv(c)
      BY <1>6
    <2>2. num[c] \in Fds /\ recvs[c] \in Nat /\ recvs[c] > 0
      BY <2>1 DEF CompleteRecv, LoopInv, TypeOK
    <2>3. CASE \E b \in free, more \in {TRUE, ~RecvMayEnd} :
                /\ Avail(c) > 0
                /\ free' = free \ {b}
                /\ store' = [store EXCEPT ![b] = ReadData(c)]
                /\ taken' = [taken EXCEPT ![c] = @ + ReadLen(c)]
                /\ recvs' = [recvs EXCEPT ![c] = IF more THEN @ ELSE @ - 1]
                /\ Post(Cqe("recv", num[c], b, "ok", ReadLen(c), more))
                /\ UNCHANGED starved
      <3>1. PICK b \in free, more \in {TRUE, ~RecvMayEnd} :
                /\ Avail(c) > 0
                /\ free' = free \ {b}
                /\ store' = [store EXCEPT ![b] = ReadData(c)]
                /\ taken' = [taken EXCEPT ![c] = @ + ReadLen(c)]
                /\ recvs' = [recvs EXCEPT ![c] = IF more THEN @ ELSE @ - 1]
                /\ Post(Cqe("recv", num[c], b, "ok", ReadLen(c), more))
                /\ UNCHANGED starved
        BY <2>3
      <3>2. ReadLen(c) \in Nat \ {0} /\ taken[c] \in Nat
        BY <3>1, SocketsAssumption DEF ReadLen, Lesser, Avail, TypeOK, SocketsTypeOK
      <3>3. ReadData(c) \in Seq(Byte)
        BY <3>2, BytesType DEF ReadData
      <3>4. b \in Bids /\ more \in BOOLEAN
        BY <3>1, UringOptAssumption DEF TypeOK
      <3>5. cq' \in Seq(Cqes)
        BY <2>2, <3>1, <3>2, <3>4, CqeTypes, AppendTypes DEF Post, TypeOK
      <3>6. /\ store' \in [Bids -> Seq(Byte)] /\ free' \subseteq Bids
            /\ recvs' \in [Conns -> Nat]
        BY <2>2, <3>1, <3>3 DEF TypeOK
      <3>7. taken' \in [Conns -> Nat]
        BY <3>1, <3>2 DEF TypeOK, SocketsTypeOK
      <3> QED
        BY <2>1, <3>1, <3>5, <3>6, <3>7 DEF CompleteRecv, TypeOK, SocketsTypeOK
    <2>4. CASE \E r \in {"ok", "nobufs", "bad"} :
                /\ recvs' = [recvs EXCEPT ![c] = @ - 1]
                /\ Post(Cqe("recv", num[c], NoBid, r, 0, FALSE))
                /\ starved' \in {starved, starved + 1}
                /\ UNCHANGED <<bufVars, taken>>
      <3>1. cq' \in Seq(Cqes)
        <4>1. PICK r \in {"ok", "nobufs", "bad"} : Post(Cqe("recv", num[c], NoBid, r, 0, FALSE))
          BY <2>4
        <4>2. Cqe("recv", num[c], NoBid, r, 0, FALSE) \in Cqes
          BY <2>2, CqeTypes
        <4> QED
          BY <4>1, <4>2, AppendTypes DEF Post, TypeOK
      <3>2. recvs' \in [Conns -> Nat] /\ starved' \in Nat
        BY <2>2, <2>4 DEF TypeOK
      <3>3. UNCHANGED <<bufVars, taken>>
        BY <2>4
      <3> QED
        BY <2>1, <3>1, <3>2, <3>3 DEF CompleteRecv, TypeOK, SocketsTypeOK, bufVars
    <2> QED
      <3>1. CASE /\ Avail(c) > 0 /\ starved' = starved + 1
                 /\ recvs' = [recvs EXCEPT ![c] = @ - 1]
                 /\ Post(Cqe("recv", num[c], NoBid, "nobufs", 0, FALSE))
                 /\ UNCHANGED <<bufVars, taken>>
        BY <2>4, <3>1
      <3>2. CASE /\ recvs' = [recvs EXCEPT ![c] = @ - 1]
                 /\ Post(Cqe("recv", num[c], NoBid, IF rst[c] THEN "bad" ELSE "ok", 0, FALSE))
                 /\ UNCHANGED <<bufVars, taken, starved>>
        BY <2>4, <3>2
      <3> QED
        BY <2>1, <2>3, <3>1, <3>2 DEF CompleteRecv
  <1>7. CASE CompleteSend
    <2>1. PICK s \in sends : Transmit(s.who, s.fd, s.bid) /\ sends' = sends \ {s}
      BY <1>7 DEF CompleteSend
    <2>2. s.who \in Conns /\ s.fd \in Fds /\ s.bid \in Bids /\ sends' \subseteq sends
      BY <2>1 DEF TypeOK
    <2>3. echo' \in [Conns -> Seq(Byte)] /\ cq' \in Seq(Cqes)
      BY <2>1, <2>2, TransmitPosts
    <2> QED
      BY <1>7, <2>2, <2>3 DEF CompleteSend, TypeOK, SocketsTypeOK, bufVars, statVars
  <1>8. CASE ReapAccept
    <2> DEFINE e == Head(cq)
    <2>1. e \in Cqes /\ e.op = "accept" /\ cq' \in Seq(Cqes) /\ pc' = "reap"
      BY <1>8, HeadTypes DEF ReapAccept, Reaping, NextCqe
    <2>2. e.res = "ok" => e.fd \in Fds
      BY <2>1 DEF Cqes
    <2> HIDE DEF e
    <2>3. sq' \in Seq(Sqes)
      <3>1. CASE e.res = "ok" /\ AddSqe(Sqe("recv", e.fd, NoBid))
        BY <2>2, <3>1, SqeTypes, AppendTypes DEF AddSqe, TypeOK
      <3>2. CASE AddSqe(Sqe("accept", listen_fd, NoBid))
        BY <3>2, SqeTypes, AppendTypes DEF AddSqe, TypeOK
      <3>3. CASE sq' = sq
        BY <3>3 DEF TypeOK
      <3> QED
        BY <1>8, <3>1, <3>2, <3>3 DEF ReapAccept, e
    <2>4. active' \in [Fds -> BOOLEAN]
      BY <1>8 DEF ReapAccept, TypeOK
    <2>5. /\ owner' \in [Fds -> Conns \cup {NoConn}]
          /\ phase' \in [Conns -> {"none", "queued", "open", "done"}]
      BY <1>8, <2>2, CloseTypes DEF ReapAccept, TypeOK, SocketsTypeOK, e
    <2> QED
      BY <1>8, <2>1, <2>3, <2>4, <2>5
         DEF ReapAccept, TypeOK, SocketsTypeOK, kernVars, bufVars, statVars
  <1>9. CASE ReapRecv
    <2> DEFINE e == Head(cq)
    <2>1. e \in Cqes /\ e.op = "recv" /\ e.fd \in Fds /\ (e.len > 0 => e.bid \in Bids)
      BY <1>9, HeadTypes DEF ReapRecv, Reaping, Cqes
    <2> HIDE DEF e
    <2>2. sq' \in Seq(Sqes) /\ g_events' \in Nat
      <3>1. CASE e.len > 0 /\ AddSqe(Sqe("send", e.fd, e.bid)) /\ g_events' = g_events + 1
        BY <2>1, <3>1, SqeTypes, AppendTypes DEF AddSqe, TypeOK
      <3>2. CASE AddSqe(Sqe("recv", e.fd, NoBid)) /\ UNCHANGED g_events
        BY <2>1, <3>2, SqeTypes, AppendTypes DEF AddSqe, TypeOK
      <3> QED
        BY <1>9, <3>1, <3>2 DEF ReapRecv, e
    <2> QED
      BY <1>9, <2>2 DEF ReapRecv, TypeOK, SocketsTypeOK, sockVars, kernVars, bufVars
  <1>10. CASE Rearm
    <2> DEFINE e == Head(cq)
    <2>1. e.fd \in Fds /\ cq' \in Seq(Cqes) /\ pc' = "reap"
      BY <1>10, HandTypes, HeadTypes DEF Rearm, InHand, NextCqe
    <2> HIDE DEF e
    <2>2. sq' \in Seq(Sqes)
      <3>1. CASE AddSqe(Sqe("recv", e.fd, NoBid))
        BY <2>1, <3>1, SqeTypes, AppendTypes DEF AddSqe, TypeOK
      <3>2. CASE sq' = sq
        BY <3>2 DEF TypeOK
      <3> QED
        BY <1>10, <3>1, <3>2 DEF Rearm, e
    <2> QED
      BY <1>10, <2>1, <2>2
         DEF Rearm, TypeOK, SocketsTypeOK, sockVars, kernVars, bufVars, statVars
  <1>11. CASE ReapEof \/ ReapSend
    <2> DEFINE e == Head(cq)
    <2>1. e \in Cqes /\ e.op \in {"recv", "send"} /\ cq' \in Seq(Cqes) /\ pc' = "reap"
      BY <1>11, HeadTypes DEF ReapEof, ReapSend, Reaping, NextCqe
    <2>2. e.fd \in Fds /\ (e.op = "send" => e.bid \in Bids)
      BY <2>1 DEF Cqes
    <2> HIDE DEF e
    <2>3. /\ owner' \in [Fds -> Conns \cup {NoConn}]
          /\ phase' \in [Conns -> {"none", "queued", "open", "done"}]
      BY <1>11, <2>2, CloseTypes DEF ReapEof, ReapSend, TypeOK, SocketsTypeOK, e
    <2>4. active' \in [Fds -> BOOLEAN]
      BY <1>11 DEF ReapEof, ReapSend, TypeOK
    <2>5. /\ free' \subseteq Bids /\ store' \in [Bids -> Seq(Byte)]
          /\ g_requests' \in Nat
      <3>1. CASE ReapEof
        BY <3>1 DEF ReapEof, TypeOK, bufVars, statVars
      <3>2. CASE ReapSend
        <4>1. e.bid \in Bids
          BY <2>2, <3>2 DEF ReapSend, Reaping, e
        <4> QED
          BY <3>2, <4>1 DEF ReapSend, TypeOK, e
      <3> QED
        BY <1>11, <3>1, <3>2
    <2> QED
      BY <1>11, <2>1, <2>3, <2>4, <2>5
         DEF ReapEof, ReapSend, TypeOK, SocketsTypeOK, kernVars, bufVars, statVars
  <1>12. CASE Network
    BY <1>12, ClientTypes DEF Network, TypeOK, kernVars, bufVars, statVars
  <1>13. CASE UNCHANGED uVars
    BY <1>13 DEF uVars, TypeOK, SocketsTypeOK, sockVars, kernVars, bufVars, statVars
  <1> QED
    BY <1>1, <1>2, <1>3, <1>4, <1>5, <1>6, <1>7, <1>8, <1>9, <1>10, <1>11, <1>12, <1>13
       DEF Next, Submit, Kernel, Loop

\* A completion posted behind the one in hand leaves that one in front.
LEMMA BehindHead ==
    ASSUME NEW S, NEW q \in Seq(S), NEW e, q # <<>>
    PROVE  /\ Append(q, e) # <<>>
           /\ Head(Append(q, e)) = Head(q)
           /\ Tail(Append(q, e)) = Append(Tail(q), e)
  <1> DEFINE T == S \cup {e}
  <1>1. q \in Seq(T) /\ e \in T
    OBVIOUS
  <1> HIDE DEF T
  <1>2. /\ Append(q, e) \in Seq(T) /\ Len(Append(q, e)) = Len(q) + 1 /\ Len(q) >= 1
        /\ Append(q, e)[1] = q[1]
    BY <1>1
  <1>3. Append(q, e) # <<>> /\ Head(Append(q, e)) = Head(q)
    BY <1>1, <1>2
  <1>4. Tail(Append(q, e)) = Append(Tail(q), e)
    <2>1. /\ Tail(Append(q, e)) \in Seq(T) /\ Append(Tail(q), e) \in Seq(T)
          /\ Len(Tail(Append(q, e))) = Len(q) /\ Len(Append(Tail(q), e)) = Len(q)
      BY <1>1, <1>2
    <2>2. \A i \in 1..Len(q) : Tail(Append(q, e))[i] = Append(Tail(q), e)[i]
      BY <1>1, <1>2
    <2> QED
      BY <2>1, <2>2, SeqEqual
  <1> QED
    BY <1>3, <1>4

\* Every step preserves the loop invariant.
LEMMA LoopStep ==
    ASSUME TypeOK, OwnerInv, LoopInv, [Next]_uVars
    PROVE  LoopInv'
  <1> USE DEF LoopInv, InHand
  <1>1. CASE Boot
    BY <1>1 DEF Boot, TypeOK, kernVars, OpenFds
  <1>2. CASE Kill
    BY <1>2, ExitTypes DEF Kill, TypeOK
  <1>3. CASE Issue
    <2>1. pc \in {"submit", "flush"} /\ sq # <<>> /\ UNCHANGED <<pc, back, owner>>
      BY <1>3 DEF Issue
    <2>2. InHand => cq' # <<>> /\ Head(cq') = Head(cq)
      <3>1. CASE cq' = cq
        BY <3>1
      <3>2. CASE \E e : cq' = Append(cq, e)
        BY <3>2, BehindHead DEF TypeOK
      <3> QED
        <4> DEFINE s == Head(sq)
        <4>1. CASE s.op # "accept" /\ Post(Cqe(s.op, s.fd, s.bid, "bad", 0, FALSE))
          BY <3>2, <4>1 DEF Post
        <4>2. CASE s.op # "accept" /\ Transmit(owner[s.fd], s.fd, s.bid)
          BY <3>2, <4>2 DEF Transmit, Post
        <4> QED
          BY <1>3, <3>1, <4>1, <4>2 DEF Issue
    <2>3. \A c \in Conns : recvs'[c] > 0 => num'[c] \in Fds
      <3> DEFINE s == Head(sq)
      <3>1. CASE UNCHANGED <<recvs, num>>
        BY <3>1
      <3>2. CASE /\ s.op = "recv" /\ owner[s.fd] # NoConn
                 /\ recvs' = [recvs EXCEPT ![owner[s.fd]] = @ + 1]
                 /\ num' = [num EXCEPT ![owner[s.fd]] = s.fd]
        <4>1. s \in Sqes
          BY <2>1, AppendTypes DEF TypeOK
        <4>2. s.fd \in Fds
          BY <3>2, <4>1 DEF Sqes
        <4> QED
          BY <3>2, <4>2 DEF TypeOK
      <3> QED
        BY <1>3, <3>1, <3>2 DEF Issue
    <2> QED
      BY <2>1, <2>2, <2>3
  <1>4. CASE Issued \/ Return \/ Flush \/ EndRound
    BY <1>4 DEF Issued, Return, Flush, EndRound, TypeOK, sockVars, kernVars, OpenFds
  <1>5. CASE CompleteAccept \/ CompleteSend \/ \E c \in Conns : CompleteRecv(c)
    <2>1. pc \notin {"boot", "exit"} /\ UNCHANGED <<pc, back, sq>>
      BY <1>5 DEF CompleteAccept, CompleteSend, CompleteRecv, Working
    <2>2. \E e : cq' = Append(cq, e)
      BY <1>5 DEF CompleteAccept, CompleteSend, CompleteRecv, Transmit, Post
    <2>3. InHand => cq' # <<>> /\ Head(cq') = Head(cq)
      BY <2>2, BehindHead DEF TypeOK
    <2>4. num' = num /\ \A c \in Conns : recvs'[c] > 0 => recvs[c] > 0
      <3>1. CASE CompleteAccept \/ CompleteSend
        BY <3>1 DEF CompleteAccept, CompleteSend
      <3>2. ASSUME NEW c \in Conns, CompleteRecv(c)
            PROVE  num' = num /\ \A d \in Conns : recvs'[d] > 0 => recvs[d] > 0
        <4>1. \/ recvs' = recvs
              \/ recvs' = [recvs EXCEPT ![c] = @ - 1]
          BY <3>2 DEF CompleteRecv, TypeOK
        <4> QED
          BY <3>2, <4>1 DEF CompleteRecv, TypeOK
      <3> QED
        BY <1>5, <3>1, <3>2
    <2> QED
      BY <2>1, <2>3, <2>4
  <1>6. CASE ReapAccept \/ ReapEof \/ ReapSend
    BY <1>6 DEF ReapAccept, ReapEof, ReapSend, Reaping, NextCqe, kernVars
  <1>7. CASE ReapRecv
    BY <1>7 DEF ReapRecv, Reaping, kernVars
  <1>8. CASE Rearm
    BY <1>8 DEF Rearm, NextCqe, kernVars
  <1>9. CASE Network
    <2>1. owner' = owner
      BY <1>9, ClientOwner DEF Network, TypeOK
    <2> QED
      BY <1>9, <2>1 DEF Network, kernVars, OpenFds
  <1>10. CASE UNCHANGED uVars
    BY <1>10 DEF uVars, sockVars, kernVars, OpenFds
  <1> QED
    BY <1>1, <1>2, <1>3, <1>4, <1>5, <1>6, <1>7, <1>8, <1>9, <1>10
       DEF Next, Submit, Kernel, Loop

\* close() of a number leaves the others alone.
LEMMA CloseNumberOwner ==
    ASSUME SocketsTypeOK, OwnerInv, NEW f \in Fds, CloseNumber(f), backlog' = backlog
    PROVE  /\ OwnerInv'
           /\ OpenFds' = OpenFds \ {f}
           /\ \A g \in OpenFds' : owner'[g] = owner[g]
           /\ \A c \in Conns : phase[c] \in {"open", "done"} => phase'[c] \in {"open", "done"}
  <1>1. CASE owner[f] = NoConn
    <2>1. UNCHANGED <<backlog, owner, phase>>
      BY <1>1 DEF CloseNumber
    <2> QED
      BY <1>1, <2>1, SameOwner DEF OpenFds
  <1>2. CASE owner[f] # NoConn
    <2>1. CloseFd(f) /\ owner[f] \in Conns
      BY <1>2 DEF CloseNumber, SocketsTypeOK
    <2>2. \A c \in Conns : phase[c] \in {"open", "done"} => phase'[c] \in {"open", "done"}
      BY <2>1 DEF CloseFd, SocketsTypeOK
    <2> QED
      BY <2>1, <2>2, CloseOwner
  <1> QED
    BY <1>1, <1>2

\* Every step keeps descriptors and the accept queue consistent.
LEMMA OwnerStep ==
    ASSUME TypeOK, OwnerInv, LoopInv, [Next]_uVars
    PROVE  OwnerInv'
  <1>1. CASE UNCHANGED <<backlog, owner, phase>>
    BY <1>1, SameOwner
  <1>2. CASE Kill
    BY <1>2, ExitTypes DEF Kill, TypeOK
  <1>3. CASE CompleteAccept
    <2>1. CASE \E f \in Fds : /\ AcceptAs(f)
                              /\ owner' = [owner EXCEPT ![f] = Head(backlog)]
                              /\ phase' = [phase EXCEPT ![Head(backlog)] = "open"]
      BY <2>1, AcceptOwner DEF TypeOK
    <2> QED
      BY <1>1, <1>3, <2>1 DEF CompleteAccept
  <1>4. CASE ReapAccept \/ ReapEof \/ ReapSend
    <2>1. Head(cq) \in Cqes /\ Head(cq).op \in {"accept", "recv", "send"}
      BY <1>4, HeadTypes DEF ReapAccept, ReapEof, ReapSend, Reaping
    <2>2. \/ UNCHANGED <<owner, phase>>
          \/ Head(cq).fd \in Fds /\ CloseNumber(Head(cq).fd)
      BY <1>4, <2>1 DEF ReapAccept, ReapEof, ReapSend, Reaping, Cqes
    <2>3. backlog' = backlog
      BY <1>4 DEF ReapAccept, ReapEof, ReapSend
    <2> QED
      BY <1>1, <2>2, <2>3, CloseNumberOwner DEF TypeOK
  <1>5. CASE Network
    BY <1>5, ClientOwner DEF Network, TypeOK
  <1>6. CASE Boot \/ Issue \/ Issued \/ Return \/ Flush \/ EndRound \/ ReapRecv \/ Rearm
             \/ CompleteSend \/ (\E c \in Conns : CompleteRecv(c)) \/ UNCHANGED uVars
    BY <1>1, <1>6 DEF Boot, Issue, Issued, Return, Flush, EndRound, ReapRecv, Rearm,
       CompleteSend, CompleteRecv, uVars, sockVars
  <1> QED
    BY <1>2, <1>3, <1>4, <1>5, <1>6 DEF Next, Submit, Kernel, Loop

-----------------------------------------------------------------------------
(* Where a buffer is.                                                      *)

InRing(b) == IF b \in free THEN 1 ELSE 0
InSq(b) == Cardinality(Matches(sq, {s \in Sqes : s.bid = b}))
InCq(b) == Cardinality(Matches(Unreaped, {e \in Cqes : e.bid = b}))
InSends(b) == Cardinality({s \in sends : s.bid = b})

\* Every buffer is in one place.
BufInv ==
    /\ IsFiniteSet(sends)
    /\ Up => \A b \in Bids : InRing(b) + InSq(b) + InCq(b) + InSends(b) = 1

\* The completions not begun are a queue of completions.
LEMMA UnreapedType ==
    ASSUME TypeOK, LoopInv
    PROVE  Unreaped \in Seq(Cqes)
  BY AppendTypes DEF TypeOK, LoopInv, InHand, Unreaped

\* The counts are numbers.
LEMMA PlaceTypes ==
    ASSUME TypeOK, LoopInv, IsFiniteSet(sends), NEW b \in Bids
    PROVE  InRing(b) \in Nat /\ InSq(b) \in Nat /\ InCq(b) \in Nat /\ InSends(b) \in Nat
  <1>1. InSq(b) \in Nat
    BY MatchesNat DEF InSq, TypeOK
  <1>2. InCq(b) \in Nat
    BY UnreapedType, MatchesNat DEF InCq
  <1>3. InSends(b) \in Nat
    BY FS_Subset, FS_CardinalityType DEF InSends
  <1> QED
    BY <1>1, <1>2, <1>3 DEF InRing

\* How the places of b change: an SQE is prepared ...
LEMMA SqPush ==
    ASSUME TypeOK, NEW b \in Bids, NEW s \in Sqes, sq' = Append(sq, s)
    PROVE  InSq(b)' = InSq(b) + (IF s.bid = b THEN 1 ELSE 0)
  BY MatchesAppend DEF InSq, TypeOK

\* ... or issued; ...
LEMMA SqPop ==
    ASSUME TypeOK, NEW b \in Bids, sq # <<>>, sq' = Tail(sq)
    PROVE  InSq(b) = InSq(b)' + (IF Head(sq).bid = b THEN 1 ELSE 0)
  BY MatchesTail, AppendTypes DEF InSq, TypeOK

\* ... a completion is posted behind the one in hand; ...
LEMMA CqPush ==
    ASSUME TypeOK, LoopInv, NEW b \in Bids, NEW e \in Cqes, cq' = Append(cq, e),
           UNCHANGED <<pc, back>>
    PROVE  InCq(b)' = InCq(b) + (IF e.bid = b THEN 1 ELSE 0)
  <1>1. Unreaped' = Append(Unreaped, e)
    <2>1. CASE InHand
      <3>1. cq \in Seq(Cqes) /\ cq # <<>>
        BY <2>1 DEF LoopInv, TypeOK
      <3>2. Tail(cq') = Append(Tail(cq), e)
        BY <3>1, BehindHead
      <3> QED
        BY <2>1, <3>2 DEF InHand, Unreaped
    <2>2. CASE ~InHand
      BY <2>2 DEF InHand, Unreaped
    <2> QED
      BY <2>1, <2>2
  <1> QED
    BY <1>1, UnreapedType, MatchesAppend DEF InCq

\* ... or its handling begins.
LEMMA CqPop ==
    ASSUME TypeOK, LoopInv, NEW b \in Bids, pc = "reap", cq # <<>>,
           (pc' = "reap" /\ cq' = Tail(cq)) \/ (pc' = "rearm" /\ cq' = cq)
    PROVE  InCq(b) = InCq(b)' + (IF Head(cq).bid = b THEN 1 ELSE 0)
  <1>1. Unreaped = cq /\ Unreaped' = Tail(cq)
    BY DEF Unreaped
  <1>2. Head(cq) \in Cqes
    BY HeadTypes
  <1> QED
    BY <1>1, <1>2, MatchesTail DEF InCq, TypeOK

\* A send that has to wait, ...
LEMMA SendsAdd ==
    ASSUME TypeOK, IsFiniteSet(sends), NEW b \in Bids,
           NEW s \in [who : Conns, fd : Fds, bid : Bids], s \notin sends,
           sends' = sends \cup {s}
    PROVE  InSends(b)' = InSends(b) + (IF s.bid = b THEN 1 ELSE 0)
  <1> DEFINE S == {x \in sends : x.bid = b}
             T == {x \in sends' : x.bid = b}
  <1>1. IsFiniteSet(S) /\ s \notin S
    BY FS_Subset
  <1>2. T = IF s.bid = b THEN S \cup {s} ELSE S
    OBVIOUS
  <1>3. InSends(b) = Cardinality(S) /\ InSends(b)' = Cardinality(T)
    BY DEF InSends
  <1> HIDE DEF S, T
  <1>4. Cardinality(S \cup {s}) = Cardinality(S) + 1 /\ Cardinality(S) \in Nat
    BY <1>1, FS_AddElement, FS_CardinalityType
  <1> QED
    BY <1>2, <1>3, <1>4

\* ... and one that completes.
LEMMA SendsRemove ==
    ASSUME TypeOK, IsFiniteSet(sends), NEW b \in Bids, NEW s \in sends,
           sends' = sends \ {s}
    PROVE  InSends(b) = InSends(b)' + (IF s.bid = b THEN 1 ELSE 0)
  <1> DEFINE S == {x \in sends : x.bid = b}
             T == {x \in sends' : x.bid = b}
  <1>1. IsFiniteSet(S)
    BY FS_Subset
  <1>2. T = S \ {s} /\ (s \in S <=> s.bid = b)
    OBVIOUS
  <1>3. InSends(b) = Cardinality(S) /\ InSends(b)' = Cardinality(T)
    BY DEF InSends
  <1> HIDE DEF S, T
  <1>4. /\ Cardinality(S \ {s}) = IF s \in S THEN Cardinality(S) - 1 ELSE Cardinality(S)
        /\ Cardinality(S) \in Nat
    BY <1>1, FS_RemoveElement, FS_CardinalityType
  <1> QED
    BY <1>2, <1>3, <1>4

\* A step that moves no entry moves no buffer.
LEMMA BufSame ==
    ASSUME BufInv, UNCHANGED <<sq, cq, sends, free>>, InHand' = InHand, Up
    PROVE  BufInv'
  <1>1. Unreaped' = Unreaped
    BY DEF Unreaped, InHand
  <1> QED
    BY <1>1 DEF BufInv, InRing, InSq, InCq, InSends

\* A buffer that an SQE or a completion names is in no other place.
LEMMA SqOnly ==
    ASSUME TypeOK, LoopInv, BufInv, Up, sq # <<>>, NEW b \in Bids, Head(sq).bid = b
    PROVE  \A s \in sends : s.bid # b
  <1>1. InSq(b) >= 1
    <2>1. /\ Head(sq) \in {s \in Sqes : s.bid = b}
          /\ Tail(sq) \in Seq(Sqes)
      BY AppendTypes DEF TypeOK
    <2>2. InSq(b) = Cardinality(Matches(Tail(sq), {s \in Sqes : s.bid = b})) + 1
      BY <2>1, MatchesTail DEF InSq, TypeOK
    <2>3. Cardinality(Matches(Tail(sq), {s \in Sqes : s.bid = b})) \in Nat
      BY <2>1, MatchesNat
    <2> QED
      BY <2>2, <2>3
  <1>2. InSends(b) = 0
    BY <1>1, PlaceTypes DEF BufInv
  <1>3. IsFiniteSet({s \in sends : s.bid = b})
    BY FS_Subset DEF BufInv
  <1> QED
    BY <1>2, <1>3, FS_EmptySet DEF InSends

\* The kernel issues an SQE: its buffer goes to the send that waits or to
\* the completion.
LEMMA BufIssue ==
    ASSUME TypeOK, LoopInv, BufInv, Issue
    PROVE  BufInv'
  <1> DEFINE s == Head(sq)
             c == IF s.op = "accept" THEN NoConn ELSE owner[s.fd]
  <1>1. /\ sq # <<>> /\ s \in Sqes /\ Up /\ Up' /\ UNCHANGED <<pc, back, free>>
        /\ sq' = Tail(sq)
    BY AppendTypes DEF Issue, Up, TypeOK, bufVars
  <1>2. /\ s.op \in {"accept", "recv", "send"}
        /\ s.op # "accept" => s.fd \in Fds /\ c \in Conns \cup {NoConn}
        /\ s.op # "send" => s.bid = NoBid
        /\ s.op = "send" => s.bid \in Bids
    BY <1>1 DEF Sqes, Ops, TypeOK, SocketsTypeOK
  <1>3. NoBid \notin Bids
    BY UringOptAssumption DEF NoBid
  <1> HIDE DEF s
  <1>4. \A b \in Bids : /\ InRing(b)' = InRing(b)
                        /\ InSq(b) = InSq(b)' + (IF s.bid = b THEN 1 ELSE 0)
    BY <1>1, SqPop DEF InRing, s
  <1>5. CASE s.op # "send" /\ UNCHANGED <<sends, cq>>
    <2>1. \A b \in Bids : InCq(b)' = InCq(b) /\ InSends(b)' = InSends(b)
      BY <1>1, <1>5 DEF InCq, InSends, Unreaped
    <2>2. \A b \in Bids : InSq(b)' = InSq(b)
      <3>1. \A b \in Bids : InSq(b)' \in Nat
        BY <1>1, AppendTypes, MatchesNat DEF InSq, TypeOK
      <3> QED
        BY <1>2, <1>3, <1>4, <1>5, <3>1
    <2> QED
      BY <1>1, <1>4, <1>5, <2>1, <2>2 DEF BufInv
  <1>6. CASE (\E e \in Cqes : e.bid = s.bid /\ cq' = Append(cq, e)) /\ UNCHANGED sends
    <2>1. \A b \in Bids : InCq(b)' = InCq(b) + (IF s.bid = b THEN 1 ELSE 0)
      BY <1>1, <1>6, CqPush
    <2>2. \A b \in Bids : InSends(b)' = InSends(b)
      BY <1>6 DEF InSends
    <2>3. \A b \in Bids : InSq(b)' \in Nat
      BY <1>1, AppendTypes, MatchesNat DEF InSq, TypeOK
    <2>4. \A b \in Bids : InRing(b)' + InSq(b)' + InCq(b)' + InSends(b)' = 1
      <3> TAKE b \in Bids
      <3>1. /\ InRing(b) \in Nat /\ InSq(b) \in Nat /\ InCq(b) \in Nat /\ InSends(b) \in Nat
            /\ InRing(b) + InSq(b) + InCq(b) + InSends(b) = 1
        BY <1>1, PlaceTypes DEF BufInv
      <3> QED
        BY <1>4, <2>1, <2>2, <2>3, <3>1
    <2> QED
      BY <1>6, <2>4 DEF BufInv
  <1>7. CASE /\ s.op = "send" /\ c # NoConn
             /\ sends' = sends \cup {[who |-> c, fd |-> s.fd, bid |-> s.bid]}
             /\ UNCHANGED cq
    <2> DEFINE r == [who |-> c, fd |-> s.fd, bid |-> s.bid]
    <2>1. r \in [who : Conns, fd : Fds, bid : Bids] /\ r.bid = s.bid
      BY <1>2, <1>7
    <2>2. r \notin sends
      BY <1>1, <2>1, SqOnly DEF s
    <2> HIDE DEF r
    <2>3. \A b \in Bids : InSends(b)' = InSends(b) + (IF s.bid = b THEN 1 ELSE 0)
      <3>1. sends' = sends \cup {r}
        BY <1>7 DEF r
      <3> QED
        BY <2>1, <2>2, <3>1, SendsAdd DEF BufInv
    <2>4. \A b \in Bids : InCq(b)' = InCq(b)
      BY <1>1, <1>7 DEF InCq, Unreaped
    <2>5. \A b \in Bids : InSq(b)' \in Nat
      BY <1>1, AppendTypes, MatchesNat DEF InSq, TypeOK
    <2>6. \A b \in Bids : InRing(b)' + InSq(b)' + InCq(b)' + InSends(b)' = 1
      <3> TAKE b \in Bids
      <3>1. /\ InRing(b) \in Nat /\ InSq(b) \in Nat /\ InCq(b) \in Nat /\ InSends(b) \in Nat
            /\ InRing(b) + InSq(b) + InCq(b) + InSends(b) = 1
        BY <1>1, PlaceTypes DEF BufInv
      <3> QED
        BY <1>4, <2>3, <2>4, <2>5, <3>1
    <2>7. IsFiniteSet(sends')
      BY <1>7, FS_AddElement DEF BufInv
    <2> QED
      BY <2>6, <2>7 DEF BufInv
  <1>8. CASE /\ s.op # "accept"
             /\ Post(Cqe(s.op, s.fd, s.bid, "bad", 0, FALSE)) /\ UNCHANGED sends
    <2> DEFINE e == Cqe(s.op, s.fd, s.bid, "bad", 0, FALSE)
    <2>1. e \in Cqes
      <3>1. CASE s.op = "recv"
        BY <1>2, <3>1, CqeTypes
      <3>2. CASE s.op = "send"
        BY <1>2, <3>2, CqeTypes
      <3> QED
        BY <1>2, <1>8, <3>1, <3>2
    <2>2. e.bid = s.bid /\ cq' = Append(cq, e)
      BY <1>8 DEF Cqe, Post
    <2> QED
      BY <1>6, <1>8, <2>1, <2>2
  <1>9. CASE s.op = "send" /\ c # NoConn /\ Transmit(c, s.fd, s.bid) /\ UNCHANGED sends
    <2>1. c \in Conns /\ s.fd \in Fds /\ s.bid \in Bids
      BY <1>2, <1>9
    <2> HIDE DEF c
    <2>2. \E e \in Cqes : e.bid = s.bid /\ cq' = Append(cq, e)
      BY <1>9, <2>1, TransmitTypes
    <2> QED
      BY <1>6, <1>9, <2>2
  <1> QED
    BY <1>5, <1>7, <1>8, <1>9 DEF Issue, s

\* The kernel completes a request: a recv takes its buffer from the ring.
LEMMA BufComplete ==
    ASSUME TypeOK, LoopInv, BufInv,
           CompleteAccept \/ CompleteSend \/ \E c \in Conns : CompleteRecv(c)
    PROVE  BufInv'
  <1>1. Up /\ Up' /\ UNCHANGED <<pc, back, sq>>
    BY DEF CompleteAccept, CompleteSend, CompleteRecv, Working, Up
  <1>2. \A b \in Bids :
           /\ InRing(b) \in Nat /\ InSq(b) \in Nat /\ InCq(b) \in Nat /\ InSends(b) \in Nat
           /\ InRing(b) + InSq(b) + InCq(b) + InSends(b) = 1
           /\ InSq(b)' = InSq(b)
    BY <1>1, PlaceTypes DEF BufInv, InSq
  <1>3. NoBid \notin Bids
    BY UringOptAssumption DEF NoBid
  <1>4. CASE (\E e \in Cqes : e.bid = NoBid /\ cq' = Append(cq, e)) /\ UNCHANGED <<sends, free>>
    <2>1. \A b \in Bids : InCq(b)' = InCq(b)
      <3>1. PICK e \in Cqes : e.bid = NoBid /\ cq' = Append(cq, e)
        BY <1>4
      <3>2. \A b \in Bids : InCq(b)' = InCq(b) + (IF e.bid = b THEN 1 ELSE 0)
        BY <1>1, <3>1, CqPush
      <3> QED
        BY <1>2, <1>3, <3>1, <3>2
    <2>2. \A b \in Bids : InRing(b)' = InRing(b) /\ InSends(b)' = InSends(b)
      BY <1>4 DEF InRing, InSends
    <2> QED
      BY <1>2, <1>4, <2>1, <2>2 DEF BufInv
  <1>5. CASE CompleteAccept
    <2>1. UNCHANGED <<sends, free>>
      BY <1>5 DEF CompleteAccept, bufVars
    <2>2. \/ \E f \in Fds : cq' = Append(cq, Cqe("accept", f, NoBid, "ok", 0, TRUE))
          \/ cq' = Append(cq, Cqe("accept", listen_fd, NoBid, "bad", 0, FALSE))
      BY <1>5 DEF CompleteAccept, Post
    <2>3. \E e \in Cqes : e.bid = NoBid /\ cq' = Append(cq, e)
      <3>1. CASE \E f \in Fds : cq' = Append(cq, Cqe("accept", f, NoBid, "ok", 0, TRUE))
        BY <3>1, CqeTypes DEF Cqe
      <3>2. CASE cq' = Append(cq, Cqe("accept", listen_fd, NoBid, "bad", 0, FALSE))
        BY <3>2, CqeTypes DEF Cqe
      <3> QED
        BY <2>2, <3>1, <3>2
    <2> QED
      BY <1>4, <2>1, <2>3
  <1>6. CASE CompleteSend
    <2>1. PICK s \in sends : Transmit(s.who, s.fd, s.bid) /\ sends' = sends \ {s}
      BY <1>6 DEF CompleteSend
    <2>2. s.who \in Conns /\ s.fd \in Fds /\ s.bid \in Bids
      BY <2>1 DEF TypeOK
    <2>3. PICK e \in Cqes : e.bid = s.bid /\ cq' = Append(cq, e)
      BY <2>1, <2>2, TransmitTypes
    <2>4. \A b \in Bids : /\ InCq(b)' = InCq(b) + (IF s.bid = b THEN 1 ELSE 0)
                          /\ InSends(b) = InSends(b)' + (IF s.bid = b THEN 1 ELSE 0)
      BY <1>1, <2>1, <2>3, CqPush, SendsRemove DEF BufInv
    <2>5. \A b \in Bids : InRing(b)' = InRing(b)
      BY <1>6 DEF InRing, CompleteSend, bufVars
    <2>6. IsFiniteSet(sends')
      BY <2>1, FS_RemoveElement DEF BufInv
    <2>7. \A b \in Bids : InSends(b)' \in Nat
      BY <2>6, FS_Subset, FS_CardinalityType DEF InSends
    <2> QED
      BY <1>2, <2>4, <2>5, <2>6, <2>7 DEF BufInv
  <1>7. ASSUME NEW c \in Conns, CompleteRecv(c)
        PROVE  BufInv'
    <2>1. num[c] \in Fds /\ UNCHANGED sends
      BY <1>7 DEF CompleteRecv, LoopInv
    <2>2. CASE \E b \in free, more \in {TRUE, ~RecvMayEnd} :
                /\ Avail(c) > 0
                /\ free' = free \ {b}
                /\ Post(Cqe("recv", num[c], b, "ok", ReadLen(c), more))
      <3>1. PICK d \in free, more \in {TRUE, ~RecvMayEnd} :
                /\ Avail(c) > 0
                /\ free' = free \ {d}
                /\ Post(Cqe("recv", num[c], d, "ok", ReadLen(c), more))
        BY <2>2
      <3> DEFINE e == Cqe("recv", num[c], d, "ok", ReadLen(c), more)
      <3>2. ReadLen(c) \in Nat \ {0}
        BY <3>1, SocketsAssumption DEF ReadLen, Lesser, Avail, TypeOK, SocketsTypeOK
      <3>3. d \in Bids /\ more \in BOOLEAN
        BY <3>1, UringOptAssumption DEF TypeOK
      <3>4. e \in Cqes
        BY <2>1, <3>2, <3>3, CqeTypes
      <3>5. e.bid = d /\ cq' = Append(cq, e)
        BY <3>1 DEF Cqe, Post
      <3> HIDE DEF e
      <3>6. \A b \in Bids : InCq(b)' = InCq(b) + (IF b = d THEN 1 ELSE 0)
        BY <1>1, <3>4, <3>5, CqPush
      <3>7. \A b \in Bids : /\ InRing(b) = InRing(b)' + (IF b = d THEN 1 ELSE 0)
                            /\ InRing(b)' \in Nat
                            /\ InSends(b)' = InSends(b)
        BY <2>1, <3>1 DEF InRing, InSends
      <3> QED
        BY <1>2, <2>1, <3>6, <3>7 DEF BufInv
    <2>3. CASE /\ \E r \in {"ok", "nobufs", "bad"} :
                     Post(Cqe("recv", num[c], NoBid, r, 0, FALSE))
               /\ UNCHANGED free
      <3>1. PICK r \in {"ok", "nobufs", "bad"} : Post(Cqe("recv", num[c], NoBid, r, 0, FALSE))
        BY <2>3
      <3>2. /\ Cqe("recv", num[c], NoBid, r, 0, FALSE) \in Cqes
            /\ Cqe("recv", num[c], NoBid, r, 0, FALSE).bid = NoBid
        BY <2>1, CqeTypes DEF Cqe
      <3> QED
        BY <1>4, <2>1, <2>3, <3>1, <3>2 DEF Post
    <2> QED
      BY <1>7, <2>2, <2>3 DEF CompleteRecv, bufVars
  <1> QED
    BY <1>5, <1>6, <1>7

\* The program handles a completion: the buffer of a recv goes to its send,
\* that of a send back to the ring.
LEMMA BufReap ==
    ASSUME TypeOK, LoopInv, BufInv,
           ReapAccept \/ ReapRecv \/ Rearm \/ ReapEof \/ ReapSend
    PROVE  BufInv'
  <1> DEFINE e == Head(cq)
  <1>1. Up /\ Up' /\ UNCHANGED sends
    BY DEF ReapAccept, ReapRecv, Rearm, ReapEof, ReapSend, Reaping, NextCqe, Up, kernVars
  <1>2. \A b \in Bids :
           /\ InRing(b) \in Nat /\ InSq(b) \in Nat /\ InCq(b) \in Nat /\ InSends(b) \in Nat
           /\ InRing(b) + InSq(b) + InCq(b) + InSends(b) = 1
           /\ InSends(b)' = InSends(b)
    BY <1>1, PlaceTypes DEF BufInv, InSends
  <1>3. NoBid \notin Bids
    BY UringOptAssumption DEF NoBid
  <1>4. cq # <<>> /\ e \in Cqes
    BY HandTypes, HeadTypes DEF ReapAccept, ReapRecv, Rearm, ReapEof, ReapSend, Reaping, InHand
  <1> HIDE DEF e
  <1>6. ASSUME NEW s \in Sqes, s.bid = NoBid, sq' = Append(sq, s)
        PROVE  \A b \in Bids : InSq(b)' = InSq(b)
    BY <1>2, <1>3, <1>6, SqPush
  <1>7. CASE ReapAccept
    <2>1. e.bid = NoBid /\ (e.res = "ok" => e.fd \in Fds)
      BY <1>4, <1>7 DEF ReapAccept, Reaping, Cqes, e
    <2>2. \A b \in Bids : InSq(b)' = InSq(b)
      <3>1. CASE e.res = "ok" /\ AddSqe(Sqe("recv", e.fd, NoBid))
        BY <1>6, <2>1, <3>1, SqeTypes DEF AddSqe, Sqe
      <3>2. CASE AddSqe(Sqe("accept", listen_fd, NoBid))
        BY <1>6, <3>2, SqeTypes DEF AddSqe, Sqe
      <3>3. CASE sq' = sq
        BY <3>3 DEF InSq
      <3> QED
        BY <1>7, <3>1, <3>2, <3>3 DEF ReapAccept, e
    <2>3. \A b \in Bids : InCq(b) = InCq(b)' + (IF e.bid = b THEN 1 ELSE 0)
      BY <1>4, <1>7, CqPop DEF ReapAccept, Reaping, NextCqe, e
    <2>4. \A b \in Bids : InCq(b)' \in Nat
      <3>1. cq' \in Seq(Cqes) /\ Unreaped' = cq'
        BY <1>7, HeadTypes DEF ReapAccept, Reaping, NextCqe, Unreaped
      <3> QED
        BY <3>1, MatchesNat DEF InCq
    <2>5. \A b \in Bids : InRing(b)' = InRing(b)
      BY <1>7 DEF ReapAccept, bufVars, InRing
    <2> QED
      BY <1>1, <1>2, <1>3, <2>1, <2>2, <2>3, <2>4, <2>5 DEF BufInv
  <1>8. CASE ReapRecv
    <2>1. e.op = "recv" /\ e.fd \in Fds /\ (e.len > 0 <=> e.bid # NoBid) /\ e.bid \in Bids \cup {NoBid}
          /\ e.len \in Nat /\ (e.res = "nobufs" => e.len = 0)
      BY <1>4, <1>8 DEF ReapRecv, Reaping, Cqes, e
    <2>2. \A b \in Bids : InSq(b)' = InSq(b) + (IF e.bid = b THEN 1 ELSE 0)
      <3>1. CASE e.len > 0 /\ AddSqe(Sqe("send", e.fd, e.bid))
        <4>1. Sqe("send", e.fd, e.bid) \in Sqes /\ Sqe("send", e.fd, e.bid).bid = e.bid
          BY <2>1, <3>1, SqeTypes DEF Sqe
        <4> QED
          BY <3>1, <4>1, SqPush DEF AddSqe
      <3>2. CASE e.res = "nobufs" /\ AddSqe(Sqe("recv", e.fd, NoBid))
        <4>1. Sqe("recv", e.fd, NoBid) \in Sqes /\ Sqe("recv", e.fd, NoBid).bid = NoBid
          BY <2>1, SqeTypes DEF Sqe
        <4>2. e.bid = NoBid
          BY <2>1, <3>2
        <4> QED
          BY <3>2, <4>1, <4>2, SqPush DEF AddSqe
      <3> QED
        BY <1>8, <3>1, <3>2 DEF ReapRecv, e
    <2>3. \A b \in Bids : InCq(b) = InCq(b)' + (IF e.bid = b THEN 1 ELSE 0)
      BY <1>4, <1>8, CqPop DEF ReapRecv, Reaping, e
    <2>4. \A b \in Bids : InCq(b)' \in Nat
      <3>1. Tail(cq) \in Seq(Cqes) /\ Unreaped' = Tail(cq)
        BY <1>8, HeadTypes DEF ReapRecv, Reaping, Unreaped
      <3> QED
        BY <3>1, MatchesNat DEF InCq
    <2>5. \A b \in Bids : InRing(b)' = InRing(b)
      BY <1>8 DEF ReapRecv, bufVars, InRing
    <2> QED
      BY <1>1, <1>2, <2>2, <2>3, <2>4, <2>5 DEF BufInv
  <1>9. CASE Rearm
    <2>1. e.fd \in Fds
      BY <1>9, HandTypes DEF Rearm, InHand, e
    <2>2. \A b \in Bids : InSq(b)' = InSq(b)
      <3>1. CASE AddSqe(Sqe("recv", e.fd, NoBid))
        BY <1>6, <2>1, <3>1, SqeTypes DEF AddSqe, Sqe
      <3>2. CASE sq' = sq
        BY <3>2 DEF InSq
      <3> QED
        BY <1>9, <3>1, <3>2 DEF Rearm, e
    <2>3. Unreaped' = Unreaped
      BY <1>9 DEF Rearm, NextCqe, Unreaped
    <2>4. \A b \in Bids : InRing(b)' = InRing(b) /\ InCq(b)' = InCq(b)
      BY <1>9, <2>3 DEF Rearm, bufVars, InRing, InCq
    <2> QED
      BY <1>1, <1>2, <2>2, <2>4 DEF BufInv
  <1>10. CASE ReapEof \/ ReapSend
    <2>1. \A b \in Bids : InSq(b)' = InSq(b)
      BY <1>10 DEF ReapEof, ReapSend, InSq
    <2>2. \A b \in Bids : InCq(b) = InCq(b)' + (IF e.bid = b THEN 1 ELSE 0)
      BY <1>4, <1>10, CqPop DEF ReapEof, ReapSend, Reaping, NextCqe, e
    <2>3. \A b \in Bids : InCq(b)' \in Nat
      <3>1. cq' \in Seq(Cqes) /\ Unreaped' = cq'
        BY <1>10, HeadTypes DEF ReapEof, ReapSend, Reaping, NextCqe, Unreaped
      <3> QED
        BY <3>1, MatchesNat DEF InCq
    <2>4. CASE ReapEof
      <3>1. e.bid = NoBid
        BY <1>4, <2>4 DEF ReapEof, Reaping, Cqes, e
      <3>2. \A b \in Bids : InRing(b)' = InRing(b)
        BY <2>4 DEF ReapEof, bufVars, InRing
      <3> QED
        BY <1>1, <1>2, <1>3, <2>1, <2>2, <2>3, <3>1, <3>2 DEF BufInv
    <2>5. CASE ReapSend
      <3>1. e.bid \in Bids
        BY <1>4, <2>5 DEF ReapSend, Reaping, Cqes, e
      <3>2. free' = free \cup {e.bid}
        BY <2>5 DEF ReapSend, e
      <3>3. \A b \in Bids : InRing(b)' = IF e.bid = b THEN 1 ELSE InRing(b)
        BY <3>2 DEF InRing
      <3> QED
        BY <1>1, <1>2, <2>1, <2>2, <2>3, <3>1, <3>3 DEF BufInv
    <2> QED
      BY <1>10, <2>4, <2>5
  <1> QED
    BY <1>7, <1>8, <1>9, <1>10

\* Every step keeps every buffer in one place.
LEMMA BufStep ==
    ASSUME TypeOK, LoopInv, BufInv, [Next]_uVars
    PROVE  BufInv'
  <1>1. CASE Boot
    <2>1. cq' = <<>> /\ sends' = {} /\ sends' = sends
      BY <1>1 DEF Boot, LoopInv, kernVars
    <2>2. CASE pc' = "submit" /\ free' = Bids /\ sq' = <<Sqe("accept", listen_fd, NoBid)>>
      <3>1. NoBid \notin Bids
        BY UringOptAssumption DEF NoBid
      <3>2. \A b \in Bids : Matches(sq', {s \in Sqes : s.bid = b}) = {}
        BY <2>2, <3>1 DEF Matches, Sqe
      <3>3. \A b \in Bids : Matches(Unreaped', {e \in Cqes : e.bid = b}) = {}
        BY <2>1, <2>2 DEF Matches, Unreaped
      <3>4. \A b \in Bids : {s \in sends' : s.bid = b} = {}
        BY <2>1
      <3>5. \A b \in Bids : InSq(b)' = 0 /\ InCq(b)' = 0 /\ InSends(b)' = 0 /\ InRing(b)' = 1
        BY <2>2, <3>2, <3>3, <3>4, FS_EmptySet DEF InSq, InCq, InSends, InRing
      <3> QED
        BY <2>1, <3>5, FS_EmptySet DEF BufInv
    <2>3. CASE pc' = "exit"
      BY <2>1, <2>3 DEF BufInv, Up
    <2> QED
      BY <1>1, <2>2, <2>3 DEF Boot
  <1>2. CASE Kill
    BY <1>2, FS_EmptySet DEF Kill, BufInv, Up
  <1>3. CASE Issued \/ Return \/ Flush \/ EndRound \/ Network \/ UNCHANGED uVars
    <2>1. UNCHANGED <<sq, cq, sends, free>> /\ InHand' = InHand /\ Up' = Up
      BY <1>3 DEF Issued, Return, Flush, EndRound, Network, uVars, kernVars, bufVars,
                  InHand, Up, TypeOK
    <2>2. CASE Up
      BY <2>1, <2>2, BufSame
    <2>3. CASE ~Up
      BY <2>1, <2>3 DEF BufInv
    <2> QED
      BY <2>2, <2>3
  <1> QED
    BY <1>1, <1>2, <1>3, BufIssue, BufComplete, BufReap DEF Next, Submit, Kernel, Loop

-----------------------------------------------------------------------------
(* Why no connection is forgotten.                                         *)

Holds(s, P) == \E i \in DOMAIN s : s[i] \in P

AcceptPending(f) == Holds(cq, {e \in Cqes : e.op = "accept" /\ e.fd = f})
RecvEnded(f) == Holds(cq, {e \in Cqes : e.op = "recv" /\ e.fd = f /\ ~e.more})
RecvQueued(f) == Holds(sq, {s \in Sqes : s.op = "recv" /\ s.fd = f})

\* A recv in the kernel carries the number its connection has as long as it
\* has one; an open connection is marked active by the time its accept has
\* been reaped; and it has a recv in the kernel or on its way there, or the
\* completion after which the program arms one.
ArmInv ==
    /\ \A c \in Conns : recvs[c] > 0 => phase[c] \in {"open", "done"}
    /\ \A f \in OpenFds :
          /\ recvs[owner[f]] > 0 => num[owner[f]] = f
          /\ active[f] \/ AcceptPending(f)
          /\ recvs[owner[f]] > 0 \/ RecvQueued(f) \/ AcceptPending(f) \/ RecvEnded(f)

\* What a queue holds after an entry is added ...
LEMMA HoldsAppend ==
    ASSUME NEW S, NEW s \in Seq(S), NEW P, NEW e
    PROVE  Holds(Append(s, e), P) <=> Holds(s, P) \/ e \in P
  <1> DEFINE T == S \cup {e}
  <1>1. s \in Seq(T) /\ e \in T
    OBVIOUS
  <1> HIDE DEF T
  <1>2. /\ DOMAIN s = 1..Len(s) /\ Len(s) \in Nat
        /\ DOMAIN Append(s, e) = 1..(Len(s) + 1)
        /\ Append(s, e)[Len(s) + 1] = e
        /\ \A i \in 1..Len(s) : Append(s, e)[i] = s[i]
    BY <1>1
  <1>3. \A i \in 1..(Len(s) + 1) : i \in 1..Len(s) \/ i = Len(s) + 1
    BY <1>2
  <1>4. Len(s) + 1 \in 1..(Len(s) + 1) /\ \A i \in 1..Len(s) : i \in 1..(Len(s) + 1)
    BY <1>2
  <1> QED
    BY <1>2, <1>3, <1>4 DEF Holds

\* ... or taken away.
LEMMA HoldsTail ==
    ASSUME NEW S, NEW s \in Seq(S), NEW P, s # <<>>
    PROVE  Holds(s, P) <=> Holds(Tail(s), P) \/ Head(s) \in P
  <1>1. /\ DOMAIN s = 1..Len(s) /\ DOMAIN Tail(s) = 1..(Len(s) - 1)
        /\ Head(s) = s[1] /\ Len(s) \in Nat /\ Len(s) >= 1
        /\ \A i \in 1..(Len(s) - 1) : Tail(s)[i] = s[i + 1]
    OBVIOUS
  <1>2. ASSUME NEW i \in 1..Len(s), s[i] \in P
        PROVE  Holds(Tail(s), P) \/ Head(s) \in P
    <2>1. CASE i = 1
      BY <1>1, <1>2, <2>1
    <2>2. CASE i # 1
      <3>1. i - 1 \in 1..(Len(s) - 1) /\ Tail(s)[i - 1] = s[i]
        BY <1>1, <2>2
      <3> QED
        BY <1>1, <1>2, <3>1 DEF Holds
    <2> QED
      BY <2>1, <2>2
  <1>3. ASSUME NEW i \in 1..(Len(s) - 1), Tail(s)[i] \in P
        PROVE  Holds(s, P)
    <2>1. i + 1 \in 1..Len(s) /\ s[i + 1] \in P
      BY <1>1, <1>3
    <2> QED
      BY <1>1, <2>1 DEF Holds
  <1>4. Head(s) \in P => Holds(s, P)
    BY <1>1 DEF Holds
  <1> QED
    BY <1>1, <1>2, <1>3, <1>4 DEF Holds

\* A completion posted takes none away.
LEMMA PendingGrows ==
    ASSUME TypeOK, NEW e, cq' = Append(cq, e)
    PROVE  /\ \A f : AcceptPending(f) => AcceptPending(f)'
           /\ \A f : RecvEnded(f) => RecvEnded(f)'
  BY HoldsAppend DEF AcceptPending, RecvEnded, TypeOK

\* Taking the first away leaves those of another kind or another number.
LEMMA PendingShrinks ==
    ASSUME TypeOK, cq # <<>>, cq' = Tail(cq)
    PROVE  /\ \A f : AcceptPending(f) =>
                 AcceptPending(f)' \/ (Head(cq).op = "accept" /\ Head(cq).fd = f)
           /\ \A f : RecvEnded(f) =>
                 RecvEnded(f)' \/ (Head(cq).op = "recv" /\ Head(cq).fd = f /\ ~Head(cq).more)
  BY HoldsTail DEF AcceptPending, RecvEnded, TypeOK

\* A recv that is queued stays queued when entries are added, ...
LEMMA QueuedGrows ==
    ASSUME TypeOK, NEW s, sq' = Append(sq, s) \/ sq' = sq
    PROVE  \A f : RecvQueued(f) => RecvQueued(f)'
  <1>1. CASE sq' = sq
    BY <1>1 DEF RecvQueued
  <1>2. CASE sq' = Append(sq, s)
    BY <1>2, HoldsAppend DEF RecvQueued, TypeOK
  <1> QED
    BY <1>1, <1>2

\* The SQE the program prepares to arm a recv is one.
LEMMA QueuedRecv ==
    ASSUME TypeOK, NEW f \in Fds, AddSqe(Sqe("recv", f, NoBid))
    PROVE  RecvQueued(f)'
  <1>1. /\ Sqe("recv", f, NoBid) \in Sqes
        /\ Sqe("recv", f, NoBid).op = "recv" /\ Sqe("recv", f, NoBid).fd = f
    BY SqeTypes DEF Sqe
  <1> QED
    BY <1>1, HoldsAppend DEF AddSqe, RecvQueued, TypeOK

\* ... and when another one is issued.
LEMMA QueuedShrinks ==
    ASSUME TypeOK, sq # <<>>, sq' = Tail(sq)
    PROVE  \A f : RecvQueued(f) =>
               RecvQueued(f)' \/ (Head(sq).op = "recv" /\ Head(sq).fd = f)
  BY HoldsTail DEF RecvQueued, TypeOK

\* Issuing an SQE: a recv is armed on the connection that has the number.
LEMMA ArmIssue ==
    ASSUME TypeOK, OwnerInv, ArmInv, Issue
    PROVE  ArmInv'
  <1> DEFINE s == Head(sq)
             c == IF s.op = "accept" THEN NoConn ELSE owner[s.fd]
  <1>1. /\ sq # <<>> /\ s \in Sqes /\ sq' = Tail(sq) /\ UNCHANGED <<owner, phase, active>>
    BY AppendTypes DEF Issue, TypeOK
  <1>2. /\ s.op \in {"accept", "recv", "send"}
        /\ s.op # "accept" => s.fd \in Fds /\ c \in Conns \cup {NoConn}
    BY <1>1 DEF Sqes, Ops, TypeOK, SocketsTypeOK
  <1>3. OpenFds' = OpenFds /\ \A f \in OpenFds : owner[f] \in Conns
    BY <1>1 DEF OpenFds, TypeOK, SocketsTypeOK
  <1>4. \A f : RecvQueued(f) => RecvQueued(f)' \/ (s.op = "recv" /\ s.fd = f)
    BY <1>1, QueuedShrinks
  <1>5. \A f : /\ AcceptPending(f) => AcceptPending(f)'
               /\ RecvEnded(f) => RecvEnded(f)'
    <2>1. CASE cq' = cq
      BY <2>1 DEF AcceptPending, RecvEnded
    <2>2. CASE \E e : cq' = Append(cq, e)
      BY <2>2, PendingGrows
    <2> QED
      BY <2>1, <2>2 DEF Issue, Transmit, Post
  <1> HIDE DEF s
  <1>6. CASE UNCHANGED <<recvs, num>> /\ (s.op = "recv" => c = NoConn)
    <2>1. \A f \in OpenFds : RecvQueued(f) => RecvQueued(f)'
      BY <1>4, <1>6 DEF OpenFds
    <2> QED
      BY <1>1, <1>3, <1>5, <1>6, <2>1 DEF ArmInv
  <1>7. CASE /\ s.op = "recv" /\ c # NoConn
             /\ recvs' = [recvs EXCEPT ![c] = @ + 1]
             /\ num' = [num EXCEPT ![c] = s.fd]
    <2>1. c \in Conns /\ c = owner[s.fd] /\ s.fd \in OpenFds /\ recvs[c] \in Nat
      BY <1>2, <1>7 DEF OpenFds, TypeOK
    <2> HIDE DEF c
    <2>2. phase[c] = "open" /\ \A f \in OpenFds : owner[f] = c => f = s.fd
      BY <2>1 DEF OwnerInv
    <2>3. /\ recvs'[c] > 0 /\ num'[c] = s.fd
          /\ \A d \in Conns : d # c => recvs'[d] = recvs[d] /\ num'[d] = num[d]
      BY <1>7, <2>1 DEF TypeOK
    <2>4. \A f \in OpenFds : RecvQueued(f) => RecvQueued(f)' \/ f = s.fd
      BY <1>4
    <2>5. \A f \in OpenFds :
             /\ recvs'[owner[f]] > 0 => num'[owner[f]] = f
             /\ active[f] \/ AcceptPending(f)'
             /\ recvs'[owner[f]] > 0 \/ RecvQueued(f)' \/ AcceptPending(f)' \/ RecvEnded(f)'
      <3> TAKE f \in OpenFds
      <3>1. CASE f = s.fd
        BY <1>5, <2>1, <2>3, <3>1 DEF ArmInv
      <3>2. CASE f # s.fd
        <4>1. owner[f] # c /\ owner[f] \in Conns
          BY <1>3, <2>2, <3>2
        <4> QED
          BY <1>5, <2>3, <2>4, <3>2, <4>1 DEF ArmInv
      <3> QED
        BY <3>1, <3>2
    <2>6. \A d \in Conns : recvs'[d] > 0 => phase[d] \in {"open", "done"}
      BY <2>2, <2>3 DEF ArmInv
    <2> QED
      BY <1>1, <1>3, <2>5, <2>6 DEF ArmInv
  <1> QED
    BY <1>2, <1>6, <1>7 DEF Issue, s

\* Completing a request: a new connection has its accept to be reaped, and a
\* recv that ends says so.
LEMMA ArmComplete ==
    ASSUME TypeOK, OwnerInv, LoopInv, ArmInv,
           CompleteAccept \/ CompleteSend \/ \E c \in Conns : CompleteRecv(c)
    PROVE  ArmInv'
  <1>1. /\ UNCHANGED <<sq, num, active>>
        /\ \A f \in OpenFds : owner[f] \in Conns
    BY DEF CompleteAccept, CompleteSend, CompleteRecv, OpenFds, TypeOK, SocketsTypeOK
  <1>2. \A f : RecvQueued(f)' = RecvQueued(f)
    BY <1>1 DEF RecvQueued
  <1>3. \A f : /\ AcceptPending(f) => AcceptPending(f)'
               /\ RecvEnded(f) => RecvEnded(f)'
    <2>1. \E e : cq' = Append(cq, e)
      BY DEF CompleteAccept, CompleteSend, CompleteRecv, Transmit, Post
    <2> QED
      BY <2>1, PendingGrows
  <1>4. CASE UNCHANGED <<owner, phase, recvs>>
    BY <1>1, <1>2, <1>3, <1>4 DEF ArmInv, OpenFds
  <1>5. CASE CompleteAccept
    <2>1. CASE \E f \in Fds :
                 /\ AcceptAs(f)
                 /\ owner' = [owner EXCEPT ![f] = Head(backlog)]
                 /\ phase' = [phase EXCEPT ![Head(backlog)] = "open"]
                 /\ Post(Cqe("accept", f, NoBid, "ok", 0, TRUE))
      <3>1. PICK f \in Fds :
                 /\ AcceptAs(f)
                 /\ owner' = [owner EXCEPT ![f] = Head(backlog)]
                 /\ phase' = [phase EXCEPT ![Head(backlog)] = "open"]
                 /\ Post(Cqe("accept", f, NoBid, "ok", 0, TRUE))
        BY <2>1
      <3> DEFINE h == Head(backlog)
      <3>2. h \in Conns /\ phase[h] = "queued"
        BY <3>1, AcceptOwner DEF TypeOK
      <3>3. recvs[h] = 0 /\ recvs' = recvs
        <4>1. recvs[h] \in Nat /\ (recvs[h] > 0 => phase[h] \in {"open", "done"})
          BY <3>2 DEF ArmInv, TypeOK
        <4> HIDE DEF h
        <4> QED
          BY <1>5, <3>2, <4>1 DEF CompleteAccept
      <3> HIDE DEF h
      <3>4. AcceptPending(f)'
        <4> DEFINE e == Cqe("accept", f, NoBid, "ok", 0, TRUE)
        <4>1. e \in Cqes /\ e.op = "accept" /\ e.fd = f
          BY CqeTypes DEF Cqe
        <4>2. cq' = Append(cq, e)
          BY <3>1 DEF Post
        <4> HIDE DEF e
        <4> QED
          BY <4>1, <4>2, HoldsAppend DEF AcceptPending, TypeOK
      <3>5. \A g \in OpenFds' : \/ g \in OpenFds /\ owner'[g] = owner[g]
                                \/ g = f /\ owner'[g] = h
        BY <3>1 DEF OpenFds, TypeOK, SocketsTypeOK, h
      <3>6. \A g \in OpenFds' :
               /\ recvs[owner'[g]] > 0 => num[owner'[g]] = g
               /\ active[g] \/ AcceptPending(g)'
               /\ recvs[owner'[g]] > 0 \/ RecvQueued(g)' \/ AcceptPending(g)' \/ RecvEnded(g)'
        BY <1>2, <1>3, <3>3, <3>4, <3>5 DEF ArmInv
      <3>7. \A c \in Conns : recvs[c] > 0 => phase'[c] \in {"open", "done"}
        BY <3>1, <3>2 DEF ArmInv, TypeOK, SocketsTypeOK, h
      <3> QED
        BY <1>1, <3>3, <3>6, <3>7 DEF ArmInv
    <2> QED
      BY <1>4, <1>5, <2>1 DEF CompleteAccept
  <1>6. CASE CompleteSend
    BY <1>4, <1>6 DEF CompleteSend
  <1>7. ASSUME NEW c \in Conns, CompleteRecv(c)
        PROVE  ArmInv'
    <2>1. recvs[c] \in Nat /\ recvs[c] > 0 /\ num[c] \in Fds /\ UNCHANGED <<owner, phase>>
      BY <1>7 DEF CompleteRecv, LoopInv, TypeOK
    <2>2. CASE UNCHANGED recvs
      BY <1>4, <2>1, <2>2
    <2>3. CASE /\ recvs' = [recvs EXCEPT ![c] = @ - 1]
               /\ \E e \in Cqes : /\ e.op = "recv" /\ e.fd = num[c] /\ ~e.more
                                  /\ cq' = Append(cq, e)
      <3>1. RecvEnded(num[c])'
        <4>1. PICK e \in Cqes : e.op = "recv" /\ e.fd = num[c] /\ ~e.more /\ cq' = Append(cq, e)
          BY <2>3
        <4>2. e \in {x \in Cqes : x.op = "recv" /\ x.fd = num[c] /\ ~x.more}
          BY <4>1
        <4>3. Holds(cq', {x \in Cqes : x.op = "recv" /\ x.fd = num[c] /\ ~x.more})
          BY <4>1, <4>2, HoldsAppend DEF TypeOK
        <4> QED
          BY <1>1, <4>3 DEF RecvEnded
      <3>2. \A f \in OpenFds : owner[f] = c => num[c] = f
        BY <2>1 DEF ArmInv
      <3>3. \A d \in Conns : /\ d # c => recvs'[d] = recvs[d]
                             /\ recvs'[d] > 0 => recvs[d] > 0
        BY <2>1, <2>3 DEF TypeOK
      <3>4. OpenFds' = OpenFds
        BY <2>1 DEF OpenFds
      <3>5. \A f \in OpenFds :
               /\ recvs'[owner[f]] > 0 => num[owner[f]] = f
               /\ active[f] \/ AcceptPending(f)'
               /\ recvs'[owner[f]] > 0 \/ RecvQueued(f)' \/ AcceptPending(f)' \/ RecvEnded(f)'
        <4> TAKE f \in OpenFds
        <4>1. CASE owner[f] = c
          BY <1>1, <1>3, <3>1, <3>2, <3>3, <4>1 DEF ArmInv
        <4>2. CASE owner[f] # c
          <5>1. owner[f] \in Conns /\ recvs'[owner[f]] = recvs[owner[f]]
            BY <1>1, <3>3, <4>2
          <5> QED
            BY <1>2, <1>3, <5>1 DEF ArmInv
        <4> QED
          BY <4>1, <4>2
      <3>6. \A d \in Conns : recvs'[d] > 0 => phase[d] \in {"open", "done"}
        BY <3>3 DEF ArmInv
      <3> QED
        BY <1>1, <2>1, <3>4, <3>5, <3>6 DEF ArmInv
    <2>5. CASE \E b \in free, more \in {TRUE, ~RecvMayEnd} :
                /\ Avail(c) > 0
                /\ recvs' = [recvs EXCEPT ![c] = IF more THEN @ ELSE @ - 1]
                /\ Post(Cqe("recv", num[c], b, "ok", ReadLen(c), more))
      <3>1. PICK b \in free, more \in {TRUE, ~RecvMayEnd} :
                /\ Avail(c) > 0
                /\ recvs' = [recvs EXCEPT ![c] = IF more THEN @ ELSE @ - 1]
                /\ Post(Cqe("recv", num[c], b, "ok", ReadLen(c), more))
        BY <2>5
      <3>2. CASE more
        BY <2>2, <3>1, <3>2 DEF TypeOK
      <3>3. CASE ~more
        <4> DEFINE e == Cqe("recv", num[c], b, "ok", ReadLen(c), more)
        <4>1. ReadLen(c) \in Nat \ {0}
          <5>1. Avail(c) \in Nat \ {0}
            BY <3>1 DEF Avail, TypeOK, SocketsTypeOK
          <5>2. BUF_SIZE \in Nat \ {0}
            BY SocketsAssumption
          <5> QED
            BY <5>1, <5>2 DEF ReadLen, Lesser
        <4>2. b \in Bids /\ more \in BOOLEAN
          BY <3>1, UringOptAssumption DEF TypeOK
        <4>3. e \in Cqes /\ e.op = "recv" /\ e.fd = num[c] /\ ~e.more /\ cq' = Append(cq, e)
          BY <2>1, <3>1, <3>3, <4>1, <4>2, CqeTypes DEF Cqe, Post
        <4>4. recvs' = [recvs EXCEPT ![c] = @ - 1]
          BY <3>1, <3>3
        <4> HIDE DEF e
        <4> QED
          BY <2>3, <4>3, <4>4
      <3> QED
        BY <3>2, <3>3
    <2>6. CASE /\ recvs' = [recvs EXCEPT ![c] = @ - 1]
               /\ \E r \in {"ok", "nobufs", "bad"} :
                     Post(Cqe("recv", num[c], NoBid, r, 0, FALSE))
      <3>1. PICK r \in {"ok", "nobufs", "bad"} : Post(Cqe("recv", num[c], NoBid, r, 0, FALSE))
        BY <2>6
      <3> DEFINE e == Cqe("recv", num[c], NoBid, r, 0, FALSE)
      <3>2. e \in Cqes /\ e.op = "recv" /\ e.fd = num[c] /\ ~e.more /\ cq' = Append(cq, e)
        BY <2>1, <3>1, CqeTypes DEF Cqe, Post
      <3> HIDE DEF e
      <3> QED
        BY <2>3, <2>6, <3>2
    <2> QED
      BY <1>7, <2>5, <2>6 DEF CompleteRecv
  <1> QED
    BY <1>5, <1>6, <1>7

\* Handling a completion: an accept and an ended recv make way for a recv in
\* the submission queue, or their connection is closed.
LEMMA ArmReap ==
    ASSUME TypeOK, OwnerInv, LoopInv, ArmInv,
           ReapAccept \/ ReapRecv \/ Rearm \/ ReapEof \/ ReapSend
    PROVE  ArmInv'
  <1>1. PICK e : e = Head(cq)
    OBVIOUS
  <1>2. /\ UNCHANGED <<backlog, recvs, num>>
        /\ cq # <<>> /\ e \in Cqes /\ (cq' = cq \/ cq' = Tail(cq))
    BY <1>1, HandTypes, HeadTypes
       DEF ReapAccept, ReapRecv, Rearm, ReapEof, ReapSend, Reaping, NextCqe, InHand,
           sockVars, kernVars
  <1>3. /\ \A f : AcceptPending(f) => AcceptPending(f)' \/ (e.op = "accept" /\ e.fd = f)
        /\ \A f : RecvEnded(f) => RecvEnded(f)' \/ (e.op = "recv" /\ e.fd = f /\ ~e.more)
    <2>1. CASE cq' = cq
      BY <2>1 DEF AcceptPending, RecvEnded
    <2> QED
      BY <1>1, <1>2, <2>1, PendingShrinks
  <1>4. \A f : RecvQueued(f) => RecvQueued(f)'
    <2>1. sq' = sq \/ \E s : sq' = Append(sq, s)
      BY DEF ReapAccept, ReapRecv, Rearm, ReapEof, ReapSend, AddSqe
    <2> QED
      BY <2>1, QueuedGrows
  <1>5. /\ e.op = "accept" => (e.res = "ok" <=> e.fd \in Fds)
        /\ e.op # "accept" => e.fd \in Fds
    BY <1>2 DEF Cqes
  <1>6. CASE e.fd \in Fds /\ CloseNumber(e.fd) /\ active' \in {active, [active EXCEPT ![e.fd] = FALSE]}
    <2>1. /\ OpenFds' = OpenFds \ {e.fd}
          /\ \A g \in OpenFds' : owner'[g] = owner[g]
          /\ \A c \in Conns : phase[c] \in {"open", "done"} => phase'[c] \in {"open", "done"}
      BY <1>2, <1>6, CloseNumberOwner DEF TypeOK
    <2>2. \A g \in OpenFds' : active'[g] = active[g] /\ g # e.fd /\ g \in OpenFds
      BY <1>6, <2>1 DEF TypeOK, OpenFds
    <2>3. \A g \in OpenFds' :
             /\ recvs[owner'[g]] > 0 => num[owner'[g]] = g
             /\ active'[g] \/ AcceptPending(g)'
             /\ recvs[owner'[g]] > 0 \/ RecvQueued(g)' \/ AcceptPending(g)' \/ RecvEnded(g)'
      BY <1>3, <1>4, <2>1, <2>2 DEF ArmInv
    <2>4. \A c \in Conns : recvs[c] > 0 => phase'[c] \in {"open", "done"}
      BY <2>1 DEF ArmInv
    <2> QED
      BY <1>2, <2>3, <2>4 DEF ArmInv
  <1>7. ASSUME UNCHANGED <<owner, phase>>,
               \A g \in Fds : active[g] => active'[g],
               \A g \in OpenFds : \/ AcceptPending(g) => AcceptPending(g)'
                                  \/ active'[g] /\ RecvQueued(g)',
               \A g \in OpenFds : \/ RecvEnded(g) => RecvEnded(g)'
                                  \/ RecvQueued(g)' \/ AcceptPending(g)'
        PROVE  ArmInv'
    <2>1. OpenFds' = OpenFds /\ OpenFds \subseteq Fds
      BY <1>7 DEF OpenFds
    <2> QED
      BY <1>2, <1>4, <1>7, <2>1 DEF ArmInv
  <1>8. CASE ReapAccept
    <2>1. e.op = "accept"
      BY <1>1, <1>8 DEF ReapAccept, Reaping
    <2>2. CASE /\ e.res = "ok" /\ active' = [active EXCEPT ![e.fd] = TRUE]
               /\ AddSqe(Sqe("recv", e.fd, NoBid)) /\ UNCHANGED <<owner, phase>>
      <3>1. e.fd \in Fds /\ RecvQueued(e.fd)' /\ active'[e.fd]
        <4>1. e.fd \in Fds
          BY <1>5, <2>1, <2>2
        <4>2. RecvQueued(e.fd)'
          BY <2>2, <4>1, QueuedRecv
        <4> QED
          BY <2>2, <4>1, <4>2 DEF TypeOK
      <3>2. \A g \in Fds : active[g] => active'[g]
        BY <2>2, <3>1 DEF TypeOK
      <3>3. /\ \A g \in OpenFds : \/ AcceptPending(g) => AcceptPending(g)'
                                  \/ active'[g] /\ RecvQueued(g)'
            /\ \A g \in OpenFds : RecvEnded(g) => RecvEnded(g)'
        BY <1>3, <2>1, <3>1, Zenon
      <3> QED
        BY <1>7, <2>2, <3>2, <3>3
    <2>3. CASE e.res = "ok" /\ CloseNumber(e.fd) /\ UNCHANGED <<active, sq>>
      BY <1>5, <1>6, <2>1, <2>3
    <2>4. CASE e.res # "ok" /\ UNCHANGED <<owner, phase, active>>
      <3>1. \A g \in OpenFds : g # e.fd
        BY <1>5, <2>1, <2>4 DEF OpenFds
      <3> QED
        BY <1>3, <1>7, <2>1, <2>4, <3>1
    <2> QED
      BY <1>1, <1>8, <2>2, <2>3, <2>4 DEF ReapAccept
  <1>9. CASE ReapRecv
    <2>1. cq' = cq /\ UNCHANGED <<owner, phase, active>>
      BY <1>9 DEF ReapRecv, sockVars
    <2>2. \A g : AcceptPending(g)' = AcceptPending(g) /\ RecvEnded(g)' = RecvEnded(g)
      BY <2>1 DEF AcceptPending, RecvEnded
    <2> QED
      BY <1>7, <2>1, <2>2
  <1>10. CASE Rearm
    <2>1. e.op = "recv" /\ e.fd \in Fds /\ UNCHANGED <<owner, phase, active>>
      BY <1>1, <1>10, HandTypes DEF Rearm, InHand, sockVars
    <2>2. CASE active[e.fd] /\ ~e.more
      <3>1. RecvQueued(e.fd)'
        <4>1. AddSqe(Sqe("recv", e.fd, NoBid))
          BY <1>1, <1>10, <2>2 DEF Rearm
        <4> QED
          BY <2>1, <4>1, QueuedRecv
      <3>2. /\ \A g \in OpenFds : AcceptPending(g) => AcceptPending(g)'
            /\ \A g \in OpenFds : (RecvEnded(g) => RecvEnded(g)') \/ RecvQueued(g)'
        BY <1>3, <2>1, <3>1, Zenon
      <3> QED
        BY <1>7, <2>1, <3>2
    <2>3. CASE e.more
      BY <1>3, <1>7, <2>1, <2>3
    <2>4. CASE ~active[e.fd]
      <3>1. e.fd \in OpenFds => AcceptPending(e.fd)'
        <4>1. e.fd \in OpenFds => active[e.fd] \/ AcceptPending(e.fd)
          BY DEF ArmInv
        <4> QED
          BY <1>3, <2>1, <2>4, <4>1, Zenon
      <3>2. /\ \A g \in OpenFds : AcceptPending(g) => AcceptPending(g)'
            /\ \A g \in OpenFds : (RecvEnded(g) => RecvEnded(g)') \/ AcceptPending(g)'
        BY <1>3, <2>1, <3>1, Zenon
      <3> QED
        BY <1>7, <2>1, <3>2
    <2> QED
      BY <2>2, <2>3, <2>4
  <1>11. CASE ReapEof
    <2>1. e.op = "recv" /\ CloseNumber(e.fd) /\ active' = [active EXCEPT ![e.fd] = FALSE]
      BY <1>1, <1>11 DEF ReapEof, Reaping
    <2> QED
      BY <1>5, <1>6, <2>1
  <1>12. CASE ReapSend
    <2>1. e.op = "send"
      BY <1>1, <1>12 DEF ReapSend, Reaping
    <2>2. CASE CloseNumber(e.fd) /\ active' = [active EXCEPT ![e.fd] = FALSE]
      BY <1>5, <1>6, <2>1, <2>2
    <2>3. CASE UNCHANGED <<owner, phase, active>>
      BY <1>3, <1>7, <2>1, <2>3
    <2> QED
      BY <1>1, <1>12, <2>2, <2>3 DEF ReapSend
  <1> QED
    BY <1>8, <1>9, <1>10, <1>11, <1>12

\* Every step leaves each open connection a recv or a reason for one.
LEMMA ArmStep ==
    ASSUME TypeOK, OwnerInv, LoopInv, ArmInv, [Next]_uVars
    PROVE  ArmInv'
  <1>1. CASE Boot
    <2>1. OpenFds' = {} /\ UNCHANGED <<recvs, phase>>
      BY <1>1 DEF Boot, LoopInv, OpenFds, kernVars
    <2> QED
      BY <2>1 DEF ArmInv
  <1>2. CASE Kill
    <2>1. OpenFds' = {} /\ recvs' = [c \in Conns |-> 0]
      BY <1>2, ExitTypes DEF Kill, TypeOK
    <2> QED
      BY <2>1 DEF ArmInv
  <1>3. CASE Issued \/ Return \/ Flush \/ EndRound \/ Network \/ UNCHANGED uVars
    <2>1. /\ UNCHANGED <<sq, cq, recvs, num, active, owner>>
          /\ \A c \in Conns : phase[c] \in {"open", "done"} => phase'[c] = phase[c]
      BY <1>3, ClientOwner DEF Issued, Return, Flush, EndRound, Network, uVars, kernVars,
                               sockVars, TypeOK
    <2>2. \A f : /\ AcceptPending(f)' = AcceptPending(f)
                 /\ RecvEnded(f)' = RecvEnded(f)
                 /\ RecvQueued(f)' = RecvQueued(f)
      BY <2>1 DEF AcceptPending, RecvEnded, RecvQueued
    <2> QED
      BY <2>1, <2>2 DEF ArmInv, OpenFds
  <1> QED
    BY <1>1, <1>2, <1>3, ArmIssue, ArmComplete, ArmReap DEF Next, Submit, Kernel, Loop

-----------------------------------------------------------------------------
(* The theorems.                                                           *)

Inv == TypeOK /\ OwnerInv /\ LoopInv /\ BufInv /\ ArmInv

\* At first.
LEMMA InvInit == Init => Inv
  <1> SUFFICES ASSUME Init PROVE Inv
    OBVIOUS
  <1>1. SocketsTypeOK /\ OwnerInv /\ OpenFds = {}
    BY SocketsStart DEF Init
  <1>2. TypeOK
    <2>1. /\ sq \in Seq(Sqes) /\ cq \in Seq(Cqes) /\ store \in [Bids -> Seq(Byte)]
          /\ num \in [Conns -> FdNums] /\ recvs \in [Conns -> Nat]
      BY AppendTypes DEF Init, FdNums
    <2> QED
      BY <1>1, <2>1 DEF Init, TypeOK
  <1>3. LoopInv /\ ArmInv
    BY <1>1 DEF Init, LoopInv, ArmInv, InHand
  <1>4. BufInv
    BY FS_EmptySet DEF Init, BufInv, Up
  <1> QED
    BY <1>1, <1>2, <1>3, <1>4 DEF Inv

\* The inductive invariant: what TLC checks on two connections holds for any.
THEOREM Invariance == Spec => []Inv
  <1>1. Inv /\ [Next]_uVars => Inv'
    BY TypeStep, OwnerStep, LoopStep, BufStep, ArmStep DEF Inv
  <1> QED
    BY InvInit, <1>1, PTL DEF Spec

\* Every buffer of the provided ring is in exactly one place at any time:
\* none is lost and none is handed to two requests, whatever the clients do,
\* whichever connections fail and however small the submission queue.
THEOREM BuffersAreConserved == Spec => []BuffersConserved
  <1>1. Inv => BuffersConserved
    <2> SUFFICES ASSUME Inv, Up, NEW b \in Bids
                 PROVE  Cardinality({b} \cap free)
                           + Cardinality({i \in DOMAIN sq : sq[i].bid = b})
                           + Cardinality({i \in DOMAIN Unreaped : Unreaped[i].bid = b})
                           + Cardinality({s \in sends : s.bid = b}) = 1
      BY DEF BuffersConserved, Count
    <2>1. Cardinality({b} \cap free) = InRing(b)
      <3>1. {b} \cap free = IF b \in free THEN {b} ELSE {}
        OBVIOUS
      <3> QED
        BY <3>1, FS_EmptySet, FS_Singleton DEF InRing
    <2>2. {i \in DOMAIN sq : sq[i].bid = b} = Matches(sq, {s \in Sqes : s.bid = b})
      BY DEF Inv, TypeOK, Matches
    <2>3. {i \in DOMAIN Unreaped : Unreaped[i].bid = b}
             = Matches(Unreaped, {e \in Cqes : e.bid = b})
      BY UnreapedType DEF Inv, Matches
    <2>4. InRing(b) + InSq(b) + InCq(b) + InSends(b) = 1
      BY DEF Inv, BufInv
    <2> QED
      BY <2>1, <2>2, <2>3, <2>4 DEF InSq, InCq, InSends
  <1> QED
    BY Invariance, <1>1, PTL

\* No connection is forgotten: when the thread sleeps, each open one has a
\* recv in the kernel or a completion to come that will arm one.
THEOREM RecvsAreArmed == Spec => []RecvArmed
  <1>1. Inv => RecvArmed
    <2> SUFFICES ASSUME Inv, pc = "wait", NEW f \in OpenFds, ~(recvs[owner[f]] > 0)
                 PROVE  \E i \in DOMAIN cq : cq[i].fd = f /\ cq[i].op # "send"
      BY DEF RecvArmed
    <2>1. ~RecvQueued(f)
      BY DEF Inv, LoopInv, RecvQueued, Holds
    <2>2. AcceptPending(f) \/ RecvEnded(f)
      BY <2>1 DEF Inv, ArmInv
    <2> QED
      BY <2>2 DEF AcceptPending, RecvEnded, Holds
  <1> QED
    BY Invariance, <1>1, PTL

-----------------------------------------------------------------------------
(* What is in a queue.                                                     *)

Entries(q) == {q[i] : i \in DOMAIN q}

\* An entry is added at the end, ...
LEMMA EntriesAppend ==
    ASSUME NEW S, NEW q \in Seq(S), NEW e
    PROVE  Entries(Append(q, e)) = Entries(q) \cup {e}
  <1> DEFINE T == S \cup {e}
  <1>1. q \in Seq(T) /\ e \in T
    OBVIOUS
  <1> HIDE DEF T
  <1>2. /\ DOMAIN q = 1..Len(q) /\ Len(q) \in Nat
        /\ DOMAIN Append(q, e) = 1..(Len(q) + 1)
        /\ Append(q, e)[Len(q) + 1] = e
        /\ \A i \in 1..Len(q) : Append(q, e)[i] = q[i]
    BY <1>1
  <1>3. \A i \in 1..(Len(q) + 1) : i \in 1..Len(q) \/ i = Len(q) + 1
    BY <1>2
  <1>4. Len(q) + 1 \in 1..(Len(q) + 1) /\ \A i \in 1..Len(q) : i \in 1..(Len(q) + 1)
    BY <1>2
  <1> QED
    BY <1>2, <1>3, <1>4 DEF Entries

\* ... and taken away at the front.
LEMMA EntriesTail ==
    ASSUME NEW S, NEW q \in Seq(S), q # <<>>
    PROVE  /\ Entries(q) = Entries(Tail(q)) \cup {Head(q)}
           /\ Tail(q) \in Seq(S) /\ Head(q) \in S
  <1>1. /\ DOMAIN q = 1..Len(q) /\ DOMAIN Tail(q) = 1..(Len(q) - 1)
        /\ Head(q) = q[1] /\ Len(q) \in Nat /\ Len(q) >= 1
        /\ \A i \in 1..(Len(q) - 1) : Tail(q)[i] = q[i + 1]
        /\ Tail(q) \in Seq(S) /\ Head(q) \in S
    OBVIOUS
  <1>2. \A i \in 1..Len(q) : i = 1 \/ (i - 1 \in 1..(Len(q) - 1) /\ Tail(q)[i - 1] = q[i])
    BY <1>1
  <1>3. \A i \in 1..(Len(q) - 1) : i + 1 \in 1..Len(q)
    BY <1>1
  <1>4. Entries(q) \subseteq Entries(Tail(q)) \cup {Head(q)}
    <2>1. ASSUME NEW i \in 1..Len(q)
          PROVE  q[i] \in Entries(Tail(q)) \cup {Head(q)}
      BY <1>1, <1>2, <2>1 DEF Entries
    <2> QED
      BY <1>1, <2>1 DEF Entries
  <1>5. Entries(Tail(q)) \cup {Head(q)} \subseteq Entries(q)
    <2>1. \A i \in 1..(Len(q) - 1) : Tail(q)[i] \in Entries(q)
      BY <1>1, <1>3 DEF Entries
    <2>2. q[1] \in Entries(q)
      BY <1>1 DEF Entries
    <2> QED
      BY <1>1, <2>1, <2>2 DEF Entries
  <1> QED
    BY <1>1, <1>4, <1>5

\* A queue holds what is an entry of it.
LEMMA HoldsEntries ==
    ASSUME NEW q, NEW P
    PROVE  Holds(q, P) <=> \E x \in Entries(q) : x \in P
  BY DEF Holds, Entries

\* The entries have their type.
LEMMA EntriesType ==
    ASSUME NEW S, NEW q \in Seq(S)
    PROVE  Entries(q) \subseteq S
  BY DEF Entries

\* What no entry is counts for nothing, and the reverse.
LEMMA NoneCounted ==
    ASSUME NEW S, NEW q \in Seq(S), NEW P
    PROVE  /\ ~Holds(q, P) <=> Cardinality(Matches(q, P)) = 0
           /\ Cardinality(Matches(q, P)) \in Nat
  <1>1. ~Holds(q, P) <=> Matches(q, P) = {}
    BY DEF Holds, Matches
  <1> QED
    BY <1>1, MatchesNat, FS_EmptySet

-----------------------------------------------------------------------------
(* Polite clients: whose data waits where.                                 *)

SendSqe(b, f) == {s \in Sqes : s.op = "send" /\ s.fd = f /\ s.bid = b}
DataCqe(b, f) == {e \in Cqes : e.op = "recv" /\ e.fd = f /\ e.bid = b}

\* Buffer b waits to be sent to the connection of number f.
Pends(b, f) ==
    \/ Holds(sq, SendSqe(b, f))
    \/ Holds(Unreaped, DataCqe(b, f))
    \/ \E s \in sends : s.fd = f /\ s.bid = b

\* The bytes of buffer b are those after position Lo(b) up to Hi(b).
Lo(b) == store[b][1][2] - 1
Hi(b) == Lo(b) + Len(store[b])

Piece(b, c) ==
    /\ store[b] # <<>>
    /\ Lo(b) \in Nat
    /\ store[b] = Bytes(c, Lo(b), Len(store[b]))
    /\ Hi(b) <= taken[c]

\* The position in its stream of the j-th byte of the echo.
At(c, j) == echo[c][j][2]

\* The data that waits are different pieces of their connection's stream,
\* and no byte is echoed twice or waits after it was echoed.
PieceInv ==
    /\ \A b \in Bids, f \in Fds : Pends(b, f) =>
          /\ Piece(b, owner[f])
          /\ \A j \in 1..Len(echo[owner[f]]) : ~(Lo(b) < At(owner[f], j) /\ At(owner[f], j) <= Hi(b))
    /\ \A b, d \in Bids, f \in Fds : Pends(b, f) /\ Pends(d, f) /\ b # d =>
          Hi(b) <= Lo(d) \/ Hi(d) <= Lo(b)
    /\ \A c \in Conns : \A i, j \in 1..Len(echo[c]) :
          /\ At(c, i) \in 1..taken[c]
          /\ At(c, i) = At(c, j) => i = j

\* A client that has left was answered before.
LeaveInv ==
    /\ GoneInv
    /\ \A c \in Conns :
        /\ got[c] <= Len(echo[c]) /\ taken[c] <= sent[c]
        /\ cl[c] # "up" => got[c] = sent[c]
        /\ phase[c] \in {"none", "queued"} => taken[c] = 0

\* A number in a queue stands for a connection that has it.
NumberInv ==
    /\ \A s \in sends : owner[s.fd] = s.who
    /\ \A s \in Entries(sq) : s.op # "accept" => owner[s.fd] # NoConn
    /\ \A e \in Entries(cq) : e.fd \in Fds => owner[e.fd] # NoConn
    /\ \A c \in Conns : recvs[c] > 0 => owner[num[c]] = c

\* Sends succeed, a recv ends without data only when the client has left, and
\* nothing is read before the accept is reaped.
CqeInv ==
    \A e \in Entries(cq) :
       /\ e.op = "send" => e.res = "ok"
       /\ e.op = "recv" /\ e.len = 0 => ~e.more /\ cl[owner[e.fd]] # "up"
       /\ e.op = "accept" /\ e.fd \in Fds => taken[owner[e.fd]] = 0
       /\ e.res # "nobufs"

\* Nothing of a number comes after the end of its stream, or after the accept
\* as long as that is not reaped.
Final(e) == e.fd \in Fds /\ (e.op = "accept" \/ (e.op = "recv" /\ e.len = 0))
OrderInv ==
    \A i, j \in 1..Len(cq) : i < j /\ Final(cq[i]) => cq[j].fd # cq[i].fd

\* A connection has one recv, or one reason for the program to arm one.
Queued(f) == Cardinality(Matches(sq, {s \in Sqes : s.op = "recv" /\ s.fd = f}))
Accepted(f) == Cardinality(Matches(cq, {e \in Cqes : e.op = "accept" /\ e.fd = f}))
Ended(f) == Cardinality(Matches(cq, {e \in Cqes : e.op = "recv" /\ e.fd = f /\ ~e.more}))
ArmOnce ==
    \A f \in OpenFds : recvs[owner[f]] + Queued(f) + Accepted(f) + Ended(f) <= 1

Calm == LeaveInv /\ NumberInv /\ PieceInv /\ CqeInv /\ OrderInv /\ ArmOnce

\* The types of what the invariants speak of.
LEMMA CalmTypes ==
    ASSUME TypeOK, LoopInv
    PROVE  /\ sq \in Seq(Sqes) /\ cq \in Seq(Cqes) /\ Unreaped \in Seq(Cqes)
           /\ Entries(sq) \subseteq Sqes /\ Entries(cq) \subseteq Cqes
           /\ Entries(Unreaped) \subseteq Entries(cq)
           /\ \A f : Queued(f) \in Nat /\ Accepted(f) \in Nat /\ Ended(f) \in Nat
           /\ \A f \in OpenFds : owner[f] \in Conns
           /\ \A f \in Fds : owner[f] # NoConn => f \in OpenFds /\ owner[f] \in Conns
           /\ \A f \in OpenFds : f \in Fds /\ owner[f] # NoConn
  <1>1. sq \in Seq(Sqes) /\ cq \in Seq(Cqes) /\ Unreaped \in Seq(Cqes)
    BY UnreapedType DEF TypeOK
  <1>2. Entries(Unreaped) \subseteq Entries(cq)
    <2>1. CASE InHand
      <3>1. cq # <<>> /\ Unreaped = Tail(cq)
        BY <2>1 DEF LoopInv, InHand, Unreaped
      <3> QED
        BY <1>1, <3>1, EntriesTail
    <2>2. CASE ~InHand
      BY <2>2 DEF InHand, Unreaped
    <2> QED
      BY <2>1, <2>2
  <1>3. \A f : Queued(f) \in Nat /\ Accepted(f) \in Nat /\ Ended(f) \in Nat
    BY <1>1, MatchesNat DEF Queued, Accepted, Ended
  <1>4. Entries(sq) \subseteq Sqes /\ Entries(cq) \subseteq Cqes
    BY <1>1, EntriesType
  <1>5. /\ \A f \in OpenFds : owner[f] \in Conns
        /\ \A f \in Fds : owner[f] # NoConn => f \in OpenFds /\ owner[f] \in Conns
        /\ \A f \in OpenFds : f \in Fds /\ owner[f] # NoConn
    BY DEF OpenFds, TypeOK, SocketsTypeOK
  <1> QED
    BY <1>1, <1>2, <1>3, <1>4, <1>5

\* The echo fits into what was read, and leaves room for what waits.
LEMMA EchoFits ==
    ASSUME TypeOK, PieceInv, NEW c \in Conns, NEW h, h \in 1..taken[c] \/ h = 0,
           \A j \in 1..Len(echo[c]) : At(c, j) # h
    PROVE  Len(echo[c]) <= IF h = 0 THEN taken[c] ELSE taken[c] - 1
  <1> DEFINE n == Len(echo[c])
             T == (1..taken[c]) \ {h}
             pos == [j \in 1..n |-> At(c, j)]
  <1>1. n \in Nat /\ taken[c] \in Nat
    BY ConnParts DEF TypeOK
  <1>2. /\ \A j \in 1..n : At(c, j) \in T
        /\ \A i, j \in 1..n : At(c, i) = At(c, j) => i = j
    BY DEF PieceInv
  <1>3. /\ IsFiniteSet(1..n) /\ Cardinality(1..n) = n
        /\ IsFiniteSet(1..taken[c]) /\ Cardinality(1..taken[c]) = taken[c]
    <2>1. ASSUME NEW m \in Nat
          PROVE  IsFiniteSet(1..m) /\ Cardinality(1..m) = m
      <3>1. /\ IsFiniteSet(1..m)
            /\ Cardinality(1..m) = IF 1 > m THEN 0 ELSE m - 1 + 1
        BY FS_Interval
      <3> QED
        BY <3>1
    <2> HIDE DEF n
    <2> QED
      BY <1>1, <2>1
  <1>4. IsFiniteSet(T) /\ Cardinality(T) = IF h = 0 THEN taken[c] ELSE taken[c] - 1
    <2>1. CASE h = 0
      <3>1. T = 1..taken[c]
        BY <2>1
      <3> QED
        BY <1>3, <2>1, <3>1
    <2>2. CASE h # 0
      BY <1>3, <2>2, FS_RemoveElement
    <2> QED
      BY <2>1, <2>2
  <1> HIDE DEF n, T
  <1>5. pos \in Injection(1..n, T)
    BY <1>2 DEF Injection, IsInjective
  <1> HIDE DEF pos
  <1>6. Cardinality(1..n) <= Cardinality(T)
    BY <1>3, <1>4, <1>5, FS_Injection DEF ExistsInjection
  <1> QED
    BY <1>3, <1>4, <1>6 DEF n

\* So a client that has left has nothing that waits for it.
LEMMA LeftEmpty ==
    ASSUME TypeOK, PieceInv, LeaveInv, NEW f \in Fds, owner[f] \in Conns
    PROVE  /\ Len(echo[owner[f]]) <= taken[owner[f]]
           /\ cl[owner[f]] # "up" => \A b \in Bids : ~Pends(b, f)
           /\ taken[owner[f]] = 0 => \A b \in Bids : ~Pends(b, f)
  <1> DEFINE c == owner[f]
  <1>1. /\ got[c] <= Len(echo[c]) /\ taken[c] <= sent[c]
        /\ cl[c] # "up" => got[c] = sent[c]
        /\ got[c] \in Nat /\ taken[c] \in Nat /\ sent[c] \in Nat /\ Len(echo[c]) \in Nat
    BY ConnParts DEF LeaveInv, TypeOK
  <1>2. ASSUME NEW b \in Bids, Pends(b, f)
        PROVE  Len(echo[c]) < taken[c] /\ taken[c] # 0
    <2>1. /\ store[b] # <<>> /\ store[b] \in Seq(Byte) /\ Lo(b) \in Nat /\ Hi(b) <= taken[c]
          /\ \A j \in 1..Len(echo[c]) : ~(Lo(b) < At(c, j) /\ At(c, j) <= Hi(b))
      BY <1>2 DEF PieceInv, Piece, TypeOK
    <2>2. Len(store[b]) \in Nat /\ Len(store[b]) >= 1
      BY <2>1
    <2>3. Hi(b) \in Nat /\ Lo(b) < Hi(b) /\ Hi(b) \in 1..taken[c] /\ Hi(b) # 0
      BY <1>1, <2>1, <2>2 DEF Hi
    <2>4. \A j \in 1..Len(echo[c]) : At(c, j) # Hi(b)
      BY <2>1, <2>3
    <2> HIDE DEF c
    <2>5. Len(echo[c]) <= taken[c] - 1
      <3>1. c \in Conns
        BY DEF c
      <3> QED
        BY <2>3, <2>4, <3>1, EchoFits
    <2> QED
      BY <1>1, <2>3, <2>5
  <1>3. Len(echo[c]) <= taken[c]
    <2>1. \A j \in 1..Len(echo[c]) : At(c, j) # 0
      BY <1>1 DEF PieceInv
    <2> HIDE DEF c
    <2>2. c \in Conns
      BY DEF c
    <2> QED
      BY <2>1, <2>2, EchoFits
  <1> QED
    BY <1>1, <1>2, <1>3

\* No entry of a queue names b.
Without(q, b) == \A x \in Entries(q) : x.bid # b
Unsent(b) == \A s \in sends : s.bid # b

\* The counts say where b is not.
LEMMA CountedNowhere ==
    ASSUME TypeOK, LoopInv, BufInv, NEW b \in Bids
    PROVE  /\ InSq(b) = 0 <=> Without(sq, b)
           /\ InCq(b) = 0 <=> Without(Unreaped, b)
           /\ InSends(b) = 0 <=> Unsent(b)
  <1>1. InSq(b) = 0 <=> Without(sq, b)
    <2>1. InSq(b) = 0 <=> ~Holds(sq, {s \in Sqes : s.bid = b})
      BY NoneCounted DEF InSq, TypeOK
    <2> QED
      BY <2>1, CalmTypes, HoldsEntries DEF Without
  <1>2. InCq(b) = 0 <=> Without(Unreaped, b)
    <2>1. InCq(b) = 0 <=> ~Holds(Unreaped, {e \in Cqes : e.bid = b})
      BY CalmTypes, NoneCounted DEF InCq
    <2>2. Entries(Unreaped) \subseteq Cqes
      BY CalmTypes
    <2> QED
      BY <2>1, <2>2, HoldsEntries DEF Without
  <1>3. InSends(b) = 0 <=> Unsent(b)
    <2>1. IsFiniteSet({s \in sends : s.bid = b})
      BY FS_Subset DEF BufInv
    <2> QED
      BY <2>1, FS_EmptySet DEF InSends, Unsent
  <1> QED
    BY <1>1, <1>2, <1>3

\* A buffer is named once: ...
LEMMA NamedOnce ==
    ASSUME TypeOK, LoopInv, BufInv, Up, NEW b \in Bids
    PROVE  /\ b \in free => Without(sq, b) /\ Without(Unreaped, b) /\ Unsent(b)
           /\ ~Without(sq, b) => b \notin free /\ Without(Unreaped, b) /\ Unsent(b)
           /\ ~Without(Unreaped, b) => b \notin free /\ Without(sq, b) /\ Unsent(b)
           /\ ~Unsent(b) => b \notin free /\ Without(sq, b) /\ Without(Unreaped, b)
           /\ InSq(b) <= 1 /\ InCq(b) <= 1 /\ InSends(b) <= 1
  <1>1. /\ InRing(b) \in Nat /\ InSq(b) \in Nat /\ InCq(b) \in Nat /\ InSends(b) \in Nat
        /\ InRing(b) + InSq(b) + InCq(b) + InSends(b) = 1
    BY PlaceTypes DEF BufInv
  <1>2. b \in free <=> InRing(b) = 1
    BY DEF InRing
  <1>3. /\ InSq(b) = 0 <=> Without(sq, b)
        /\ InCq(b) = 0 <=> Without(Unreaped, b)
        /\ InSends(b) = 0 <=> Unsent(b)
    BY CountedNowhere
  <1> QED
    BY <1>1, <1>2, <1>3

\* ... by the SQE that is issued, ...
LEMMA HeadSqOnce ==
    ASSUME TypeOK, LoopInv, BufInv, Up, NEW b \in Bids, sq # <<>>, Head(sq).bid = b
    PROVE  b \notin free /\ Without(Tail(sq), b) /\ Without(Unreaped, b) /\ Unsent(b)
  <1> DEFINE P == {s \in Sqes : s.bid = b}
  <1>1. /\ Entries(sq) = Entries(Tail(sq)) \cup {Head(sq)}
        /\ Tail(sq) \in Seq(Sqes) /\ Head(sq) \in P
    BY EntriesTail DEF TypeOK
  <1>2. ~Without(sq, b)
    BY <1>1 DEF Without
  <1>3. InSq(b) = Cardinality(Matches(Tail(sq), P)) + 1
    BY <1>1, MatchesTail DEF InSq, TypeOK
  <1>4. Cardinality(Matches(Tail(sq), P)) = 0
    <2>1. Cardinality(Matches(Tail(sq), P)) \in Nat
      BY <1>1, MatchesNat
    <2>2. InSq(b) <= 1
      BY NamedOnce
    <2> QED
      BY <1>3, <2>1, <2>2
  <1>5. ~Holds(Tail(sq), P)
    BY <1>1, <1>4, NoneCounted
  <1>6. Without(Tail(sq), b)
    BY <1>1, <1>5, HoldsEntries, EntriesType DEF Without
  <1> QED
    BY <1>2, <1>6, NamedOnce

\* ... by the completion that is handled, ...
LEMMA HeadCqOnce ==
    ASSUME TypeOK, LoopInv, BufInv, Up, NEW b \in Bids,
           Unreaped # <<>>, Head(Unreaped).bid = b
    PROVE  b \notin free /\ Without(Tail(Unreaped), b) /\ Without(sq, b) /\ Unsent(b)
  <1> DEFINE P == {e \in Cqes : e.bid = b}
             U == Unreaped
  <1>0. U \in Seq(Cqes)
    BY UnreapedType
  <1> HIDE DEF U
  <1>1. /\ Entries(U) = Entries(Tail(U)) \cup {Head(U)} /\ U # <<>>
        /\ Tail(U) \in Seq(Cqes) /\ Head(U) \in P
    BY <1>0, EntriesTail DEF U
  <1>2. ~Without(U, b)
    BY <1>1 DEF Without
  <1>3. InCq(b) = Cardinality(Matches(Tail(U), P)) + 1
    <2>1. InCq(b) = Cardinality(Matches(U, P))
      BY DEF InCq, U
    <2> QED
      BY <1>0, <1>1, <2>1, MatchesTail
  <1>4. Cardinality(Matches(Tail(U), P)) = 0
    <2>1. Cardinality(Matches(Tail(U), P)) \in Nat
      BY <1>1, MatchesNat
    <2>2. InCq(b) <= 1
      BY NamedOnce
    <2> QED
      BY <1>3, <2>1, <2>2
  <1>5. ~Holds(Tail(U), P)
    BY <1>1, <1>4, NoneCounted
  <1>6. Without(Tail(U), b)
    BY <1>1, <1>5, HoldsEntries, EntriesType DEF Without
  <1> QED
    BY <1>2, <1>6, NamedOnce DEF U

\* ... or by the send that completes.
LEMMA SendsOnce ==
    ASSUME TypeOK, LoopInv, BufInv, Up, NEW s \in sends
    PROVE  /\ s.bid \in Bids /\ s.bid \notin free
           /\ Without(sq, s.bid) /\ Without(Unreaped, s.bid)
           /\ \A t \in sends : t.bid = s.bid => t = s
  <1> DEFINE b == s.bid
             S == {t \in sends : t.bid = b}
  <1>1. b \in Bids /\ ~Unsent(b)
    BY DEF TypeOK, Unsent
  <1>2. IsFiniteSet(S) /\ s \in S /\ Cardinality(S) <= 1
    BY <1>1, NamedOnce, FS_Subset DEF BufInv, InSends
  <1>3. \A t \in S : t = s
    <2> SUFFICES ASSUME NEW t \in S, t # s PROVE FALSE
      OBVIOUS
    <2>1. {s, t} \subseteq S
      BY <1>2
    <2>2. Cardinality({s, t}) <= Cardinality(S)
      BY <1>2, <2>1, FS_Subset
    <2>3. Cardinality({s} \cup {t}) = Cardinality({s}) + 1 /\ Cardinality({s}) = 1
      BY FS_Singleton, FS_AddElement
    <2>4. {s, t} = {s} \cup {t} /\ Cardinality(S) \in Nat
      BY <1>2, FS_CardinalityType
    <2> QED
      BY <1>2, <2>2, <2>3, <2>4
  <1> QED
    BY <1>1, <1>3, NamedOnce

-----------------------------------------------------------------------------
(* Order in the completion queue.                                          *)

\* A completion may come behind those that are not final for its number.
LEMMA OrderPost ==
    ASSUME TypeOK, OrderInv, NEW e \in Cqes, cq' = Append(cq, e),
           \A x \in Entries(cq) : Final(x) => x.fd # e.fd
    PROVE  OrderInv'
  <1>1. /\ cq \in Seq(Cqes) /\ Len(cq) \in Nat /\ Len(cq') = Len(cq) + 1
        /\ cq'[Len(cq) + 1] = e
        /\ \A i \in 1..Len(cq) : cq'[i] = cq[i] /\ cq[i] \in Entries(cq)
    BY DEF TypeOK, Entries
  <1>2. ASSUME NEW i \in 1..(Len(cq) + 1), NEW j \in 1..(Len(cq) + 1), i < j, Final(cq'[i])
        PROVE  cq'[j].fd # cq'[i].fd
    <2>1. i \in 1..Len(cq)
      BY <1>1, <1>2
    <2>2. CASE j = Len(cq) + 1
      BY <1>1, <1>2, <2>1, <2>2
    <2>3. CASE j \in 1..Len(cq)
      BY <1>1, <1>2, <2>1, <2>3 DEF OrderInv
    <2> QED
      BY <1>1, <1>2, <2>2, <2>3
  <1> QED
    BY <1>1, <1>2 DEF OrderInv

\* The first one gone, the others keep their order; a final one was the last
\* of its number.
LEMMA OrderTail ==
    ASSUME TypeOK, OrderInv, cq # <<>>
    PROVE  /\ cq' = Tail(cq) => OrderInv'
           /\ Final(Head(cq)) => \A x \in Entries(Tail(cq)) : x.fd # Head(cq).fd
  <1>1. /\ cq \in Seq(Cqes) /\ Len(cq) \in Nat /\ Len(cq) >= 1
        /\ Tail(cq) \in Seq(Cqes) /\ Len(Tail(cq)) = Len(cq) - 1
        /\ \A i \in 1..(Len(cq) - 1) : Tail(cq)[i] = cq[i + 1] /\ i + 1 \in 1..Len(cq)
        /\ Head(cq) = cq[1] /\ 1 \in 1..Len(cq)
        /\ DOMAIN Tail(cq) = 1..(Len(cq) - 1)
    BY DEF TypeOK
  <1>2. ASSUME cq' = Tail(cq)
        PROVE  OrderInv'
    <2>1. \A i, j \in 1..(Len(cq) - 1) :
             i < j /\ Final(Tail(cq)[i]) => Tail(cq)[j].fd # Tail(cq)[i].fd
      <3> TAKE i, j \in 1..(Len(cq) - 1)
      <3>1. i + 1 \in 1..Len(cq) /\ j + 1 \in 1..Len(cq) /\ (i < j => i + 1 < j + 1)
        BY <1>1
      <3> QED
        BY <1>1, <3>1 DEF OrderInv
    <2> QED
      BY <1>1, <1>2, <2>1 DEF OrderInv
  <1>3. ASSUME Final(Head(cq)), NEW x \in Entries(Tail(cq))
        PROVE  x.fd # Head(cq).fd
    <2>1. PICK i \in 1..(Len(cq) - 1) : x = Tail(cq)[i]
      BY <1>1 DEF Entries
    <2>2. i + 1 \in 1..Len(cq) /\ 1 < i + 1 /\ x = cq[i + 1]
      BY <1>1, <2>1
    <2> QED
      BY <1>1, <1>3, <2>2 DEF OrderInv
  <1> QED
    BY <1>2, <1>3

-----------------------------------------------------------------------------
(* What waits and what is echoed.                                          *)

\* Nothing new waits, nothing is echoed.
LEMMA PieceKeep ==
    ASSUME PieceInv, UNCHANGED <<echo, taken>>,
           \A b \in Bids, f \in Fds : Pends(b, f)' =>
               Pends(b, f) /\ owner'[f] = owner[f] /\ store'[b] = store[b]
    PROVE  PieceInv'
  <1>1. \A c, j : At(c, j)' = At(c, j)
    BY DEF At
  <1>2. \A b, f : store'[b] = store[b] /\ owner'[f] = owner[f] =>
           /\ Lo(b)' = Lo(b) /\ Hi(b)' = Hi(b)
           /\ Piece(b, owner[f])' <=> Piece(b, owner[f])
    BY DEF Lo, Hi, Piece
  <1>3. \A b \in Bids, f \in Fds : Pends(b, f)' =>
           /\ Piece(b, owner[f])'
           /\ \A j \in 1..Len(echo'[owner'[f]]) :
                 ~(Lo(b)' < At(owner[f], j)' /\ At(owner[f], j)' <= Hi(b)')
    <2> TAKE b \in Bids, f \in Fds
    <2> HAVE Pends(b, f)'
    <2>1. Pends(b, f) /\ owner'[f] = owner[f] /\ store'[b] = store[b]
      OBVIOUS
    <2>2. /\ Piece(b, owner[f])
          /\ \A j \in 1..Len(echo[owner[f]]) : ~(Lo(b) < At(owner[f], j) /\ At(owner[f], j) <= Hi(b))
      BY <2>1 DEF PieceInv
    <2>3. /\ Lo(b)' = Lo(b) /\ Hi(b)' = Hi(b) /\ Piece(b, owner[f])'
          /\ \A j : At(owner[f], j)' = At(owner[f], j)
      BY <2>1, <2>2 DEF Lo, Hi, Piece, At
    <2> QED
      BY <2>1, <2>2, <2>3
  <1>4. \A b, d \in Bids, f \in Fds : Pends(b, f)' /\ Pends(d, f)' /\ b # d =>
           Hi(b)' <= Lo(d)' \/ Hi(d)' <= Lo(b)'
    <2> TAKE b, d \in Bids, f \in Fds
    <2> HAVE Pends(b, f)' /\ Pends(d, f)' /\ b # d
    <2>1. /\ Pends(b, f) /\ Pends(d, f)
          /\ store'[b] = store[b] /\ store'[d] = store[d]
      OBVIOUS
    <2>2. /\ Hi(b) <= Lo(d) \/ Hi(d) <= Lo(b)
          /\ Lo(b)' = Lo(b) /\ Hi(b)' = Hi(b) /\ Lo(d)' = Lo(d) /\ Hi(d)' = Hi(d)
      BY <2>1 DEF PieceInv, Lo, Hi
    <2> QED
      BY <2>2
  <1>5. \A c \in Conns : \A i, j \in 1..Len(echo'[c]) :
           At(c, i)' \in 1..taken'[c] /\ (At(c, i)' = At(c, j)' => i = j)
    BY <1>1 DEF PieceInv
  <1> QED
    BY <1>3, <1>4, <1>5 DEF PieceInv

\* The bytes of an echo that has grown.
LEMMA EchoJoin ==
    ASSUME NEW e \in Seq(Byte), NEW w \in Seq(Byte), NEW m \in Nat, m <= Len(w)
    PROVE  /\ e \o SubSeq(w, 1, m) \in Seq(Byte)
           /\ Len(e \o SubSeq(w, 1, m)) = Len(e) + m
           /\ \A j \in 1..Len(e) : (e \o SubSeq(w, 1, m))[j] = e[j]
           /\ \A j \in (Len(e) + 1)..(Len(e) + m) : (e \o SubSeq(w, 1, m))[j] = w[j - Len(e)]
  <1>1. PICK t : t = SubSeq(w, 1, m)
    OBVIOUS
  <1>2. t \in Seq(Byte) /\ Len(t) = m /\ \A i \in 1..m : t[i] = w[i]
    BY <1>1
  <1>3. /\ e \o t \in Seq(Byte) /\ Len(e \o t) = Len(e) + m
        /\ \A j \in 1..(Len(e) + m) : (e \o t)[j] = IF j <= Len(e) THEN e[j] ELSE t[j - Len(e)]
    BY <1>2, ConcatProperties
  <1>4. \A j \in (Len(e) + 1)..(Len(e) + m) :
           j \in 1..(Len(e) + m) /\ ~(j <= Len(e)) /\ j - Len(e) \in 1..m
    OBVIOUS
  <1>5. \A j \in 1..Len(e) : j \in 1..(Len(e) + m) /\ j <= Len(e)
    OBVIOUS
  <1> QED
    BY <1>1, <1>2, <1>3, <1>4, <1>5

\* The data that waits for a number is its connection's.
LEMMA PieceOwner ==
    ASSUME TypeOK, PieceInv, NEW b \in Bids, NEW f \in Fds, Pends(b, f)
    PROVE  /\ owner[f] \in Conns /\ Piece(b, owner[f])
           /\ store[b] \in Seq(Byte) /\ store[b] # <<>> /\ Len(store[b]) \in Nat \ {0}
           /\ Lo(b) \in Nat /\ Hi(b) \in Nat /\ Lo(b) < Hi(b) /\ Hi(b) <= taken[owner[f]]
           /\ \A i \in 1..Len(store[b]) : store[b][i] = <<owner[f], Lo(b) + i>>
  <1>1. Piece(b, owner[f])
    BY DEF PieceInv
  <1>2. store[b] \in Seq(Byte) /\ store[b] # <<>> /\ store[b] = Bytes(owner[f], Lo(b), Len(store[b]))
    BY <1>1 DEF Piece, TypeOK
  <1>3. \A i \in 1..Len(store[b]) : store[b][i] = <<owner[f], Lo(b) + i>>
    BY <1>2 DEF Bytes
  <1>4. store[b][1] \in Byte /\ 1 \in 1..Len(store[b]) /\ Len(store[b]) \in Nat \ {0}
    BY <1>2
  <1>5. owner[f] \in Conns
    BY <1>3, <1>4 DEF Byte
  <1> QED
    BY <1>1, <1>2, <1>3, <1>4, <1>5 DEF Piece, Hi

\* The beginning of one buffer is echoed and the buffer waits no more.
LEMMA PieceEcho ==
    ASSUME TypeOK, OwnerInv, PieceInv, NEW o \in Bids, NEW g \in Fds, NEW c \in Conns,
           NEW m \in Nat, owner[g] = c, Pends(o, g), m <= Len(store[o]),
           echo' = [echo EXCEPT ![c] = @ \o SubSeq(store[o], 1, m)],
           UNCHANGED <<owner, store, taken>>,
           \A b \in Bids, f \in Fds : Pends(b, f)' => Pends(b, f) /\ b # o
    PROVE  PieceInv'
  <1>1. PICK n, w, lo, hi, t :
           n = Len(echo[c]) /\ w = store[o] /\ lo = Lo(o) /\ hi = Hi(o) /\ t = taken[c]
    OBVIOUS
  <1>2. /\ w \in Seq(Byte) /\ lo \in Nat /\ hi <= t /\ hi = lo + Len(w) /\ hi \in Nat
        /\ n \in Nat /\ echo[c] \in Seq(Byte) /\ t \in Nat /\ Len(w) \in Nat /\ m <= Len(w)
        /\ \A i \in 1..Len(w) : w[i] = <<c, lo + i>>
    BY <1>1, PieceOwner, ConnParts DEF TypeOK, Hi
  <1>3. /\ \A j \in 1..n : ~(lo < At(c, j) /\ At(c, j) <= hi)
        /\ \A i, j \in 1..n : At(c, i) \in 1..t /\ (At(c, i) = At(c, j) => i = j)
    BY <1>1 DEF PieceInv
  <1>4. /\ echo'[c] = echo[c] \o SubSeq(w, 1, m)
        /\ \A d \in Conns : d # c => echo'[d] = echo[d]
    BY <1>1 DEF TypeOK, SocketsTypeOK
  <1>5. /\ Len(echo'[c]) = n + m
        /\ \A j \in 1..n : echo'[c][j] = echo[c][j]
        /\ \A j \in (n + 1)..(n + m) : echo'[c][j] = w[j - n]
    <2>1. PICK e : e = echo[c]
      OBVIOUS
    <2>2. e \in Seq(Byte) /\ Len(e) = n
      BY <1>1, <1>2, <2>1
    <2>3. /\ Len(e \o SubSeq(w, 1, m)) = n + m
          /\ \A j \in 1..n : (e \o SubSeq(w, 1, m))[j] = e[j]
          /\ \A j \in (n + 1)..(n + m) : (e \o SubSeq(w, 1, m))[j] = w[j - n]
      <3>1. /\ Len(e \o SubSeq(w, 1, m)) = Len(e) + m
            /\ \A j \in 1..Len(e) : (e \o SubSeq(w, 1, m))[j] = e[j]
            /\ \A j \in (Len(e) + 1)..(Len(e) + m) : (e \o SubSeq(w, 1, m))[j] = w[j - Len(e)]
        <4>1. e \in Seq(Byte) /\ w \in Seq(Byte) /\ m \in Nat /\ m <= Len(w)
          BY <1>2, <2>2
        <4> QED
          BY <4>1, EchoJoin, Zenon
      <3> QED
        BY <2>2, <3>1, Zenon
    <2>4. PICK x : x = echo'[c]
      OBVIOUS
    <2>5. x = e \o SubSeq(w, 1, m)
      BY <1>4, <2>1, <2>4, Zenon
    <2>6. /\ Len(x) = n + m
          /\ \A j \in 1..n : x[j] = e[j]
          /\ \A j \in (n + 1)..(n + m) : x[j] = w[j - n]
      BY <2>3, <2>5, Zenon
    <2> QED
      BY <2>1, <2>4, <2>6, Zenon
  <1>6. \A j \in (n + 1)..(n + m) : j - n \in 1..Len(w) /\ j - n \in Nat
    BY <1>2
  <1>7. \A j \in (n + 1)..(n + m) : echo'[c][j] = <<c, lo + (j - n)>>
    BY <1>2, <1>5, <1>6
  <1>8. /\ \A j \in 1..n : At(c, j)' = At(c, j)
        /\ \A j \in (n + 1)..(n + m) : /\ At(c, j)' = lo + (j - n)
                                       /\ At(c, j)' \in 1..t
                                       /\ lo < At(c, j)' /\ At(c, j)' <= hi
    <2>1. \A j \in 1..n : At(c, j)' = At(c, j)
      BY <1>5 DEF At
    <2>2. ASSUME NEW j \in (n + 1)..(n + m)
          PROVE  At(c, j)' = lo + (j - n)
      <3>1. echo'[c][j] = <<c, lo + (j - n)>>
        BY <1>7
      <3>2. \A x : <<c, x>>[2] = x
        OBVIOUS
      <3>3. echo'[c][j][2] = lo + (j - n)
        BY <3>1, <3>2, Zenon
      <3> QED
        BY <3>3 DEF At
    <2> QED
      BY <1>2, <1>6, <2>1, <2>2
  <1>9. \A d \in Conns : d # c => Len(echo'[d]) = Len(echo[d]) /\ \A j : At(d, j)' = At(d, j)
    BY <1>4 DEF At
  <1>10. \A j \in 1..(n + m) : j \in 1..n \/ j \in (n + 1)..(n + m)
    BY <1>2
  <1>11. \A b \in Bids : Lo(b)' = Lo(b) /\ Hi(b)' = Hi(b)
    BY DEF Lo, Hi
  <1>12. \A f \in Fds : owner'[f] = owner[f]
    OBVIOUS
  <1>13. ASSUME NEW b \in Bids, NEW f \in Fds, Pends(b, f)'
         PROVE  /\ Piece(b, owner[f])'
                /\ \A j \in 1..Len(echo'[owner[f]]) :
                      ~(Lo(b) < At(owner[f], j)' /\ At(owner[f], j)' <= Hi(b))
    <2>1. PICK d : d = owner[f]
      OBVIOUS
    <2>2. /\ Pends(b, f) /\ b # o /\ Piece(b, d) /\ d \in Conns /\ Lo(b) \in Nat /\ Hi(b) \in Nat
          /\ \A j \in 1..Len(echo[d]) : ~(Lo(b) < At(d, j) /\ At(d, j) <= Hi(b))
      BY <1>13, <2>1, PieceOwner DEF PieceInv
    <2>3. Piece(b, d)'
      BY <2>2 DEF Piece, Lo, Hi
    <2>4. \A j \in 1..Len(echo'[d]) : ~(Lo(b) < At(d, j)' /\ At(d, j)' <= Hi(b))
      <3>1. CASE d = c
        <4>1. c \in Conns /\ c # NoConn
          BY SocketsAssumption
        <4>2. f = g
          BY <2>1, <3>1, <4>1 DEF OwnerInv, OpenFds
        <4>3. Hi(b) <= lo \/ hi <= Lo(b)
          BY <1>1, <2>2, <4>2 DEF PieceInv
        <4>4. \A j \in 1..n : ~(Lo(b) < At(c, j)' /\ At(c, j)' <= Hi(b))
          BY <1>1, <1>8, <2>2, <3>1
        <4>5. \A j \in (n + 1)..(n + m) : ~(Lo(b) < At(c, j)' /\ At(c, j)' <= Hi(b))
          BY <1>2, <1>8, <2>2, <4>3
        <4> QED
          BY <1>5, <1>10, <3>1, <4>4, <4>5
      <3>2. CASE d # c
        BY <1>9, <2>2, <3>2
      <3> QED
        BY <3>1, <3>2
    <2>5. owner'[f] = d
      BY <2>1
    <2> QED
      BY <2>1, <2>3, <2>4, <2>5
  <1>14. ASSUME NEW d \in Conns, NEW i \in 1..Len(echo'[d]), NEW j \in 1..Len(echo'[d])
         PROVE  At(d, i)' \in 1..taken[d] /\ (At(d, i)' = At(d, j)' => i = j)
    <2>1. CASE d # c
      BY <1>9, <1>14, <2>1 DEF PieceInv
    <2>2. CASE d = c
      <3>1. i \in 1..(n + m) /\ j \in 1..(n + m)
        BY <1>5, <1>14, <2>2
      <3>2. At(c, i)' \in 1..t
        BY <1>3, <1>8, <1>10, <3>1
      <3>3. CASE i \in 1..n /\ j \in 1..n
        BY <1>3, <1>8, <3>2, <3>3, <1>1, <2>2
      <3>4. CASE i \in (n + 1)..(n + m) /\ j \in (n + 1)..(n + m)
        <4>1. At(c, i)' = lo + (i - n) /\ At(c, j)' = lo + (j - n)
          BY <1>8, <3>4
        <4>2. i \in Int /\ j \in Int /\ n \in Int /\ lo \in Int
          BY <1>2, <3>4
        <4>3. At(c, i)' = At(c, j)' => i = j
          BY <4>1, <4>2
        <4> QED
          BY <1>1, <2>2, <3>2, <4>3
      <3>5. CASE i \in 1..n /\ j \in (n + 1)..(n + m)
        BY <1>3, <1>8, <3>2, <3>5, <1>1, <2>2
      <3>6. CASE j \in 1..n /\ i \in (n + 1)..(n + m)
        BY <1>3, <1>8, <3>2, <3>6, <1>1, <2>2
      <3> QED
        BY <1>10, <3>1, <3>3, <3>4, <3>5, <3>6
    <2> QED
      BY <2>1, <2>2
  <1>15. ASSUME NEW b \in Bids, NEW d \in Bids, NEW f \in Fds,
                Pends(b, f)', Pends(d, f)', b # d
         PROVE  Hi(b)' <= Lo(d)' \/ Hi(d)' <= Lo(b)'
    <2>1. Hi(b) <= Lo(d) \/ Hi(d) <= Lo(b)
      BY <1>15 DEF PieceInv
    <2> QED
      BY <1>11, <2>1
  <1>16. \A b \in Bids, f \in Fds : Pends(b, f)' =>
            /\ Piece(b, owner[f])'
            /\ \A j \in 1..Len(echo'[owner'[f]]) :
                  ~(Lo(b)' < At(owner[f], j)' /\ At(owner[f], j)' <= Hi(b)')
    BY <1>11, <1>12, <1>13
  <1>17. \A d \in Conns : \A i, j \in 1..Len(echo'[d]) :
            At(d, i)' \in 1..taken'[d] /\ (At(d, i)' = At(d, j)' => i = j)
    BY <1>14
  <1> QED
    BY <1>15, <1>16, <1>17 DEF PieceInv

\* A read puts the next bytes into a buffer that waits.
LEMMA PieceRead ==
    ASSUME TypeOK, OwnerInv, PieceInv, NEW c \in Conns, NEW o \in Bids, NEW g \in Fds,
           owner[g] = c, Avail(c) > 0, \A f \in Fds : ~Pends(o, f),
           store' = [store EXCEPT ![o] = ReadData(c)],
           taken' = [taken EXCEPT ![c] = @ + ReadLen(c)],
           UNCHANGED <<owner, echo>>,
           \A b \in Bids, f \in Fds : Pends(b, f)' => Pends(b, f) \/ (b = o /\ f = g)
    PROVE  PieceInv'
  <1>0. PICK k, t : k = ReadLen(c) /\ t = taken[c]
    OBVIOUS
  <1>1. k \in Nat \ {0} /\ t \in Nat /\ t + k \in Nat
    BY <1>0, ReadLenType, ConnParts DEF TypeOK
  <1>2. /\ store'[o] = Bytes(c, t, k)
        /\ \A b \in Bids : b # o => store'[b] = store[b]
        /\ taken'[c] = t + k /\ \A d \in Conns : d # c => taken'[d] = taken[d]
    BY <1>0 DEF TypeOK, SocketsTypeOK, ReadData
  <1>3. Bytes(c, t, k) \in Seq(Byte) /\ Len(Bytes(c, t, k)) = k /\ Bytes(c, t, k)[1] = <<c, t + 1>>
    <2>1. Bytes(c, t, k) \in Seq(Byte) /\ Len(Bytes(c, t, k)) = k
      BY <1>1, BytesType
    <2>2. 1 \in 1..k
      BY <1>1
    <2>3. Bytes(c, t, k)[1] = <<c, t + 1>>
      BY <2>2 DEF Bytes
    <2> QED
      BY <2>1, <2>3
  <1>4. Lo(o)' = t /\ Hi(o)' = t + k /\ store'[o] # <<>> /\ Piece(o, c)'
    <2>1. Lo(o)' = t /\ Hi(o)' = t + k
      BY <1>1, <1>2, <1>3 DEF Lo, Hi
    <2>2. store'[o] # <<>>
      BY <1>1, <1>2, <1>3
    <2>3. c' = c
      OBVIOUS
    <2> QED
      BY <1>1, <1>2, <1>3, <2>1, <2>2, <2>3 DEF Piece
  <1>5. \A b \in Bids : b # o => Lo(b)' = Lo(b) /\ Hi(b)' = Hi(b)
    BY <1>2 DEF Lo, Hi
  <1>6. \A d, j : At(d, j)' = At(d, j)
    BY DEF At
  <1>7. ASSUME NEW b \in Bids, NEW f \in Fds, Pends(b, f)
        PROVE  /\ b # o /\ owner[f] \in Conns /\ Piece(b, owner[f])'
               /\ Lo(b) \in Nat /\ Hi(b) \in Nat /\ Hi(b) <= taken[owner[f]]
    <2>1. b # o /\ Piece(b, owner[f]) /\ owner[f] \in Conns
          /\ Lo(b) \in Nat /\ Hi(b) \in Nat /\ Hi(b) <= taken[owner[f]]
      BY <1>7, PieceOwner
    <2>2. taken[owner[f]] \in Nat /\ taken[owner[f]] <= taken'[owner[f]] /\ taken'[owner[f]] \in Nat
      <3>1. \A d \in Conns : taken[d] \in Nat
        BY DEF TypeOK, SocketsTypeOK
      <3>2. \A d \in Conns : taken[d] <= taken'[d] /\ taken'[d] \in Nat
        BY <1>0, <1>1, <1>2, <3>1
      <3> QED
        BY <2>1, <3>1, <3>2
    <2>3. owner'[f] = owner[f] /\ store'[b] = store[b] /\ Lo(b)' = Lo(b) /\ Hi(b)' = Hi(b)
      BY <1>2, <1>5, <2>1
    <2>4. Piece(b, owner[f])'
      BY <2>1, <2>2, <2>3 DEF Piece
    <2> QED
      BY <2>1, <2>4
  <1>8. \A j \in 1..Len(echo[c]) : At(c, j) <= t /\ At(c, j) \in Nat
    BY <1>0, <1>1 DEF PieceInv
  <1>9. \A b \in Bids, f \in Fds : Pends(b, f)' =>
           /\ Piece(b, owner[f])'
           /\ \A j \in 1..Len(echo[owner[f]]) :
                 ~(Lo(b)' < At(owner[f], j) /\ At(owner[f], j) <= Hi(b)')
    <2> TAKE b \in Bids, f \in Fds
    <2> HAVE Pends(b, f)'
    <2>1. CASE Pends(b, f)
      BY <1>5, <1>7, <2>1 DEF PieceInv
    <2>2. CASE b = o /\ f = g
      <3>1. owner'[f] = c
        BY <2>2
      <3> QED
        BY <1>1, <1>4, <1>8, <2>2, <3>1
    <2> QED
      BY <2>1, <2>2
  <1>10. \A b, d \in Bids, f \in Fds : Pends(b, f)' /\ Pends(d, f)' /\ b # d =>
           Hi(b)' <= Lo(d)' \/ Hi(d)' <= Lo(b)'
    <2> TAKE b, d \in Bids, f \in Fds
    <2> HAVE Pends(b, f)' /\ Pends(d, f)' /\ b # d
    <2>1. CASE Pends(b, f) /\ Pends(d, f)
      BY <1>5, <1>7, <2>1 DEF PieceInv
    <2>2. CASE b = o /\ f = g /\ Pends(d, f)
      BY <1>0, <1>4, <1>5, <1>7, <2>2
    <2>3. CASE d = o /\ f = g /\ Pends(b, f)
      BY <1>0, <1>4, <1>5, <1>7, <2>3
    <2> QED
      BY <2>1, <2>2, <2>3
  <1>11. \A d \in Conns : \A i, j \in 1..Len(echo[d]) :
           At(d, i) \in 1..taken'[d] /\ (At(d, i) = At(d, j) => i = j)
    <2> TAKE d \in Conns
    <2>1. taken[d] \in Nat /\ taken'[d] \in Nat /\ taken[d] <= taken'[d]
      <3>1. taken[d] \in Nat
        BY ConnParts DEF TypeOK
      <3>2. CASE d = c
        BY <1>0, <1>1, <1>2, <3>1, <3>2
      <3>3. CASE d # c
        BY <1>2, <3>1, <3>3
      <3> QED
        BY <3>2, <3>3
    <2>2. 1..taken[d] \subseteq 1..taken'[d]
      BY <2>1
    <2>3. \A i, j \in 1..Len(echo[d]) :
             At(d, i) \in 1..taken[d] /\ (At(d, i) = At(d, j) => i = j)
      BY DEF PieceInv
    <2> QED
      BY <2>2, <2>3, Zenon
  <1> QED
    BY <1>6, <1>9, <1>10, <1>11 DEF PieceInv

-----------------------------------------------------------------------------
(* How the counts move.                                                    *)

\* What an SQE issued, or prepared, and a completion posted, or reaped, adds to
\* the ways in which a connection is armed.
LEMMA QueuedPop ==
    ASSUME TypeOK, sq # <<>>, sq' = Tail(sq), NEW f
    PROVE  Queued(f) = Queued(f)' + (IF Head(sq).op = "recv" /\ Head(sq).fd = f THEN 1 ELSE 0)
  BY MatchesTail, AppendTypes DEF Queued, TypeOK

\* A new SQE counts for its own number, ...
LEMMA QueuedPush ==
    ASSUME TypeOK, NEW s \in Sqes, sq' = Append(sq, s), NEW f
    PROVE  Queued(f)' = Queued(f) + (IF s.op = "recv" /\ s.fd = f THEN 1 ELSE 0)
  BY MatchesAppend DEF Queued, TypeOK

\* ... so does a new completion, ...
LEMMA CqCountPush ==
    ASSUME TypeOK, NEW e \in Cqes, cq' = Append(cq, e), NEW f
    PROVE  /\ Accepted(f)' = Accepted(f) + (IF e.op = "accept" /\ e.fd = f THEN 1 ELSE 0)
           /\ Ended(f)' = Ended(f) + (IF e.op = "recv" /\ e.fd = f /\ ~e.more THEN 1 ELSE 0)
  BY MatchesAppend DEF Accepted, Ended, TypeOK

\* ... and one that is reaped counts no longer.
LEMMA CqCountPop ==
    ASSUME TypeOK, cq # <<>>, cq' = Tail(cq), NEW f, NEW e, e = Head(cq)
    PROVE  /\ Accepted(f) = Accepted(f)' + (IF e.op = "accept" /\ e.fd = f THEN 1 ELSE 0)
           /\ Ended(f) = Ended(f)' + (IF e.op = "recv" /\ e.fd = f /\ ~e.more THEN 1 ELSE 0)
  BY MatchesTail, AppendTypes DEF Accepted, Ended, TypeOK

\* A completion posted comes behind those not begun, too.
LEMMA UnreapedPost ==
    ASSUME TypeOK, LoopInv, NEW e \in Cqes, cq' = Append(cq, e), UNCHANGED <<pc, back>>
    PROVE  /\ Unreaped' = Append(Unreaped, e)
           /\ Entries(cq') = Entries(cq) \cup {e}
           /\ \A P : Holds(Unreaped', P) <=> Holds(Unreaped, P) \/ e \in P
  <1>1. Unreaped' = Append(Unreaped, e)
    <2>1. CASE InHand
      <3>1. cq \in Seq(Cqes) /\ cq # <<>>
        BY <2>1 DEF LoopInv, TypeOK
      <3>2. Tail(cq') = Append(Tail(cq), e)
        BY <3>1, BehindHead
      <3> QED
        BY <2>1, <3>2 DEF InHand, Unreaped
    <2>2. CASE ~InHand
      BY <2>2 DEF InHand, Unreaped
    <2> QED
      BY <2>1, <2>2
  <1>2. Entries(cq') = Entries(cq) \cup {e}
    BY EntriesAppend DEF TypeOK
  <1>3. \A P : Holds(Unreaped', P) <=> Holds(Unreaped, P) \/ e \in P
    BY <1>1, UnreapedType, HoldsAppend
  <1> QED
    BY <1>1, <1>2, <1>3

\* An SQE is issued, ...
LEMMA SqTaken ==
    ASSUME TypeOK, sq # <<>>, sq' = Tail(sq)
    PROVE  /\ Head(sq) \in Sqes /\ Head(sq) \in Entries(sq)
           /\ Entries(sq') \subseteq Entries(sq)
           /\ \A P : Holds(sq, P) <=> Holds(sq', P) \/ Head(sq) \in P
  <1>1. Entries(sq) = Entries(Tail(sq)) \cup {Head(sq)} /\ Head(sq) \in Sqes
    BY EntriesTail DEF TypeOK
  <1>2. \A P : Holds(sq, P) <=> Holds(sq', P) \/ Head(sq) \in P
    BY HoldsTail DEF TypeOK
  <1> QED
    BY <1>1, <1>2

\* ... or prepared.
LEMMA SqGiven ==
    ASSUME TypeOK, NEW s \in Sqes, sq' = Append(sq, s)
    PROVE  /\ Entries(sq') = Entries(sq) \cup {s}
           /\ \A P : Holds(sq', P) <=> Holds(sq, P) \/ s \in P
  <1>1. Entries(sq') = Entries(sq) \cup {s}
    BY EntriesAppend DEF TypeOK
  <1>2. \A P : Holds(sq', P) <=> Holds(sq, P) \/ s \in P
    BY HoldsAppend DEF TypeOK
  <1> QED
    BY <1>1, <1>2

\* The numbers of other connections do not matter to the counts of one.
Arms(f) == recvs[owner[f]] + Queued(f) + Accepted(f) + Ended(f)

\* No connection is armed more than before.
LEMMA ArmKeep ==
    ASSUME ArmOnce, \A f \in OpenFds' : f \in OpenFds /\ Arms(f)' <= Arms(f),
           \A f \in OpenFds : Arms(f) \in Int, \A f \in OpenFds' : Arms(f)' \in Int
    PROVE  ArmOnce'
  <1>1. \A f \in OpenFds : Arms(f) <= 1
    BY DEF ArmOnce, Arms
  <1>2. \A f \in OpenFds' : Arms(f)' <= 1
    BY <1>1
  <1> QED
    BY <1>2 DEF ArmOnce, Arms

\* The sum does not grow when no count does, or when a recv is armed for a
\* completion reaped.
LEMMA ArmsFewer ==
    ASSUME NEW g, recvs'[owner'[g]] = recvs[owner[g]],
           recvs[owner[g]] \in Nat, Queued(g) \in Nat, Accepted(g) \in Nat, Ended(g) \in Nat,
           Accepted(g)' \in Nat, Ended(g)' \in Nat,
           \/ /\ Queued(g)' = Queued(g)
              /\ Accepted(g)' <= Accepted(g) /\ Ended(g)' <= Ended(g)
           \/ /\ Queued(g)' = Queued(g) + 1
              /\ Accepted(g)' + Ended(g)' + 1 = Accepted(g) + Ended(g)
    PROVE  Arms(g) \in Int /\ Arms(g)' \in Int /\ Arms(g)' <= Arms(g)
  BY DEF Arms

\* Behind data that waits there is no end of the stream, and before it no
\* accept that is not reaped; and the send will succeed.
LEMMA SendBehind ==
    ASSUME TypeOK, OwnerInv, LoopInv, Calm, NEW b \in Bids, NEW f \in Fds, Pends(b, f)
    PROVE  /\ owner[f] \in Conns /\ ~rst[owner[f]]
           /\ \A x \in Entries(cq) : Final(x) => x.fd # f
  <1>1. owner[f] \in Conns
    BY PieceOwner DEF Calm
  <1>2. cl[owner[f]] = "up" /\ taken[owner[f]] # 0
    BY <1>1, LeftEmpty DEF Calm
  <1>3. ~rst[owner[f]]
    BY <1>1, <1>2 DEF Calm, LeaveInv, GoneInv
  <1>4. \A x \in Entries(cq) : Final(x) => x.fd # f
    BY <1>2 DEF Calm, CqeInv, Final
  <1> QED
    BY <1>1, <1>3, <1>4

\* A send that goes out: its bytes are echoed, its completion is posted.
LEMMA SendCalm ==
    ASSUME TypeOK, OwnerInv, LoopInv, BufInv, Up, Calm,
           NEW b \in Bids, NEW f \in Fds, Pends(b, f), Transmit(owner[f], f, b),
           UNCHANGED <<pc, back, owner, phase, cl, rst, sent, taken, got, store, recvs, num>>,
           Entries(sq') \subseteq Entries(sq), sends' \subseteq sends,
           \A g : Queued(g)' <= Queued(g) /\ Queued(g)' \in Nat,
           \A d \in Bids, g \in Fds : Holds(sq', SendSqe(d, g)) => Holds(sq, SendSqe(d, g)),
           \A g \in Fds : ~Holds(sq', SendSqe(b, g)),
           \A s \in sends' : s.bid # b,
           \A g \in Fds : ~Holds(Unreaped, DataCqe(b, g))
    PROVE  Calm'
  <1>1. PICK c : c = owner[f]
    OBVIOUS
  <1>2. c \in Conns /\ ~rst[c] /\ \A x \in Entries(cq) : Final(x) => x.fd # f
    BY <1>1, SendBehind
  <1>3. PICK m : m = WriteLen(c, store[b])
    OBVIOUS
  <1>4. PICK e : e = Cqe("send", f, b, "ok", m, FALSE)
    OBVIOUS
  <1>5. /\ echo' = [echo EXCEPT ![c] = @ \o SubSeq(store[b], 1, m)] /\ Space(c) > 0
        /\ cq' = Append(cq, e)
    BY <1>1, <1>2, <1>3, <1>4 DEF Transmit, Post, Write
  <1>6. store[b] \in Seq(Byte) /\ m \in Nat /\ m <= Len(store[b])
    BY <1>2, <1>3, <1>5, WriteLenSize DEF TypeOK
  <1>7. e \in Cqes /\ e.op = "send" /\ e.fd = f /\ e.bid = b /\ e.res = "ok"
    BY <1>4, <1>6, CqeTypes DEF Cqe
  <1>8. /\ Entries(cq') = Entries(cq) \cup {e}
        /\ \A P : Holds(Unreaped', P) <=> Holds(Unreaped, P) \/ e \in P
    BY <1>5, <1>7, UnreapedPost
  <1>9. \A d \in Bids, g \in Fds : Pends(d, g)' => Pends(d, g) /\ d # b
    BY <1>7, <1>8 DEF Pends, DataCqe
  <1>10. PieceInv'
    BY <1>1, <1>2, <1>5, <1>6, <1>9, PieceEcho DEF Calm
  <1>11. LeaveInv'
    <2>1. \A d \in Conns : Len(echo[d]) \in Nat /\ Len(echo'[d]) \in Nat /\ Len(echo[d]) <= Len(echo'[d])
      <3>1. echo[c] \in Seq(Byte) /\ echo \in [Conns -> Seq(Byte)]
        BY <1>2 DEF TypeOK, SocketsTypeOK
      <3>2. /\ echo'[c] = echo[c] \o SubSeq(store[b], 1, m)
            /\ \A d \in Conns : d # c => echo'[d] = echo[d]
        BY <1>2, <1>5, <3>1
      <3>3. PICK x, w : x = echo[c] /\ w = store[b]
        OBVIOUS
      <3>4. x \in Seq(Byte) /\ w \in Seq(Byte) /\ m <= Len(w) /\ Len(x) \in Nat
        BY <1>6, <3>1, <3>3
      <3>5. Len(x \o SubSeq(w, 1, m)) = Len(x) + m
        BY <1>6, <3>4, EchoJoin, Zenon
      <3>6. Len(echo'[c]) = Len(echo[c]) + m
        BY <3>2, <3>3, <3>5, Zenon
      <3>7. Len(echo[c]) \in Nat /\ Len(echo'[c]) \in Nat /\ Len(echo[c]) <= Len(echo'[c])
        BY <1>6, <3>3, <3>4, <3>6
      <3>8. \A d \in Conns : Len(echo[d]) \in Nat
        BY <3>1
      <3>9. ASSUME NEW d \in Conns, d # c
            PROVE  Len(echo'[d]) = Len(echo[d]) /\ Len(echo[d]) \in Nat
        BY <3>2, <3>8, <3>9
      <3>10. \A k \in Nat : k <= k
        OBVIOUS
      <3>11. ASSUME NEW d \in Conns
             PROVE  Len(echo[d]) \in Nat /\ Len(echo'[d]) \in Nat /\ Len(echo[d]) <= Len(echo'[d])
        <4>1. CASE d = c
          BY <3>7, <4>1, Zenon
        <4>2. CASE d # c
          BY <3>9, <3>10, <4>2, Zenon
        <4> QED
          BY <4>1, <4>2, Zenon
      <3> QED
        BY <3>11
    <2>2. \A d \in Conns : got[d] \in Nat
      BY DEF TypeOK, SocketsTypeOK
    <2> QED
      BY <2>1, <2>2 DEF Calm, LeaveInv, GoneInv
  <1>12. NumberInv'
    <2>1. owner[f] # NoConn
      BY <1>1, <1>2, SocketsAssumption
    <2> QED
      BY <1>7, <1>8, <2>1 DEF Calm, NumberInv
  <1>13. CqeInv'
    BY <1>7, <1>8 DEF Calm, CqeInv
  <1>14. OrderInv'
    BY <1>2, <1>5, <1>7, OrderPost DEF Calm
  <1>15. ArmOnce'
    <2>1. \A g : Accepted(g)' = Accepted(g) /\ Ended(g)' = Ended(g)
      <3> TAKE g
      <3>1. /\ Accepted(g)' = Accepted(g) + (IF e.op = "accept" /\ e.fd = g THEN 1 ELSE 0)
            /\ Ended(g)' = Ended(g) + (IF e.op = "recv" /\ e.fd = g /\ ~e.more THEN 1 ELSE 0)
        BY <1>5, <1>7, CqCountPush
      <3>2. Accepted(g) \in Nat /\ Ended(g) \in Nat
        BY CalmTypes
      <3> QED
        BY <1>7, <3>1, <3>2
    <2>2. OpenFds' = OpenFds
      BY DEF OpenFds
    <2>3. \A g : Queued(g) \in Nat /\ Accepted(g) \in Nat /\ Ended(g) \in Nat
      BY CalmTypes
    <2>4. \A g \in OpenFds : recvs[owner[g]] \in Nat
      BY CalmTypes DEF TypeOK
    <2>5. \A g \in OpenFds : Arms(g) \in Int /\ Arms(g)' \in Int /\ Arms(g)' <= Arms(g)
      BY <2>1, <2>3, <2>4 DEF Arms
    <2> QED
      BY <2>2, <2>5, ArmKeep DEF Calm
  <1> QED
    BY <1>10, <1>11, <1>12, <1>13, <1>14, <1>15 DEF Calm

\* A send that waited is completed.
LEMMA CompleteSendCalm ==
    ASSUME TypeOK, OwnerInv, LoopInv, BufInv, Up, Calm, CompleteSend
    PROVE  Calm'
  <1>1. PICK s \in sends : Transmit(s.who, s.fd, s.bid) /\ sends' = sends \ {s}
    BY DEF CompleteSend
  <1>2. s.bid \in Bids /\ s.fd \in Fds /\ owner[s.fd] = s.who
    BY <1>1 DEF TypeOK, Calm, NumberInv
  <1>3. Pends(s.bid, s.fd)
    BY <1>1 DEF Pends
  <1>4. /\ Without(sq, s.bid) /\ Without(Unreaped, s.bid)
        /\ \A t \in sends : t.bid = s.bid => t = s
    BY <1>1, SendsOnce
  <1>5. UNCHANGED <<pc, back, sq, owner, phase, cl, rst, sent, taken, got, store, recvs, num>>
    BY DEF CompleteSend, bufVars
  <1>6. \A g : Queued(g)' <= Queued(g) /\ Queued(g)' \in Nat
    <2> TAKE g
    <2>1. Queued(g)' = Queued(g)
      BY <1>5 DEF Queued
    <2>2. Queued(g) \in Nat
      BY CalmTypes
    <2> QED
      BY <2>1, <2>2
  <1>7. \A g \in Fds : ~Holds(sq', SendSqe(s.bid, g)) /\ ~Holds(Unreaped, DataCqe(s.bid, g))
    BY <1>4, <1>5, HoldsEntries DEF Without, SendSqe, DataCqe
  <1> QED
    BY <1>1, <1>2, <1>3, <1>4, <1>5, <1>6, <1>7, SendCalm

\* The kernel issues an SQE.
LEMMA IssueCalm ==
    ASSUME TypeOK, OwnerInv, LoopInv, BufInv, Calm, Issue
    PROVE  Calm'
  <1>1. PICK s : s = Head(sq)
    OBVIOUS
  <1>2. /\ sq # <<>> /\ sq' = Tail(sq) /\ Up
        /\ UNCHANGED <<pc, back, owner, phase, cl, rst, sent, taken, got, store>>
    BY DEF Issue, Up, bufVars
  <1>3. /\ s \in Sqes /\ s \in Entries(sq) /\ Entries(sq') \subseteq Entries(sq)
        /\ \A P : Holds(sq, P) <=> Holds(sq', P) \/ s \in P
    BY <1>1, <1>2, SqTaken
  <1>4. \A g : /\ Queued(g) = Queued(g)' + (IF s.op = "recv" /\ s.fd = g THEN 1 ELSE 0)
               /\ Queued(g) \in Nat /\ Queued(g)' \in Nat
    <2> TAKE g
    <2>1. Queued(g) = Queued(g)' + (IF s.op = "recv" /\ s.fd = g THEN 1 ELSE 0)
      BY <1>1, <1>2, QueuedPop
    <2>2. Queued(g) \in Nat
      BY CalmTypes
    <2>3. Queued(g)' \in Nat
      BY <1>2, AppendTypes, MatchesNat DEF Queued, TypeOK
    <2> QED
      BY <2>1, <2>2, <2>3
  <1>5. \A b \in Bids, g \in Fds : Holds(sq', SendSqe(b, g)) => Holds(sq, SendSqe(b, g))
    BY <1>3
  <1>6. s.op # "accept" => s.fd \in Fds /\ owner[s.fd] \in Conns /\ owner[s.fd] # NoConn
    <2>1. s.op # "accept" => s.fd \in Fds /\ owner[s.fd] # NoConn
      BY <1>3 DEF Sqes, Calm, NumberInv
    <2> QED
      BY <2>1 DEF TypeOK, SocketsTypeOK
  <1>7. s.op \in {"accept", "recv", "send"} /\ (s.op = "send" => s.bid \in Bids)
    BY <1>3 DEF Sqes, Ops
  <1>8. CASE UNCHANGED <<cq, echo>> /\ sends' = sends
    <2>1. \A b \in Bids, f \in Fds : Pends(b, f)' => Pends(b, f)
      <3>1. Unreaped' = Unreaped
        BY <1>2, <1>8 DEF Unreaped
      <3> QED
        BY <1>5, <1>8, <3>1 DEF Pends
    <2>2. PieceInv'
      BY <1>2, <1>8, <2>1, PieceKeep DEF Calm
    <2>3. LeaveInv' /\ CqeInv' /\ OrderInv'
      BY <1>2, <1>8 DEF Calm, LeaveInv, GoneInv, CqeInv, OrderInv
    <2>4. \A g : Accepted(g)' = Accepted(g) /\ Ended(g)' = Ended(g)
      BY <1>8 DEF Accepted, Ended
    <2>5. OpenFds' = OpenFds
      BY <1>2 DEF OpenFds
    <2>6. CASE UNCHANGED <<recvs, num>>
      <3>1. NumberInv'
        BY <1>2, <1>3, <1>8, <2>6 DEF Calm, NumberInv
      <3>2. \A f \in OpenFds : Arms(f) \in Int /\ Arms(f)' \in Int /\ Arms(f)' <= Arms(f)
        <4> TAKE f \in OpenFds
        <4>1. recvs[owner[f]] \in Nat /\ Accepted(f) \in Nat /\ Ended(f) \in Nat
          BY CalmTypes DEF TypeOK
        <4>2. recvs'[owner'[f]] = recvs[owner[f]]
          BY <1>2, <2>6
        <4> QED
          BY <1>4, <2>4, <4>1, <4>2 DEF Arms
      <3>3. ArmOnce'
        BY <2>5, <3>2, ArmKeep DEF Calm
      <3> QED
        BY <2>2, <2>3, <3>1, <3>3 DEF Calm
    <2>7. CASE /\ s.op = "recv"
               /\ recvs' = [recvs EXCEPT ![owner[s.fd]] = @ + 1]
               /\ num' = [num EXCEPT ![owner[s.fd]] = s.fd]
      <3>1. PICK c : c = owner[s.fd]
        OBVIOUS
      <3>2. c \in Conns /\ s.fd \in OpenFds /\ \A f \in OpenFds : owner[f] = c => f = s.fd
        BY <1>6, <2>7, <3>1 DEF OwnerInv, OpenFds
      <3>3. /\ recvs'[c] = recvs[c] + 1 /\ num'[c] = s.fd
            /\ \A d \in Conns : d # c => recvs'[d] = recvs[d] /\ num'[d] = num[d]
            /\ \A d \in Conns : recvs[d] \in Nat
        BY <2>7, <3>1, <3>2 DEF TypeOK
      <3>4. NumberInv'
        <4>1. \A d \in Conns : recvs'[d] > 0 => owner[num'[d]] = d
          BY <3>1, <3>3 DEF Calm, NumberInv
        <4> QED
          BY <1>2, <1>3, <1>8, <4>1 DEF Calm, NumberInv
      <3>5. \A f \in OpenFds : Arms(f) \in Int /\ Arms(f)' \in Int /\ Arms(f)' <= Arms(f)
        <4> TAKE f \in OpenFds
        <4>1. owner[f] \in Conns /\ Accepted(f) \in Nat /\ Ended(f) \in Nat /\ owner'[f] = owner[f]
          BY <1>2, CalmTypes
        <4>2. CASE f = s.fd
          BY <1>4, <2>4, <2>7, <3>1, <3>3, <4>1, <4>2 DEF Arms
        <4>3. CASE f # s.fd
          <5>1. owner[f] # c
            BY <3>2, <4>3
          <5>2. recvs'[owner'[f]] = recvs[owner[f]] /\ recvs[owner[f]] \in Nat
            BY <3>3, <4>1, <5>1
          <5> QED
            BY <1>4, <2>4, <4>1, <4>3, <5>2 DEF Arms
        <4> QED
          BY <4>2, <4>3
      <3>6. ArmOnce'
        BY <2>5, <3>5, ArmKeep DEF Calm
      <3> QED
        BY <2>2, <2>3, <3>4, <3>6 DEF Calm
    <2>8. \/ UNCHANGED <<recvs, num>>
          \/ /\ s.op = "recv"
             /\ recvs' = [recvs EXCEPT ![owner[s.fd]] = @ + 1]
             /\ num' = [num EXCEPT ![owner[s.fd]] = s.fd]
      BY <1>1, <1>7 DEF Issue
    <2> QED
      BY <2>6, <2>7, <2>8
  <1>9. CASE s.op = "send"
    <2>1. PICK c, f, b : c = owner[s.fd] /\ f = s.fd /\ b = s.bid
      OBVIOUS
    <2>2. c \in Conns /\ f \in Fds /\ b \in Bids /\ UNCHANGED <<recvs, num>> /\ c # NoConn
      BY <1>1, <1>6, <1>7, <1>9, <2>1 DEF Issue
    <2>3. s \in SendSqe(b, f)
      BY <1>3, <1>9, <2>1 DEF SendSqe
    <2>4. Pends(b, f)
      BY <1>3, <2>3 DEF Pends
    <2>5. Without(Tail(sq), b) /\ Without(Unreaped, b) /\ Unsent(b)
      BY <1>1, <1>2, <2>1, <2>2, HeadSqOnce
    <2>6. /\ \A g \in Fds : ~Holds(sq', SendSqe(b, g)) /\ ~Holds(Unreaped, DataCqe(b, g))
          /\ \A t \in sends : t.bid # b
      BY <1>2, <2>5, HoldsEntries DEF Without, Unsent, SendSqe, DataCqe
    <2>7. \A g : Queued(g)' <= Queued(g) /\ Queued(g)' \in Nat
      BY <1>4
    <2>8. CASE Transmit(owner[f], f, b) /\ sends' = sends
      BY <1>2, <1>3, <1>5, <2>2, <2>4, <2>6, <2>7, <2>8, SendCalm
    <2>9. CASE /\ sends' = sends \cup {[who |-> c, fd |-> f, bid |-> b]}
               /\ UNCHANGED <<cq, echo>>
      <3>1. Unreaped' = Unreaped
        BY <1>2, <2>9 DEF Unreaped
      <3>2. \A d \in Bids, g \in Fds : Pends(d, g)' => Pends(d, g)
        <4> TAKE d \in Bids, g \in Fds
        <4>1. CASE \E t \in sends : t.fd = g /\ t.bid = d
          BY <4>1 DEF Pends
        <4>2. CASE d = b /\ g = f
          BY <2>4, <4>2
        <4> QED
          BY <1>5, <2>9, <3>1, <4>1, <4>2 DEF Pends
      <3>3. PieceInv'
        BY <1>2, <2>9, <3>2, PieceKeep DEF Calm
      <3>4. LeaveInv' /\ CqeInv' /\ OrderInv'
        BY <1>2, <2>9 DEF Calm, LeaveInv, GoneInv, CqeInv, OrderInv
      <3>5. NumberInv'
        <4>1. \A t \in sends' : owner[t.fd] = t.who
          BY <2>1, <2>9 DEF Calm, NumberInv
        <4> QED
          BY <1>2, <1>3, <2>2, <2>9, <4>1 DEF Calm, NumberInv
      <3>6. \A g \in OpenFds : Arms(g) \in Int /\ Arms(g)' \in Int /\ Arms(g)' <= Arms(g)
        <4> TAKE g \in OpenFds
        <4>1. recvs[owner[g]] \in Nat /\ Accepted(g) \in Nat /\ Ended(g) \in Nat
          BY CalmTypes DEF TypeOK
        <4>2. /\ recvs'[owner'[g]] = recvs[owner[g]]
              /\ Accepted(g)' = Accepted(g) /\ Ended(g)' = Ended(g)
          BY <1>2, <2>2, <2>9 DEF Accepted, Ended
        <4> QED
          BY <1>4, <4>1, <4>2 DEF Arms
      <3>7. OpenFds' = OpenFds
        BY <1>2 DEF OpenFds
      <3>8. ArmOnce'
        BY <3>6, <3>7, ArmKeep DEF Calm
      <3> QED
        BY <3>3, <3>4, <3>5, <3>8 DEF Calm
    <2>10. \/ Transmit(owner[f], f, b) /\ sends' = sends
           \/ /\ sends' = sends \cup {[who |-> c, fd |-> f, bid |-> b]}
              /\ UNCHANGED <<cq, echo>>
      BY <1>1, <1>9, <2>1, <2>2 DEF Issue
    <2> QED
      BY <2>8, <2>9, <2>10
  <1>10. s.op # "send" => UNCHANGED <<cq, echo>> /\ sends' = sends
    BY <1>1, <1>6, <1>7 DEF Issue
  <1> QED
    BY <1>8, <1>9, <1>10

\* A connection is accepted: its number was in no queue.
LEMMA AcceptCalm ==
    ASSUME TypeOK, OwnerInv, LoopInv, BufInv, Up, Calm, CompleteAccept
    PROVE  Calm'
  <1>1. /\ UNCHANGED <<cl, rst, sent, taken, echo, got, recvs, num, sends, store, pc, back, sq>>
    BY DEF CompleteAccept, bufVars
  <1>2. \A b \in Bids, f \in Fds : Holds(sq', SendSqe(b, f)) => Holds(sq, SendSqe(b, f))
    BY <1>1
  <1>3. \A f : Queued(f)' = Queued(f) /\ Queued(f) \in Nat /\ Accepted(f) \in Nat /\ Ended(f) \in Nat
    <2>1. \A f : Queued(f)' = Queued(f)
      BY <1>1 DEF Queued
    <2> QED
      BY <2>1, CalmTypes
  <1>4. CASE \E f \in Fds : /\ AcceptAs(f)
                            /\ owner' = [owner EXCEPT ![f] = Head(backlog)]
                            /\ phase' = [phase EXCEPT ![Head(backlog)] = "open"]
                            /\ Post(Cqe("accept", f, NoBid, "ok", 0, TRUE))
    <2>1. PICK f \in Fds : /\ AcceptAs(f)
                           /\ owner' = [owner EXCEPT ![f] = Head(backlog)]
                           /\ phase' = [phase EXCEPT ![Head(backlog)] = "open"]
                           /\ Post(Cqe("accept", f, NoBid, "ok", 0, TRUE))
      BY <1>4
    <2>2. PICK h, e : h = Head(backlog) /\ e = Cqe("accept", f, NoBid, "ok", 0, TRUE)
      OBVIOUS
    <2>3. /\ h \in Conns /\ phase[h] = "queued" /\ owner[f] = NoConn
          /\ \A g \in OpenFds : owner[g] # h
      BY <2>1, <2>2, AcceptOwner DEF TypeOK, AcceptAs, FreeFds
    <2>4. /\ owner'[f] = h /\ \A g \in Fds : g # f => owner'[g] = owner[g]
          /\ phase'[h] = "open" /\ \A c \in Conns : c # h => phase'[c] = phase[c]
      BY <2>1, <2>2, <2>3 DEF TypeOK, SocketsTypeOK
    <2>5. /\ e \in Cqes /\ e.op = "accept" /\ e.fd = f /\ e.bid = NoBid /\ e.res = "ok" /\ e.more
          /\ cq' = Append(cq, e)
      BY <2>1, <2>2, CqeTypes DEF Cqe, Post
    <2>6. /\ Entries(cq') = Entries(cq) \cup {e}
          /\ \A P : Holds(Unreaped', P) <=> Holds(Unreaped, P) \/ e \in P
      BY <1>1, <2>5, UnreapedPost
    <2>7. /\ \A x \in Entries(cq) : x.fd # f
          /\ \A x \in Entries(sq) : x.op # "accept" => x.fd # f
          /\ \A s \in sends : s.fd # f
      <3>1. \A s \in sends : s.who \in Conns
        BY DEF TypeOK
      <3> QED
        BY <2>3, <3>1, SocketsAssumption DEF Calm, NumberInv
    <2>8. \A b \in Bids, g \in Fds : Pends(b, g)' => Pends(b, g)
      BY <1>1, <1>2, <2>5, <2>6 DEF Pends, DataCqe
    <2>9. \A b \in Bids : ~Pends(b, f)
      <3>1. Entries(Unreaped) \subseteq Entries(cq)
        BY CalmTypes
      <3> QED
        BY <2>7, <3>1, HoldsEntries DEF Pends, SendSqe, DataCqe
    <2>10. PieceInv'
      BY <1>1, <2>4, <2>8, <2>9, PieceKeep DEF Calm
    <2>11. LeaveInv'
      <3>1. \A c \in Conns : phase'[c] \in {"none", "queued"} => phase[c] = phase'[c]
        BY <2>4
      <3> QED
        BY <1>1, <3>1 DEF Calm, LeaveInv, GoneInv
    <2>12. NumberInv'
      <3>1. \A s \in sends' : owner'[s.fd] = s.who
        <4>1. \A s \in sends : s.fd \in Fds
          BY DEF TypeOK
        <4> QED
          BY <1>1, <2>4, <2>7, <4>1 DEF Calm, NumberInv
      <3>2. \A s \in Entries(sq') : s.op # "accept" => owner'[s.fd] # NoConn
        <4>1. \A s \in Entries(sq) : s.op # "accept" => s.fd \in Fds
          BY CalmTypes DEF Sqes
        <4> QED
          BY <1>1, <2>4, <2>7, <4>1 DEF Calm, NumberInv
      <3>3. \A x \in Entries(cq') : x.fd \in Fds => owner'[x.fd] # NoConn
        <4> TAKE x \in Entries(cq')
        <4>1. CASE x = e
          BY <2>3, <2>4, <2>5, <4>1, SocketsAssumption
        <4>2. CASE x \in Entries(cq)
          <5>1. x.fd \in Fds => owner[x.fd] # NoConn /\ x.fd # f
            BY <2>7, <4>2 DEF Calm, NumberInv
          <5> QED
            BY <2>4, <5>1
        <4> QED
          BY <2>6, <4>1, <4>2
      <3>4. \A c \in Conns : recvs'[c] > 0 => owner'[num'[c]] = c
        <4>1. \A c \in Conns : recvs[c] > 0 => owner[num[c]] = c /\ num[c] \in Fds /\ c # NoConn
          BY SocketsAssumption DEF Calm, NumberInv, LoopInv
        <4> QED
          BY <1>1, <2>3, <2>4, <4>1
      <3> QED
        BY <3>1, <3>2, <3>3, <3>4 DEF NumberInv
    <2>13. CqeInv'
      <3>1. \A x \in Entries(cq) : x.op = "recv" => x.fd \in Fds
        BY CalmTypes DEF Cqes
      <3>2. taken[h] = 0
        BY <2>3 DEF Calm, LeaveInv
      <3>3. \A x \in Entries(cq) : x.fd \in Fds => owner'[x.fd] = owner[x.fd]
        BY <2>4, <2>7
      <3>4. \A x \in Entries(cq') :
               /\ x.op = "send" => x.res = "ok"
               /\ x.op = "recv" /\ x.len = 0 => ~x.more /\ cl[owner'[x.fd]] # "up"
               /\ x.op = "accept" /\ x.fd \in Fds => taken[owner'[x.fd]] = 0
               /\ x.res # "nobufs"
        BY <2>4, <2>5, <2>6, <3>1, <3>2, <3>3 DEF Calm, CqeInv
      <3> QED
        BY <1>1, <3>4 DEF CqeInv
    <2>14. OrderInv'
      BY <2>5, <2>7, OrderPost DEF Calm
    <2>15. ArmOnce'
      <3>1. \A g : /\ Accepted(g)' = Accepted(g) + (IF g = f THEN 1 ELSE 0)
                   /\ Ended(g)' = Ended(g)
        <4> TAKE g
        <4>1. /\ Accepted(g)' = Accepted(g) + (IF e.op = "accept" /\ e.fd = g THEN 1 ELSE 0)
              /\ Ended(g)' = Ended(g) + (IF e.op = "recv" /\ e.fd = g /\ ~e.more THEN 1 ELSE 0)
          BY <2>5, CqCountPush
        <4> QED
          BY <1>3, <2>5, <4>1
      <3>2. Queued(f) = 0 /\ Accepted(f) = 0 /\ Ended(f) = 0
        <4>1. ~Holds(sq, {s \in Sqes : s.op = "recv" /\ s.fd = f})
          BY <2>7, HoldsEntries
        <4>2. /\ ~Holds(cq, {x \in Cqes : x.op = "accept" /\ x.fd = f})
              /\ ~Holds(cq, {x \in Cqes : x.op = "recv" /\ x.fd = f /\ ~x.more})
          BY <2>7, HoldsEntries
        <4> QED
          BY <4>1, <4>2, NoneCounted DEF Queued, Accepted, Ended, TypeOK
      <3>3. recvs[h] = 0 /\ recvs' = recvs
        <4>1. recvs[h] \in Nat /\ ~(recvs[h] > 0)
          <5>1. recvs[h] > 0 => owner[num[h]] = h /\ num[h] \in Fds
            BY <2>3 DEF Calm, NumberInv, LoopInv
          <5>2. \A g \in Fds : owner[g] = h => g \in OpenFds
            BY <2>3, SocketsAssumption DEF OpenFds
          <5> QED
            BY <2>3, <5>1, <5>2 DEF TypeOK
        <4> QED
          BY <1>1, <4>1
      <3>4. ASSUME NEW g \in OpenFds'
            PROVE  recvs'[owner'[g]] + Queued(g)' + Accepted(g)' + Ended(g)' <= 1
        <4>1. CASE g = f
          BY <1>3, <2>4, <3>1, <3>2, <3>3, <4>1
        <4>2. CASE g # f
          <5>1. g \in OpenFds /\ owner'[g] = owner[g]
            BY <2>4, <3>4, <4>2 DEF OpenFds
          <5>2. recvs[owner[g]] + Queued(g) + Accepted(g) + Ended(g) <= 1
            BY <5>1 DEF Calm, ArmOnce
          <5>3. Accepted(g)' = Accepted(g) /\ Ended(g)' = Ended(g) /\ Queued(g)' = Queued(g)
            BY <1>3, <3>1, <4>2
          <5> QED
            BY <3>3, <5>1, <5>2, <5>3
        <4> QED
          BY <4>1, <4>2
      <3> QED
        BY <3>4 DEF ArmOnce
    <2> QED
      BY <2>10, <2>11, <2>12, <2>13, <2>14, <2>15 DEF Calm
  <1>5. CASE /\ Post(Cqe("accept", listen_fd, NoBid, "bad", 0, FALSE))
             /\ UNCHANGED <<owner, phase>>
    <2>1. PICK e : e = Cqe("accept", listen_fd, NoBid, "bad", 0, FALSE)
      OBVIOUS
    <2>2. /\ e \in Cqes /\ e.op = "accept" /\ e.fd = listen_fd /\ e.bid = NoBid /\ e.res = "bad"
          /\ cq' = Append(cq, e) /\ listen_fd \notin Fds
      BY <1>5, <2>1, CqeTypes, UringOptAssumption DEF Cqe, Post
    <2>3. /\ Entries(cq') = Entries(cq) \cup {e}
          /\ \A P : Holds(Unreaped', P) <=> Holds(Unreaped, P) \/ e \in P
      BY <1>1, <2>2, UnreapedPost
    <2>4. \A b \in Bids, g \in Fds : Pends(b, g)' => Pends(b, g)
      BY <1>1, <1>2, <2>2, <2>3 DEF Pends, DataCqe
    <2>5. PieceInv'
      BY <1>1, <1>5, <2>4, PieceKeep DEF Calm
    <2>6. LeaveInv' /\ NumberInv' /\ CqeInv'
      BY <1>1, <1>5, <2>2, <2>3 DEF Calm, LeaveInv, GoneInv, NumberInv, CqeInv
    <2>7. OrderInv'
      BY <2>2, OrderPost DEF Calm, Final
    <2>8. \A g \in OpenFds : Arms(g)' = Arms(g) /\ Arms(g) \in Int
      <3> TAKE g \in OpenFds
      <3>1. /\ Accepted(g)' = Accepted(g) + (IF e.op = "accept" /\ e.fd = g THEN 1 ELSE 0)
            /\ Ended(g)' = Ended(g) + (IF e.op = "recv" /\ e.fd = g /\ ~e.more THEN 1 ELSE 0)
        BY <2>2, CqCountPush
      <3>2. g \in Fds /\ recvs[owner[g]] \in Nat
        BY CalmTypes DEF TypeOK
      <3>3. recvs'[owner'[g]] = recvs[owner[g]]
        BY <1>1, <1>5
      <3> QED
        BY <1>3, <2>2, <3>1, <3>2, <3>3 DEF Arms
    <2>9. OpenFds' = OpenFds
      BY <1>5 DEF OpenFds
    <2>10. ArmOnce'
      BY <2>8, <2>9, ArmKeep DEF Calm
    <2> QED
      BY <2>5, <2>6, <2>7, <2>10 DEF Calm
  <1> QED
    BY <1>4, <1>5 DEF CompleteAccept

\* While a connection has a recv in the kernel nothing final of it is in the
\* queue.
LEMMA RecvBehind ==
    ASSUME TypeOK, OwnerInv, LoopInv, Calm, NEW c \in Conns, recvs[c] > 0
    PROVE  /\ num[c] \in Fds /\ num[c] \in OpenFds /\ owner[num[c]] = c
           /\ recvs[c] = 1
           /\ Queued(num[c]) = 0 /\ Accepted(num[c]) = 0 /\ Ended(num[c]) = 0
           /\ \A x \in Entries(cq) : Final(x) => x.fd # num[c]
  <1>1. PICK f : f = num[c]
    OBVIOUS
  <1>2. f \in Fds /\ owner[f] = c /\ c # NoConn /\ f \in OpenFds
    BY <1>1, SocketsAssumption DEF LoopInv, Calm, NumberInv, OpenFds
  <1>3. /\ recvs[c] \in Nat /\ Queued(f) \in Nat /\ Accepted(f) \in Nat /\ Ended(f) \in Nat
        /\ recvs[c] + Queued(f) + Accepted(f) + Ended(f) <= 1
    BY <1>2, CalmTypes DEF TypeOK, Calm, ArmOnce
  <1>4. recvs[c] = 1 /\ Queued(f) = 0 /\ Accepted(f) = 0 /\ Ended(f) = 0
    BY <1>3
  <1>5. /\ ~Holds(cq, {x \in Cqes : x.op = "accept" /\ x.fd = f})
        /\ ~Holds(cq, {x \in Cqes : x.op = "recv" /\ x.fd = f /\ ~x.more})
    BY <1>4, NoneCounted DEF Accepted, Ended, TypeOK
  <1>6. \A x \in Entries(cq) : Final(x) => x.fd # f
    <2> TAKE x \in Entries(cq)
    <2>1. x \in Cqes
      BY CalmTypes
    <2>2. x.op = "accept" => x.fd # f
      BY <1>5, <2>1, HoldsEntries
    <2>3. x.op = "recv" /\ ~x.more => x.fd # f
      BY <1>5, <2>1, HoldsEntries
    <2>4. x.op = "recv" /\ x.len = 0 => ~x.more
      BY DEF Calm, CqeInv
    <2> QED
      BY <2>2, <2>3, <2>4 DEF Final
  <1> QED
    BY <1>1, <1>2, <1>4, <1>6

\* A recv returns data, or ends because the client has left.
LEMMA RecvCalm ==
    ASSUME TypeOK, OwnerInv, LoopInv, BufInv, Up, Calm,
           NEW c \in Conns, CompleteRecv(c), starved' = 0
    PROVE  Calm'
  <1>1. PICK f : f = num[c]
    OBVIOUS
  <1>2. /\ f \in Fds /\ f \in OpenFds /\ owner[f] = c /\ recvs[c] = 1 /\ c # NoConn
        /\ Queued(f) = 0 /\ Accepted(f) = 0 /\ Ended(f) = 0
        /\ \A x \in Entries(cq) : Final(x) => x.fd # f
    BY <1>1, RecvBehind, SocketsAssumption DEF CompleteRecv
  <1>3. /\ UNCHANGED <<phase, owner, cl, rst, sent, echo, got, num, sends, pc, back, sq>>
    BY DEF CompleteRecv
  <1>4. phase[c] = "open" /\ \A g \in OpenFds : owner[g] = c => g = f
    BY <1>2 DEF OwnerInv
  <1>5. /\ \A g : Queued(g)' = Queued(g)
        /\ \A g : Queued(g) \in Nat /\ Accepted(g) \in Nat /\ Ended(g) \in Nat
    <2>1. \A g : Queued(g)' = Queued(g)
      BY <1>3 DEF Queued
    <2> QED
      BY <2>1, CalmTypes
  <1>6. OpenFds' = OpenFds
    BY <1>3 DEF OpenFds
  \* What the new completion does to the invariants about the queue.
  <1>7. ASSUME NEW e \in Cqes, cq' = Append(cq, e), e.op = "recv", e.fd = f, e.res # "nobufs",
               e.len = 0 => ~e.more /\ cl[c] # "up",
               recvs' = [recvs EXCEPT ![c] = IF e.more THEN @ ELSE @ - 1],
               taken' = taken \/ (taken' = [taken EXCEPT ![c] = @ + ReadLen(c)])
        PROVE  NumberInv' /\ CqeInv' /\ OrderInv' /\ ArmOnce'
    <2>1. Entries(cq') = Entries(cq) \cup {e}
      BY <1>3, <1>7, UnreapedPost
    <2>2. /\ recvs'[c] = IF e.more THEN 1 ELSE 0
          /\ \A d \in Conns : d # c => recvs'[d] = recvs[d]
          /\ \A d \in Conns : recvs[d] \in Nat
      BY <1>2, <1>7 DEF TypeOK
    <2>3. NumberInv'
      <3>1. \A d \in Conns : recvs'[d] > 0 => owner[num[d]] = d
        BY <1>1, <1>2, <2>2 DEF Calm, NumberInv
      <3>2. \A x \in Entries(cq') : x.fd \in Fds => owner[x.fd] # NoConn
        BY <1>2, <1>7, <2>1 DEF Calm, NumberInv
      <3> QED
        BY <1>3, <3>1, <3>2 DEF Calm, NumberInv
    <2>4. CqeInv'
      <3>1. \A x \in Entries(cq) : x.op = "accept" /\ x.fd \in Fds => taken'[owner[x.fd]] = 0
        <4> TAKE x \in Entries(cq)
        <4> HAVE x.op = "accept" /\ x.fd \in Fds
        <4>1. x.fd # f /\ owner[x.fd] # NoConn /\ taken[owner[x.fd]] = 0
          BY <1>2 DEF Final, Calm, CqeInv, NumberInv
        <4>2. owner[x.fd] # c /\ owner[x.fd] \in Conns
          BY <1>4, <4>1, CalmTypes
        <4>3. taken'[owner[x.fd]] = taken[owner[x.fd]]
          BY <1>7, <4>2 DEF TypeOK, SocketsTypeOK
        <4> QED
          BY <4>1, <4>3
      <3>2. \A x \in Entries(cq') :
               /\ x.op = "send" => x.res = "ok"
               /\ x.op = "recv" /\ x.len = 0 => ~x.more /\ cl[owner[x.fd]] # "up"
               /\ x.op = "accept" /\ x.fd \in Fds => taken'[owner[x.fd]] = 0
               /\ x.res # "nobufs"
        BY <1>2, <1>7, <2>1, <3>1 DEF Calm, CqeInv
      <3> QED
        BY <1>3, <3>2 DEF CqeInv
    <2>5. OrderInv'
      BY <1>2, <1>7, OrderPost DEF Calm
    <2>6. \A g \in OpenFds : Arms(g) \in Int /\ Arms(g)' \in Int /\ Arms(g)' <= Arms(g)
      <3> TAKE g \in OpenFds
      <3>1. /\ Accepted(g)' = Accepted(g) + (IF e.op = "accept" /\ e.fd = g THEN 1 ELSE 0)
            /\ Ended(g)' = Ended(g) + (IF e.op = "recv" /\ e.fd = g /\ ~e.more THEN 1 ELSE 0)
        BY <1>7, CqCountPush
      <3>2. owner[g] \in Conns /\ owner'[g] = owner[g] /\ recvs[owner[g]] \in Nat
        BY <1>3, <2>2, CalmTypes
      <3>3. CASE g = f
        BY <1>2, <1>5, <1>7, <2>2, <3>1, <3>2, <3>3 DEF Arms
      <3>4. CASE g # f
        <4>1. recvs'[owner[g]] = recvs[owner[g]]
          BY <1>4, <2>2, <3>2, <3>4
        <4> QED
          BY <1>5, <1>7, <3>1, <3>2, <3>4, <4>1 DEF Arms
      <3> QED
        BY <3>3, <3>4
    <2>7. ArmOnce'
      BY <1>6, <2>6, ArmKeep DEF Calm
    <2> QED
      BY <2>3, <2>4, <2>5, <2>7
  <1>8. CASE \E b \in free, more \in {TRUE, ~RecvMayEnd} :
                /\ Avail(c) > 0
                /\ store' = [store EXCEPT ![b] = ReadData(c)]
                /\ taken' = [taken EXCEPT ![c] = @ + ReadLen(c)]
                /\ recvs' = [recvs EXCEPT ![c] = IF more THEN @ ELSE @ - 1]
                /\ Post(Cqe("recv", num[c], b, "ok", ReadLen(c), more))
    <2>1. PICK b \in free, more \in {TRUE, ~RecvMayEnd} :
                /\ Avail(c) > 0
                /\ store' = [store EXCEPT ![b] = ReadData(c)]
                /\ taken' = [taken EXCEPT ![c] = @ + ReadLen(c)]
                /\ recvs' = [recvs EXCEPT ![c] = IF more THEN @ ELSE @ - 1]
                /\ Post(Cqe("recv", num[c], b, "ok", ReadLen(c), more))
      BY <1>8
    <2>2. PICK e : e = Cqe("recv", num[c], b, "ok", ReadLen(c), more)
      OBVIOUS
    <2>3. /\ b \in Bids /\ more \in BOOLEAN /\ ReadLen(c) \in Nat \ {0}
          /\ taken[c] + ReadLen(c) <= sent[c]
      BY <2>1, ReadLenType, UringOptAssumption DEF TypeOK
    <2>4. /\ e \in Cqes /\ e.op = "recv" /\ e.fd = f /\ e.res = "ok" /\ e.bid = b
          /\ e.len # 0 /\ e.more = more /\ cq' = Append(cq, e)
      BY <1>1, <1>2, <2>1, <2>2, <2>3, CqeTypes DEF Cqe, Post
    <2>5. NumberInv' /\ CqeInv' /\ OrderInv' /\ ArmOnce'
      BY <1>7, <2>1, <2>4
    <2>6. \A P : Holds(Unreaped', P) <=> Holds(Unreaped, P) \/ e \in P
      BY <1>3, <2>4, UnreapedPost
    <2>7. \A d \in Bids, g \in Fds : Pends(d, g)' => Pends(d, g) \/ (d = b /\ g = f)
      BY <1>3, <2>4, <2>6 DEF Pends, DataCqe
    <2>8. \A g \in Fds : ~Pends(b, g)
      <3>1. Without(sq, b) /\ Without(Unreaped, b) /\ Unsent(b)
        BY <2>1, <2>3, NamedOnce
      <3> QED
        BY <3>1, HoldsEntries DEF Pends, Without, Unsent, SendSqe, DataCqe
    <2>9. PieceInv'
      <3>1. PieceInv /\ UNCHANGED <<owner, echo>>
        BY <1>3 DEF Calm
      <3>2. owner[f] = c /\ Avail(c) > 0
        BY <1>2, <2>1
      <3>3. /\ store' = [store EXCEPT ![b] = ReadData(c)]
            /\ taken' = [taken EXCEPT ![c] = @ + ReadLen(c)]
        BY <2>1
      <3>4. b \in Bids /\ f \in Fds
        BY <1>2, <2>3
      <3> QED
        BY <2>7, <2>8, <3>1, <3>2, <3>3, <3>4, PieceRead, Zenon
    <2>10. LeaveInv'
      <3>1. /\ taken'[c] = taken[c] + ReadLen(c)
            /\ \A d \in Conns : d # c => taken'[d] = taken[d]
        BY <2>1 DEF TypeOK, SocketsTypeOK
      <3>2. \A d \in Conns : taken'[d] <= sent[d]
        BY <2>3, <3>1 DEF Calm, LeaveInv
      <3>3. \A d \in Conns : phase[d] \in {"none", "queued"} => taken'[d] = 0
        BY <1>4, <3>1 DEF Calm, LeaveInv
      <3> QED
        BY <1>3, <3>2, <3>3 DEF Calm, LeaveInv, GoneInv
    <2> QED
      BY <2>5, <2>9, <2>10 DEF Calm
  <1>9. CASE /\ ReadEnds(c)
             /\ recvs' = [recvs EXCEPT ![c] = @ - 1]
             /\ Post(Cqe("recv", num[c], NoBid, IF rst[c] THEN "bad" ELSE "ok", 0, FALSE))
             /\ UNCHANGED <<bufVars, taken, starved>>
    <2>1. PICK e : e = Cqe("recv", num[c], NoBid, IF rst[c] THEN "bad" ELSE "ok", 0, FALSE)
      OBVIOUS
    <2>2. /\ e \in Cqes /\ e.op = "recv" /\ e.fd = f /\ e.res # "nobufs" /\ e.bid = NoBid
          /\ e.len = 0 /\ e.more = FALSE /\ cq' = Append(cq, e)
      BY <1>1, <1>2, <1>9, <2>1, CqeTypes DEF Cqe, Post
    <2>3. cl[c] # "up"
      BY <1>9 DEF ReadEnds, Eof, Calm, LeaveInv, GoneInv
    <2>4. NumberInv' /\ CqeInv' /\ OrderInv' /\ ArmOnce'
      BY <1>7, <1>9, <2>2, <2>3
    <2>5. \A P : Holds(Unreaped', P) <=> Holds(Unreaped, P) \/ e \in P
      BY <1>3, <2>2, UnreapedPost
    <2>6. NoBid \notin Bids
      BY UringOptAssumption DEF NoBid
    <2>7. \A d \in Bids, g \in Fds : Pends(d, g)' => Pends(d, g)
      BY <1>3, <2>2, <2>5, <2>6 DEF Pends, DataCqe
    <2>8. PieceInv'
      BY <1>3, <1>9, <2>7, PieceKeep DEF Calm, bufVars
    <2>9. LeaveInv'
      BY <1>3, <1>9 DEF Calm, LeaveInv, GoneInv
    <2> QED
      BY <2>4, <2>8, <2>9 DEF Calm
  <1>10. starved' # starved + 1
    BY DEF TypeOK
  <1> QED
    BY <1>8, <1>9, <1>10 DEF CompleteRecv

\* A completion reaped.
LEMMA CqReaped ==
    ASSUME TypeOK, cq # <<>>, cq' = Tail(cq)
    PROVE  /\ Entries(cq) = Entries(cq') \cup {Head(cq)} /\ Head(cq) \in Cqes
           /\ Head(cq) \in Entries(cq) /\ Entries(cq') \subseteq Entries(cq)
           /\ \A P : Holds(cq, P) <=> Holds(cq', P) \/ Head(cq) \in P
           /\ \A g : /\ Accepted(g)' \in Nat /\ Ended(g)' \in Nat
                     /\ Accepted(g)' <= Accepted(g) /\ Ended(g)' <= Ended(g)
  <1>1. Entries(cq) = Entries(cq') \cup {Head(cq)} /\ Head(cq) \in Cqes
    BY EntriesTail DEF TypeOK
  <1>2. \A P : Holds(cq, P) <=> Holds(cq', P) \/ Head(cq) \in P
    BY HoldsTail DEF TypeOK
  <1>3. ASSUME NEW g
        PROVE  /\ Accepted(g)' \in Nat /\ Ended(g)' \in Nat
               /\ Accepted(g)' <= Accepted(g) /\ Ended(g)' <= Ended(g)
    <2>1. PICK e : e = Head(cq)
      OBVIOUS
    <2>2. /\ Accepted(g) = Accepted(g)' + (IF e.op = "accept" /\ e.fd = g THEN 1 ELSE 0)
          /\ Ended(g) = Ended(g)' + (IF e.op = "recv" /\ e.fd = g /\ ~e.more THEN 1 ELSE 0)
      BY <2>1, CqCountPop
    <2>3. cq' \in Seq(Cqes)
      BY AppendTypes DEF TypeOK
    <2>4. Accepted(g)' \in Nat /\ Ended(g)' \in Nat
      BY <2>3, MatchesNat DEF Accepted, Ended
    <2> QED
      BY <2>2, <2>4
  <1> QED
    BY <1>1, <1>2, <1>3

\* The last completion of a connection is reaped and its number closed: the
\* number is in no queue any more.
LEMMA CloseCalm ==
    ASSUME TypeOK, OwnerInv, LoopInv, BufInv, Calm, pc = "reap", pc' = "reap",
           cq # <<>>, cq' = Tail(cq), NEW f \in Fds, f = Head(cq).fd,
           Final(Head(cq)), CloseNumber(f),
           UNCHANGED <<backlog, cl, rst, sent, taken, echo, got, recvs, num, sends, store, sq>>
    PROVE  Calm'
  <1>1. PICK e, c : e = Head(cq) /\ c = owner[f]
    OBVIOUS
  <1>2. /\ Entries(cq) = Entries(cq') \cup {e} /\ e \in Cqes
        /\ e \in Entries(cq) /\ Entries(cq') \subseteq Entries(cq)
        /\ \A P : Holds(cq, P) <=> Holds(cq', P) \/ e \in P
    BY <1>1, CqReaped
  <1>3. e.fd = f /\ c \in Conns /\ c # NoConn /\ f \in OpenFds
    BY <1>1, <1>2, CalmTypes DEF Calm, NumberInv
  <1>4. \/ e.op = "accept" /\ taken[c] = 0
        \/ e.op = "recv" /\ ~e.more /\ cl[c] # "up"
    BY <1>1, <1>2, <1>3 DEF Final, Calm, CqeInv
  <1>5. \A b \in Bids : ~Pends(b, f)
    BY <1>1, <1>3, <1>4, LeftEmpty DEF Calm
  <1>6. recvs[c] = 0 /\ Queued(f) = 0
    <2>1. /\ Accepted(f) = Accepted(f)' + (IF e.op = "accept" /\ e.fd = f THEN 1 ELSE 0)
          /\ Ended(f) = Ended(f)' + (IF e.op = "recv" /\ e.fd = f /\ ~e.more THEN 1 ELSE 0)
      BY <1>1, CqCountPop
    <2>2. /\ Accepted(f)' \in Nat /\ Ended(f)' \in Nat
          /\ Accepted(f)' <= Accepted(f) /\ Ended(f)' <= Ended(f)
      BY CqReaped
    <2>3. Accepted(f) + Ended(f) >= 1 /\ Accepted(f) \in Nat /\ Ended(f) \in Nat
      <3>1. Accepted(f) \in Nat /\ Ended(f) \in Nat
        BY CalmTypes
      <3> QED
        BY <1>3, <1>4, <2>1, <2>2, <3>1
    <2>4. recvs[c] + Queued(f) + Accepted(f) + Ended(f) <= 1
      BY <1>1, <1>3 DEF Calm, ArmOnce
    <2>5. recvs[c] \in Nat /\ Queued(f) \in Nat
      BY <1>3, CalmTypes DEF TypeOK
    <2> QED
      BY <2>3, <2>4, <2>5
  <1>7. CloseFd(f)
    BY <1>1, <1>3 DEF CloseNumber
  <1>8. /\ OpenFds' = OpenFds \ {f} /\ \A g \in OpenFds' : owner'[g] = owner[g]
        /\ \A g \in Fds : g # f => owner'[g] = owner[g]
        /\ \A d \in Conns : phase'[d] \in {"none", "queued"} => phase'[d] = phase[d]
    <2>1. OpenFds' = OpenFds \ {f} /\ \A g \in OpenFds' : owner'[g] = owner[g]
      BY <1>1, <1>3, <1>7, CloseOwner DEF TypeOK
    <2>2. /\ \A g \in Fds : g # f => owner'[g] = owner[g]
          /\ \A d \in Conns : phase'[d] \in {"none", "queued"} => phase'[d] = phase[d]
      BY <1>7 DEF CloseFd, TypeOK, SocketsTypeOK
    <2> QED
      BY <2>1, <2>2
  <1>9. Unreaped = cq /\ Unreaped' = cq'
    BY DEF Unreaped
  <1>10. \A b \in Bids, g \in Fds : Pends(b, g)' => Pends(b, g)
    BY <1>2, <1>9 DEF Pends
  <1>11. PieceInv'
    BY <1>5, <1>8, <1>10, PieceKeep DEF Calm
  <1>12. LeaveInv'
    BY <1>8 DEF Calm, LeaveInv, GoneInv
  <1>13. \A x \in Entries(cq') : x.fd # f
    BY <1>1, <1>3, OrderTail DEF Calm
  <1>14. NumberInv'
    <2>1. \A s \in sends : s.fd \in Fds /\ s.fd # f
      <3>1. \A s \in sends : s.fd \in Fds /\ s.bid \in Bids
        BY DEF TypeOK
      <3> QED
        BY <1>5, <3>1 DEF Pends
    <2>2. \A s \in Entries(sq) : s.op # "accept" => s.fd \in Fds /\ s.fd # f
      <3> TAKE s \in Entries(sq)
      <3> HAVE s.op # "accept"
      <3>1. s \in Sqes /\ s.op \in {"recv", "send"} /\ s.fd \in Fds /\ (s.op = "send" => s.bid \in Bids)
        BY CalmTypes DEF Sqes, Ops
      <3>2. CASE s.op = "recv"
        <4>1. ~Holds(sq, {x \in Sqes : x.op = "recv" /\ x.fd = f})
          BY <1>6, NoneCounted DEF Queued, TypeOK
        <4> QED
          BY <3>1, <3>2, <4>1, HoldsEntries
      <3>3. CASE s.op = "send"
        <4>1. ~Holds(sq, SendSqe(s.bid, f))
          BY <1>5, <3>1, <3>3 DEF Pends
        <4> QED
          BY <3>1, <3>3, <4>1, HoldsEntries DEF SendSqe
      <3> QED
        BY <3>1, <3>2, <3>3
    <2>3. \A d \in Conns : recvs[d] > 0 => num[d] \in Fds /\ num[d] # f
      <3> TAKE d \in Conns
      <3> HAVE recvs[d] > 0
      <3>1. owner[num[d]] = d /\ num[d] \in Fds /\ d # c
        BY <1>6 DEF Calm, NumberInv, LoopInv
      <3> QED
        BY <1>1, <3>1
    <2>4. /\ \A s \in sends' : owner'[s.fd] = s.who
          /\ \A s \in Entries(sq') : s.op # "accept" => owner'[s.fd] # NoConn
      BY <1>8, <2>1, <2>2 DEF Calm, NumberInv
    <2>5. \A x \in Entries(cq') : x.fd \in Fds => owner'[x.fd] # NoConn
      BY <1>2, <1>8, <1>13 DEF Calm, NumberInv
    <2>6. \A d \in Conns : recvs'[d] > 0 => owner'[num'[d]] = d
      BY <1>8, <2>3 DEF Calm, NumberInv
    <2> QED
      BY <2>4, <2>5, <2>6 DEF NumberInv
  <1>15. CqeInv'
    <2>1. \A x \in Entries(cq) : x.op = "recv" => x.fd \in Fds
      BY CalmTypes DEF Cqes
    <2>2. \A x \in Entries(cq') : x.fd \in Fds => owner'[x.fd] = owner[x.fd]
      BY <1>8, <1>13
    <2> QED
      BY <1>2, <2>1, <2>2 DEF Calm, CqeInv
  <1>16. OrderInv'
    BY OrderTail DEF Calm
  <1>17. ArmOnce'
    <2>1. ASSUME NEW g \in OpenFds'
          PROVE  g \in OpenFds /\ Arms(g)' <= Arms(g) /\ Arms(g)' \in Int
      <3>1. g \in OpenFds /\ owner'[g] = owner[g] /\ Queued(g)' = Queued(g)
        BY <1>8, <2>1 DEF Queued
      <3>2. /\ Accepted(g)' \in Nat /\ Ended(g)' \in Nat
            /\ Accepted(g)' <= Accepted(g) /\ Ended(g)' <= Ended(g)
        BY CqReaped
      <3>3. recvs[owner[g]] \in Nat /\ Queued(g) \in Nat /\ Accepted(g) \in Nat /\ Ended(g) \in Nat
        BY <3>1, CalmTypes DEF TypeOK
      <3>4. recvs'[owner'[g]] = recvs[owner[g]]
        BY <3>1
      <3> QED
        BY <3>1, <3>2, <3>3, <3>4, ArmsFewer, Zenon
    <2>2. \A g \in OpenFds : Arms(g) \in Int
      <3> TAKE g \in OpenFds
      <3>1. recvs[owner[g]] \in Nat /\ Queued(g) \in Nat /\ Accepted(g) \in Nat /\ Ended(g) \in Nat
        BY CalmTypes DEF TypeOK
      <3> QED
        BY <3>1 DEF Arms
    <2> QED
      BY <2>1, <2>2, ArmKeep DEF Calm
  <1> QED
    BY <1>11, <1>12, <1>14, <1>15, <1>16, <1>17 DEF Calm

\* A completion reaped without closing: when a recv is armed for its number,
\* it was the reason to arm one.
LEMMA ReapedCalm ==
    ASSUME TypeOK, OwnerInv, LoopInv, BufInv, Calm, cq # <<>>, cq' = Tail(cq),
           \/ sq' = sq
           \/ \E s \in Sqes :
                 /\ sq' = Append(sq, s)
                 /\ \/ s.op = "accept"
                    \/ /\ s.op = "recv" /\ s.fd = Head(cq).fd /\ s.fd \in Fds
                       /\ \/ Head(cq).op = "accept"
                          \/ Head(cq).op = "recv" /\ ~Head(cq).more,
           UNCHANGED <<phase, owner, cl, rst, sent, taken, echo, got, recvs, num, sends>>,
           \A b \in Bids, g \in Fds : Pends(b, g)' => Pends(b, g) /\ store'[b] = store[b]
    PROVE  Calm'
  <1>1. PICK e : e = Head(cq)
    OBVIOUS
  <1>2. /\ e \in Cqes /\ e \in Entries(cq) /\ Entries(cq') \subseteq Entries(cq)
    BY <1>1, CqReaped
  <1>3. PieceInv'
    BY PieceKeep DEF Calm
  <1>4. LeaveInv' /\ CqeInv'
    BY <1>2 DEF Calm, LeaveInv, GoneInv, CqeInv
  <1>5. OrderInv'
    BY OrderTail DEF Calm
  <1>6. OpenFds' = OpenFds
    BY DEF OpenFds
  <1>7. \A g \in OpenFds : /\ recvs[owner[g]] \in Nat /\ Queued(g) \in Nat
                           /\ Accepted(g) \in Nat /\ Ended(g) \in Nat
    BY CalmTypes DEF TypeOK
  <1>8. \A g : /\ Accepted(g)' \in Nat /\ Ended(g)' \in Nat
               /\ Accepted(g)' <= Accepted(g) /\ Ended(g)' <= Ended(g)
    BY CqReaped
  <1>9. \A g : /\ Accepted(g) = Accepted(g)' + (IF e.op = "accept" /\ e.fd = g THEN 1 ELSE 0)
               /\ Ended(g) = Ended(g)' + (IF e.op = "recv" /\ e.fd = g /\ ~e.more THEN 1 ELSE 0)
    BY <1>1, CqCountPop
  <1>10. CASE sq' = sq
    <2>1. NumberInv'
      BY <1>2, <1>10 DEF Calm, NumberInv
    <2>2. \A g \in OpenFds : Arms(g) \in Int /\ Arms(g)' \in Int /\ Arms(g)' <= Arms(g)
      <3> TAKE g \in OpenFds
      <3>1. Queued(g)' = Queued(g) /\ recvs'[owner'[g]] = recvs[owner[g]]
        BY <1>10 DEF Queued
      <3>2. /\ recvs[owner[g]] \in Nat /\ Queued(g) \in Nat
            /\ Accepted(g) \in Nat /\ Ended(g) \in Nat
            /\ Accepted(g)' \in Nat /\ Ended(g)' \in Nat
            /\ Accepted(g)' <= Accepted(g) /\ Ended(g)' <= Ended(g)
        BY <1>7, <1>8
      <3> QED
        BY <3>1, <3>2, ArmsFewer, Zenon
    <2>3. ArmOnce'
      BY <1>6, <2>2, ArmKeep DEF Calm
    <2> QED
      BY <1>3, <1>4, <1>5, <2>1, <2>3 DEF Calm
  <1>11. ASSUME NEW s \in Sqes, sq' = Append(sq, s),
                \/ s.op = "accept"
                \/ /\ s.op = "recv" /\ s.fd = e.fd /\ s.fd \in Fds
                   /\ (e.op = "accept" \/ (e.op = "recv" /\ ~e.more))
         PROVE  Calm'
    <2>1. Entries(sq') = Entries(sq) \cup {s}
      BY <1>11, SqGiven
    <2>2. NumberInv'
      <3>1. s.op # "accept" => owner[s.fd] # NoConn
        BY <1>2, <1>11 DEF Calm, NumberInv
      <3>2. \A x \in Entries(sq') : x.op # "accept" => owner[x.fd] # NoConn
        BY <2>1, <3>1 DEF Calm, NumberInv
      <3> QED
        BY <1>2, <3>2 DEF Calm, NumberInv
    <2>3. \A g \in OpenFds : Arms(g) \in Int /\ Arms(g)' \in Int /\ Arms(g)' <= Arms(g)
      <3> TAKE g \in OpenFds
      <3>1. /\ Queued(g)' = Queued(g) + (IF s.op = "recv" /\ s.fd = g THEN 1 ELSE 0)
            /\ recvs'[owner'[g]] = recvs[owner[g]]
        BY <1>11, QueuedPush
      <3>2. /\ recvs[owner[g]] \in Nat /\ Queued(g) \in Nat
            /\ Accepted(g) \in Nat /\ Ended(g) \in Nat
            /\ Accepted(g)' \in Nat /\ Ended(g)' \in Nat
            /\ Accepted(g)' <= Accepted(g) /\ Ended(g)' <= Ended(g)
        BY <1>7, <1>8
      <3>3. CASE s.op = "recv" /\ s.fd = g
        <4>1. Accepted(g)' + Ended(g)' + 1 = Accepted(g) + Ended(g)
          BY <1>9, <1>11, <3>2, <3>3
        <4>2. Queued(g)' = Queued(g) + 1
          BY <3>1, <3>3
        <4> QED
          BY <3>1, <3>2, <4>1, <4>2, ArmsFewer, Zenon
      <3>4. CASE ~(s.op = "recv" /\ s.fd = g)
        <4>1. Queued(g)' = Queued(g)
          BY <3>1, <3>2, <3>4
        <4> QED
          BY <3>1, <3>2, <4>1, ArmsFewer, Zenon
      <3> QED
        BY <3>3, <3>4
    <2>4. ArmOnce'
      BY <1>6, <2>3, ArmKeep DEF Calm
    <2> QED
      BY <1>3, <1>4, <1>5, <2>2, <2>4 DEF Calm
  <1> QED
    BY <1>1, <1>10, <1>11

\* The program handles an accept, ...
LEMMA ReapAcceptCalm ==
    ASSUME TypeOK, OwnerInv, LoopInv, BufInv, Calm, ReapAccept
    PROVE  Calm'
  <1>1. PICK e : e = Head(cq)
    OBVIOUS
  <1>2. /\ pc = "reap" /\ pc' = "reap" /\ cq # <<>> /\ cq' = Tail(cq) /\ e.op = "accept"
        /\ UNCHANGED <<backlog, cl, rst, sent, taken, echo, got, recvs, num, sends, store>>
    BY <1>1 DEF ReapAccept, Reaping, NextCqe, kernVars, bufVars
  <1>3. /\ e \in Cqes /\ \A P : Holds(cq, P) <=> Holds(cq', P) \/ e \in P
    BY <1>1, <1>2, CqReaped
  <1>4. e.res = "ok" <=> e.fd \in Fds
    BY <1>2, <1>3 DEF Cqes
  <1>5. Unreaped = cq /\ Unreaped' = cq'
    BY <1>2 DEF Unreaped
  <1>6. CASE e.res = "ok" /\ e.fd >= MAX_FDS /\ CloseNumber(e.fd) /\ UNCHANGED sq
    <2>1. Final(e)
      BY <1>2, <1>4, <1>6 DEF Final
    <2> QED
      BY <1>1, <1>2, <1>4, <1>6, <2>1, CloseCalm
  <1>7. ASSUME NEW s \in Sqes, sq' = Append(sq, s), UNCHANGED <<owner, phase>>,
               s.op = "accept" \/ (s.op = "recv" /\ s.fd = e.fd /\ e.res = "ok")
        PROVE  Calm'
    <2>1. \A b \in Bids, g \in Fds : s \notin SendSqe(b, g)
      BY <1>7 DEF SendSqe
    <2>2. \A P : Holds(sq', P) <=> Holds(sq, P) \/ s \in P
      BY <1>7, SqGiven
    <2>3. \A b \in Bids, g \in Fds : Pends(b, g)' => Pends(b, g) /\ store'[b] = store[b]
      BY <1>2, <1>3, <1>5, <2>1, <2>2 DEF Pends
    <2> QED
      BY <1>1, <1>2, <1>4, <1>7, <2>3, ReapedCalm
  <1>8. CASE /\ e.res = "ok" /\ AddSqe(Sqe("recv", e.fd, NoBid))
             /\ UNCHANGED <<owner, phase>>
    <2>1. PICK s : s = Sqe("recv", e.fd, NoBid)
      OBVIOUS
    <2>2. s \in Sqes /\ s.op = "recv" /\ s.fd = e.fd /\ sq' = Append(sq, s)
      BY <1>4, <1>8, <2>1, SqeTypes DEF Sqe, AddSqe
    <2> QED
      BY <1>7, <1>8, <2>2
  <1>9. CASE AddSqe(Sqe("accept", listen_fd, NoBid)) /\ UNCHANGED <<owner, phase>>
    <2>1. PICK s : s = Sqe("accept", listen_fd, NoBid)
      OBVIOUS
    <2>2. s \in Sqes /\ s.op = "accept" /\ sq' = Append(sq, s)
      BY <1>9, <2>1, SqeTypes DEF Sqe, AddSqe
    <2> QED
      BY <1>7, <1>9, <2>2
  <1> QED
    BY <1>1, <1>6, <1>8, <1>9 DEF ReapAccept

\* ... data, that waits in the submission queue from then on, ...
LEMMA ReapRecvCalm ==
    ASSUME TypeOK, OwnerInv, LoopInv, BufInv, Calm, ReapRecv
    PROVE  Calm'
  <1>1. PICK e : e = Head(cq)
    OBVIOUS
  <1>2. /\ pc = "reap" /\ pc' = "rearm" /\ cq # <<>> /\ e.op = "recv"
        /\ UNCHANGED <<phase, owner, cl, rst, sent, taken, echo, got, recvs, num, sends, store, cq>>
    BY <1>1 DEF ReapRecv, Reaping, sockVars, kernVars, bufVars
  <1>3. /\ e \in Cqes /\ e \in Entries(cq)
        /\ \A P : Holds(cq, P) <=> Holds(Tail(cq), P) \/ e \in P
    BY <1>1, <1>2, EntriesTail, HoldsTail DEF TypeOK
  <1>4. e.len > 0 /\ AddSqe(Sqe("send", e.fd, e.bid))
    BY <1>1, <1>3 DEF ReapRecv, Calm, CqeInv
  <1>5. e.fd \in Fds /\ e.bid \in Bids /\ owner[e.fd] # NoConn
    BY <1>2, <1>3, <1>4 DEF Cqes, Calm, NumberInv
  <1>6. PICK s : s = Sqe("send", e.fd, e.bid)
    OBVIOUS
  <1>7. /\ s \in Sqes /\ s.op = "send" /\ s.fd = e.fd /\ s.bid = e.bid /\ sq' = Append(sq, s)
    BY <1>4, <1>5, <1>6, SqeTypes DEF Sqe, AddSqe
  <1>8. /\ Entries(sq') = Entries(sq) \cup {s}
        /\ \A P : Holds(sq', P) <=> Holds(sq, P) \/ s \in P
    BY <1>7, SqGiven
  <1>9. Unreaped = cq /\ Unreaped' = Tail(cq)
    BY <1>2 DEF Unreaped
  <1>10. \A b \in Bids, g \in Fds : Pends(b, g)' => Pends(b, g)
    <2> TAKE b \in Bids, g \in Fds
    <2>1. s \in SendSqe(b, g) => e \in DataCqe(b, g)
      BY <1>2, <1>3, <1>7 DEF SendSqe, DataCqe
    <2> QED
      BY <1>2, <1>3, <1>8, <1>9, <2>1 DEF Pends
  <1>11. PieceInv'
    BY <1>2, <1>10, PieceKeep DEF Calm
  <1>12. LeaveInv' /\ CqeInv' /\ OrderInv'
    BY <1>2 DEF Calm, LeaveInv, GoneInv, CqeInv, OrderInv, Entries
  <1>13. NumberInv'
    <2>1. \A x \in Entries(sq') : x.op # "accept" => owner[x.fd] # NoConn
      BY <1>5, <1>7, <1>8 DEF Calm, NumberInv
    <2>2. Entries(cq') = Entries(cq)
      BY <1>2
    <2> QED
      BY <1>2, <2>1, <2>2 DEF Calm, NumberInv
  <1>14. ArmOnce'
    <2>1. OpenFds' = OpenFds
      BY <1>2 DEF OpenFds
    <2>2. \A g \in OpenFds : Arms(g) \in Int /\ Arms(g)' \in Int /\ Arms(g)' <= Arms(g)
      <3> TAKE g \in OpenFds
      <3>1. Queued(g)' = Queued(g) + (IF s.op = "recv" /\ s.fd = g THEN 1 ELSE 0)
        BY <1>7, QueuedPush
      <3>2. /\ recvs[owner[g]] \in Nat /\ Queued(g) \in Nat
            /\ Accepted(g) \in Nat /\ Ended(g) \in Nat
        BY CalmTypes DEF TypeOK
      <3>3. /\ Accepted(g)' = Accepted(g) /\ Ended(g)' = Ended(g)
            /\ recvs'[owner'[g]] = recvs[owner[g]]
        BY <1>2 DEF Accepted, Ended
      <3> QED
        BY <1>7, <3>1, <3>2, <3>3 DEF Arms
    <2> QED
      BY <2>1, <2>2, ArmKeep DEF Calm
  <1> QED
    BY <1>11, <1>12, <1>13, <1>14 DEF Calm

\* ... the re-arm test, ...
LEMMA RearmCalm ==
    ASSUME TypeOK, OwnerInv, LoopInv, BufInv, Calm, Rearm
    PROVE  Calm'
  <1>1. PICK e : e = Head(cq)
    OBVIOUS
  <1>2. /\ pc = "rearm" /\ pc' = "reap" /\ cq' = Tail(cq)
        /\ UNCHANGED <<phase, owner, cl, rst, sent, taken, echo, got, recvs, num, sends, store>>
    BY DEF Rearm, NextCqe, sockVars, kernVars, bufVars
  <1>3. cq # <<>> /\ e \in Cqes /\ e.op = "recv" /\ e.fd \in Fds
    BY <1>1, <1>2, HandTypes DEF InHand
  <1>4. Unreaped = Tail(cq) /\ Unreaped' = cq'
    BY <1>2 DEF Unreaped
  <1>5. CASE sq' = sq
    <2>1. \A b \in Bids, g \in Fds : Pends(b, g)' => Pends(b, g) /\ store'[b] = store[b]
      BY <1>2, <1>4, <1>5 DEF Pends
    <2> QED
      BY <1>2, <1>3, <1>5, <2>1, ReapedCalm
  <1>6. CASE ~e.more /\ AddSqe(Sqe("recv", e.fd, NoBid))
    <2>1. PICK s : s = Sqe("recv", e.fd, NoBid)
      OBVIOUS
    <2>2. s \in Sqes /\ s.op = "recv" /\ s.fd = e.fd /\ sq' = Append(sq, s)
      BY <1>3, <1>6, <2>1, SqeTypes DEF Sqe, AddSqe
    <2>3. \A P : Holds(sq', P) <=> Holds(sq, P) \/ s \in P
      BY <2>2, SqGiven
    <2>4. \A b \in Bids, g \in Fds : s \notin SendSqe(b, g)
      BY <2>2 DEF SendSqe
    <2>5. \A b \in Bids, g \in Fds : Pends(b, g)' => Pends(b, g) /\ store'[b] = store[b]
      BY <1>2, <1>4, <2>3, <2>4 DEF Pends
    <2> QED
      BY <1>1, <1>2, <1>3, <1>6, <2>2, <2>5, ReapedCalm
  <1> QED
    BY <1>1, <1>5, <1>6 DEF Rearm

\* ... the end of a stream ...
LEMMA ReapEofCalm ==
    ASSUME TypeOK, OwnerInv, LoopInv, BufInv, Calm, ReapEof
    PROVE  Calm'
  <1>1. PICK e : e = Head(cq)
    OBVIOUS
  <1>2. /\ pc = "reap" /\ pc' = "reap" /\ cq # <<>> /\ cq' = Tail(cq) /\ e.op = "recv"
        /\ e.len = 0 /\ CloseNumber(e.fd)
        /\ UNCHANGED <<backlog, cl, rst, sent, taken, echo, got, recvs, num, sends, store, sq>>
    BY <1>1 DEF ReapEof, Reaping, NextCqe, kernVars, bufVars
  <1>3. e.fd \in Fds
    BY <1>1, <1>2, HeadTypes DEF Cqes
  <1>4. Final(e)
    BY <1>2, <1>3 DEF Final
  <1> QED
    BY <1>1, <1>2, <1>3, <1>4, CloseCalm

\* ... and a send, whose buffer goes back to the ring.
LEMMA ReapSendCalm ==
    ASSUME TypeOK, OwnerInv, LoopInv, BufInv, Calm, ReapSend
    PROVE  Calm'
  <1>1. PICK e : e = Head(cq)
    OBVIOUS
  <1>2. /\ pc = "reap" /\ pc' = "reap" /\ cq # <<>> /\ cq' = Tail(cq) /\ e.op = "send"
        /\ store' = [store EXCEPT ![e.bid] = <<>>]
        /\ UNCHANGED <<cl, rst, sent, taken, echo, got, recvs, num, sends, sq>>
    BY <1>1 DEF ReapSend, Reaping, NextCqe, kernVars
  <1>3. /\ e \in Cqes /\ e \in Entries(cq) /\ \A P : Holds(cq, P) <=> Holds(cq', P) \/ e \in P
    BY <1>1, <1>2, CqReaped
  <1>4. UNCHANGED <<owner, phase>>
    BY <1>1, <1>2, <1>3 DEF ReapSend, Calm, CqeInv
  <1>5. Unreaped = cq /\ Unreaped' = cq' /\ Up
    BY <1>2 DEF Unreaped, Up
  <1>6. PICK b : b = e.bid
    OBVIOUS
  <1>7. b \in Bids
    BY <1>2, <1>3, <1>6 DEF Cqes
  <1>8. Without(cq', b) /\ Without(sq, b) /\ Unsent(b)
    BY <1>1, <1>2, <1>5, <1>6, <1>7, HeadCqOnce
  <1>9. \A g \in Fds : ~Pends(b, g)'
    BY <1>2, <1>5, <1>8, HoldsEntries DEF Pends, Without, Unsent, SendSqe, DataCqe
  <1>10. \A d \in Bids, g \in Fds : Pends(d, g)' => Pends(d, g) /\ store'[d] = store[d]
    <2> TAKE d \in Bids, g \in Fds
    <2> HAVE Pends(d, g)'
    <2>1. d # b
      BY <1>9
    <2>2. store'[d] = store[d]
      BY <1>2, <1>6, <2>1 DEF TypeOK
    <2> QED
      BY <1>2, <1>3, <1>5, <2>2 DEF Pends
  <1> QED
    BY <1>2, <1>4, <1>10, ReapedCalm

\* The clients: one that leaves has its answer, so nothing of it waits.
LEMMA NetworkCalm ==
    ASSUME TypeOK, OwnerInv, LoopInv, Calm, Polite, Network
    PROVE  Calm'
  <1>1. PICK c \in Conns :
           \/ Connect(c) \/ ClientSend(c) \/ ClientRecv(c)
           \/ ClientShut(c) \/ ClientClose(c) \/ ResetArrives(c)
    BY DEF Network
  <1>2. UNCHANGED <<recvs, num, sends, store, pc, back, sq, cq>>
    BY DEF Network, kernVars, bufVars
  <1>3. GoneInv' /\ UNCHANGED <<owner, taken, echo>> /\ \A d \in Conns : sent[d] <= sent'[d]
    BY <1>1, ClientStreams DEF TypeOK, Calm, LeaveInv
  <1>4. \A d \in Conns : phase'[d] \in {"none", "queued"} => phase[d] \in {"none", "queued"}
    <2>1. \A d \in Conns : phase[d] \in {"open", "done"} => phase'[d] = phase[d]
      BY <1>1, ClientOwner DEF TypeOK
    <2>2. \A d \in Conns : phase[d] \in {"none", "queued", "open", "done"}
      BY DEF TypeOK, SocketsTypeOK
    <2> QED
      BY <2>1, <2>2
  <1>5. \A d \in Conns :
           /\ sent[d] \in Nat /\ taken[d] \in Nat /\ got[d] \in Nat /\ Len(echo[d]) \in Nat
           /\ sent'[d] \in Nat /\ got'[d] \in Nat
           /\ Len(echo[d]) <= taken[d]
    <2> TAKE d \in Conns
    <2>1. /\ sent[d] \in Nat /\ taken[d] \in Nat /\ got[d] \in Nat /\ Len(echo[d]) \in Nat
      BY ConnParts DEF TypeOK
    <2>2. sent'[d] \in Nat /\ got'[d] \in Nat
      BY <1>1, ClientTypes DEF TypeOK, SocketsTypeOK
    <2>3. \A j \in 1..Len(echo[d]) : At(d, j) # 0
      BY <2>1 DEF Calm, PieceInv
    <2>4. Len(echo[d]) <= taken[d]
      BY <2>3, EchoFits DEF Calm
    <2> QED
      BY <2>1, <2>2, <2>4
  <1>6. \A d \in Conns : /\ got[d] <= Len(echo[d]) /\ taken[d] <= sent[d]
                         /\ cl[d] # "up" => got[d] = sent[d]
    BY DEF Calm, LeaveInv
  <1>7. \A d \in Conns : cl'[d] = "up" => cl[d] = "up"
    BY <1>1 DEF Connect, ClientSend, ClientRecv, ClientShut, ClientClose, ResetArrives,
                TypeOK, SocketsTypeOK
  <1>8. LeaveInv'
    <2>1. ASSUME NEW d \in Conns
          PROVE  got'[d] <= Len(echo[d]) /\ (cl'[d] # "up" => got'[d] = sent'[d])
      <3>1. CASE Connect(c) \/ ResetArrives(c)
        BY <1>6, <3>1 DEF Connect, ResetArrives
      <3>2. CASE ClientSend(c)
        <4>1. got' = got /\ cl' = cl /\ cl[c] = "up" /\ \A k \in Conns : k # c => sent'[k] = sent[k]
          BY <3>2 DEF ClientSend, TypeOK, SocketsTypeOK
        <4> QED
          BY <1>6, <4>1
      <3>3. CASE ClientRecv(c)
        <4>1. /\ sent' = sent /\ cl' = cl /\ Len(echo[c]) - got[c] > 0 /\ got'[c] = got[c] + 1
              /\ \A k \in Conns : k # c => got'[k] = got[k]
          BY <3>3 DEF ClientRecv, InFlight, TypeOK, SocketsTypeOK
        <4>2. CASE d # c
          BY <1>6, <4>1, <4>2
        <4>3. CASE d = c
          <5>1. cl[c] = "up"
            BY <1>5, <1>6, <4>1
          <5> QED
            BY <1>5, <4>1, <4>3, <5>1
        <4> QED
          BY <4>2, <4>3
      <3>4. CASE ClientShut(c) \/ ClientClose(c)
        <4>1. /\ got' = got /\ sent' = sent /\ got[c] = sent[c]
              /\ \A k \in Conns : k # c => cl'[k] = cl[k]
          BY <3>4 DEF ClientShut, ClientClose, MayLeave, TypeOK, SocketsTypeOK
        <4> QED
          BY <1>6, <4>1
      <3> QED
        BY <1>1, <3>1, <3>2, <3>3, <3>4
    <2>2. \A d \in Conns : taken[d] <= sent'[d]
      BY <1>3, <1>5, <1>6
    <2> QED
      BY <1>3, <1>4, <2>1, <2>2 DEF Calm, LeaveInv
  <1>9. Entries(sq') = Entries(sq) /\ Entries(cq') = Entries(cq) /\ OpenFds' = OpenFds
    BY <1>2, <1>3 DEF OpenFds
  <1>10. NumberInv'
    BY <1>2, <1>3, <1>9 DEF Calm, NumberInv
  <1>11. PieceInv'
    <2>1. \A b \in Bids, f \in Fds : Pends(b, f)' => Pends(b, f)
      BY <1>2 DEF Pends, Unreaped
    <2> QED
      BY <1>2, <1>3, <2>1, PieceKeep DEF Calm
  <1>12. CqeInv'
    <2>1. \A x \in Entries(cq) : x.op = "recv" => x.fd \in Fds /\ owner[x.fd] \in Conns
      <3>1. \A x \in Entries(cq) : x.op = "recv" => x.fd \in Fds
        BY CalmTypes DEF Cqes
      <3> QED
        BY <3>1, CalmTypes DEF Calm, NumberInv
    <2>2. \A x \in Entries(cq) : x.op = "recv" /\ x.len = 0 => cl'[owner[x.fd]] # "up"
      BY <1>7, <2>1 DEF Calm, CqeInv
    <2> QED
      BY <1>3, <1>9, <2>2 DEF Calm, CqeInv
  <1>13. OrderInv'
    BY <1>2 DEF Calm, OrderInv
  <1>14. ArmOnce'
    <2>1. \A f : Queued(f)' = Queued(f) /\ Accepted(f)' = Accepted(f) /\ Ended(f)' = Ended(f)
      BY <1>2 DEF Queued, Accepted, Ended
    <2> QED
      BY <1>2, <1>3, <1>9, <2>1 DEF Calm, ArmOnce
  <1> QED
    BY <1>8, <1>10, <1>11, <1>12, <1>13, <1>14 DEF Calm

\* A step that moves nothing.
LEMMA SameCalm ==
    ASSUME Calm, UNCHANGED <<sockVars, kernVars, store, sq, cq>>, InHand' = InHand
    PROVE  Calm'
  <1>1. UNCHANGED <<phase, owner, cl, rst, sent, taken, echo, got, recvs, num, sends, store, sq, cq>>
    BY DEF sockVars, kernVars
  <1>2. Unreaped' = Unreaped
    BY <1>1 DEF Unreaped, InHand
  <1>3. Entries(sq') = Entries(sq) /\ Entries(cq') = Entries(cq) /\ OpenFds' = OpenFds
    BY <1>1 DEF OpenFds
  <1>4. PieceInv'
    <2>1. \A b \in Bids, f \in Fds : Pends(b, f)' => Pends(b, f)
      BY <1>1, <1>2 DEF Pends
    <2> QED
      BY <1>1, <2>1, PieceKeep DEF Calm
  <1>5. LeaveInv' /\ NumberInv' /\ CqeInv' /\ OrderInv'
    BY <1>1, <1>3 DEF Calm, LeaveInv, GoneInv, NumberInv, CqeInv, OrderInv
  <1>6. ArmOnce'
    <2>1. \A f : Queued(f)' = Queued(f) /\ Accepted(f)' = Accepted(f) /\ Ended(f)' = Ended(f)
      BY <1>1 DEF Queued, Accepted, Ended
    <2> QED
      BY <1>1, <1>3, <2>1 DEF Calm, ArmOnce
  <1> QED
    BY <1>4, <1>5, <1>6 DEF Calm

\* With empty queues, nothing in the kernel and no connection open there is
\* little to say.
LEMMA IdleCalm ==
    ASSUME TypeOK, PieceInv, LeaveInv, cq' = <<>>, sends' = {}, OpenFds' = {},
           \A s \in Entries(sq') : s.op = "accept",
           \A c \in Conns : recvs'[c] = 0,
           UNCHANGED <<cl, rst, sent, taken, echo, got>>,
           \A c \in Conns : phase'[c] \in {"none", "queued"} => phase[c] = phase'[c],
           pc' \in {"submit", "exit"}
    PROVE  Calm'
  <1>1. Unreaped' = <<>>
    BY DEF Unreaped
  <1>2. \A b \in Bids, f \in Fds : ~Pends(b, f)'
    BY <1>1, HoldsEntries DEF Pends, Entries, SendSqe, DataCqe
  <1>3. PieceInv'
    BY <1>2, PieceKeep
  <1>4. LeaveInv'
    BY DEF LeaveInv, GoneInv
  <1>5. NumberInv' /\ CqeInv' /\ OrderInv' /\ ArmOnce'
    BY DEF NumberInv, CqeInv, OrderInv, ArmOnce, Entries
  <1> QED
    BY <1>3, <1>4, <1>5 DEF Calm

\* Every step keeps the invariant.
LEMMA CalmStep ==
    ASSUME Inv, Calm, Polite, [Next]_uVars, starved' = 0
    PROVE  Calm'
  <1>0. TypeOK /\ OwnerInv /\ LoopInv /\ BufInv
    BY DEF Inv
  <1>1. CASE Boot
    <2>1. /\ cq' = <<>> /\ sends' = {} /\ OpenFds' = {} /\ pc' \in {"submit", "exit"}
          /\ UNCHANGED <<cl, rst, sent, taken, echo, got, phase, recvs>>
      BY <1>0, <1>1 DEF Boot, LoopInv, kernVars, OpenFds
    <2>2. \A s \in Entries(sq') : s.op = "accept"
      <3>1. CASE sq' = <<Sqe("accept", listen_fd, NoBid)>>
        BY <3>1 DEF Entries, Sqe
      <3>2. CASE sq' = sq
        BY <1>0, <1>1, <3>2 DEF Boot, LoopInv, Entries
      <3> QED
        BY <1>1, <3>1, <3>2 DEF Boot
    <2>3. \A c \in Conns : recvs'[c] = 0
      <3> TAKE c \in Conns
      <3>1. recvs[c] \in Nat
        BY <1>0 DEF TypeOK
      <3>2. ~(recvs[c] > 0)
        <4>1. pc = "boot" /\ OpenFds = {}
          BY <1>0, <1>1 DEF Boot, LoopInv
        <4> QED
          BY <1>0, <4>1, SocketsAssumption DEF LoopInv, Calm, NumberInv, OpenFds
      <3> QED
        BY <2>1, <3>1, <3>2
    <2> QED
      BY <1>0, <2>1, <2>2, <2>3, IdleCalm DEF Calm
  <1>2. CASE Kill
    <2>1. /\ cq' = <<>> /\ sends' = {} /\ OpenFds' = {} /\ pc' = "exit" /\ sq' = <<>>
          /\ UNCHANGED <<cl, rst, sent, taken, echo, got>>
          /\ \A c \in Conns : recvs'[c] = 0
      BY <1>0, <1>2, ExitTypes DEF Kill, ProcessExit, TypeOK
    <2>2. \A c \in Conns : phase'[c] \in {"none", "queued"} => phase[c] = phase'[c]
      BY <1>2 DEF Kill, ProcessExit
    <2>3. \A s \in Entries(sq') : s.op = "accept"
      BY <2>1 DEF Entries
    <2> QED
      BY <1>0, <2>1, <2>2, <2>3, IdleCalm DEF Calm
  <1>3. CASE Issued \/ Return \/ Flush \/ EndRound \/ UNCHANGED uVars
    <2>1. UNCHANGED <<sockVars, kernVars, store, sq, cq>> /\ InHand' = InHand
      BY <1>0, <1>3 DEF Issued, Return, Flush, EndRound, uVars, bufVars, InHand, TypeOK
    <2> QED
      BY <2>1, SameCalm
  <1>4. CASE Kernel
    <2>1. CASE CompleteAccept
      <3>1. Up
        BY <2>1 DEF CompleteAccept, Working, Up
      <3> QED
        BY <1>0, <2>1, <3>1, AcceptCalm
    <2>2. CASE CompleteSend
      <3>1. Up
        BY <2>2 DEF CompleteSend, Working, Up
      <3> QED
        BY <1>0, <2>2, <3>1, CompleteSendCalm
    <2>3. ASSUME NEW c \in Conns, CompleteRecv(c)
          PROVE  Calm'
      <3>1. Up
        BY <2>3 DEF CompleteRecv, Working, Up
      <3> QED
        BY <1>0, <2>3, <3>1, RecvCalm
    <2> QED
      BY <1>4, <2>1, <2>2, <2>3 DEF Kernel
  <1>5. CASE ReapAccept \/ ReapRecv \/ Rearm \/ ReapEof \/ ReapSend
    BY <1>0, <1>5, ReapAcceptCalm, ReapRecvCalm, RearmCalm, ReapEofCalm, ReapSendCalm
  <1> QED
    BY <1>0, <1>1, <1>2, <1>3, <1>4, <1>5, IssueCalm, NetworkCalm DEF Next, Submit, Loop

\* At first nothing waits.
LEMMA CalmInit == Init => Calm
  <1> SUFFICES ASSUME Init PROVE Calm
    OBVIOUS
  <1>1. OpenFds = {} /\ sq = <<>> /\ cq = <<>> /\ sends = {} /\ Unreaped = <<>>
    BY SocketsStart DEF Init, Unreaped
  <1>2. \A b \in Bids, f \in Fds : ~Pends(b, f)
    BY <1>1, HoldsEntries DEF Pends, Entries, SendSqe, DataCqe
  <1>3. \A c \in Conns : echo[c] = <<>> /\ Len(echo[c]) = 0
    BY DEF Init, SocketsInit
  <1>4. PieceInv
    BY <1>2, <1>3 DEF PieceInv
  <1>5. LeaveInv
    BY <1>3 DEF Init, SocketsInit, LeaveInv, GoneInv
  <1>6. NumberInv /\ CqeInv /\ OrderInv /\ ArmOnce
    BY <1>1 DEF Init, NumberInv, CqeInv, OrderInv, ArmOnce, Entries
  <1> QED
    BY <1>4, <1>5, <1>6 DEF Calm

\* The number of times the ring was found empty only grows.
LEMMA StarvedGrows ==
    ASSUME TypeOK, [Next]_uVars
    PROVE  starved' = 0 => starved = 0
  <1>1. starved' = starved \/ starved' = starved + 1
    BY DEF Next, Submit, Kernel, Loop, Boot, Kill, Issue, Issued, Return, Flush, EndRound,
           CompleteAccept, CompleteRecv, CompleteSend, ReapAccept, ReapRecv, Rearm,
           ReapEof, ReapSend, Network, uVars, statVars
  <1> QED
    BY <1>1 DEF TypeOK

\* As long as the ring of buffers was never found empty there is at most one
\* recv for a connection, in the kernel and in the submission queue, although
\* it is armed from three places and the kernel may end it at any time: the
\* end of a stream completes once, and its number is closed once.
THEOREM OneRecvEach ==
    ASSUME Polite
    PROVE  Spec => [](starved = 0 => OneRecv)
  <1> DEFINE J == Inv /\ (starved = 0 => Calm)
  <1>1. Init => J
    BY InvInit, CalmInit
  <1>2. J /\ [Next]_uVars => J'
    <2> SUFFICES ASSUME J, [Next]_uVars PROVE J'
      OBVIOUS
    <2>1. Inv'
      BY TypeStep, OwnerStep, LoopStep, BufStep, ArmStep DEF Inv
    <2>2. starved' = 0 => starved = 0
      BY StarvedGrows DEF Inv
    <2>3. starved' = 0 => Calm'
      BY <2>2, CalmStep
    <2> QED
      BY <2>1, <2>3
  <1>3. J => (starved = 0 => OneRecv)
    <2> SUFFICES ASSUME J, starved = 0, NEW f \in OpenFds
                 PROVE  recvs[owner[f]]
                           + Cardinality({i \in DOMAIN sq : sq[i].op = "recv" /\ sq[i].fd = f}) <= 1
      BY DEF OneRecv, Count
    <2>1. {i \in DOMAIN sq : sq[i].op = "recv" /\ sq[i].fd = f}
             = Matches(sq, {s \in Sqes : s.op = "recv" /\ s.fd = f})
      BY DEF Inv, TypeOK, Matches
    <2>2. recvs[owner[f]] + Queued(f) + Accepted(f) + Ended(f) <= 1
      BY DEF Calm, ArmOnce
    <2>3. /\ recvs[owner[f]] \in Nat /\ Queued(f) \in Nat
          /\ Accepted(f) \in Nat /\ Ended(f) \in Nat
      BY CalmTypes DEF Inv, TypeOK
    <2>4. Cardinality({i \in DOMAIN sq : sq[i].op = "recv" /\ sq[i].fd = f}) = Queued(f)
      BY <2>1 DEF Queued
    <2>5. recvs[owner[f]] + Queued(f) <= 1
      BY <2>2, <2>3
    <2> QED
      BY <2>4, <2>5
  <1> QED
    BY <1>1, <1>2, <1>3, PTL DEF Spec

-----------------------------------------------------------------------------
(* What is echoed, when the answers fit the socket.                        *)

\* Every two entries of q are related by R, in their order.
Sorted(q, R) == \A i, j \in 1..Len(q) : i < j => <<q[i], q[j]>> \in R

\* An entry at the end that comes after all others keeps the order, ...
LEMMA SortedAppend ==
    ASSUME NEW S, NEW q \in Seq(S), NEW e \in S, NEW R, NEW Q, Sorted(q, R),
           \A x, y \in Entries(q) : <<x, y>> \in R => <<x, y>> \in Q,
           \A x \in Entries(q) : <<x, e>> \in Q
    PROVE  Sorted(Append(q, e), Q)
  <1>1. /\ Len(q) \in Nat /\ Len(Append(q, e)) = Len(q) + 1
        /\ Append(q, e)[Len(q) + 1] = e
        /\ \A i \in 1..Len(q) : Append(q, e)[i] = q[i] /\ q[i] \in Entries(q)
    BY DEF Entries
  <1>2. ASSUME NEW i \in 1..(Len(q) + 1), NEW j \in 1..(Len(q) + 1), i < j
        PROVE  <<Append(q, e)[i], Append(q, e)[j]>> \in Q
    <2>1. i \in 1..Len(q)
      BY <1>1, <1>2
    <2>2. CASE j = Len(q) + 1
      BY <1>1, <2>1, <2>2
    <2>3. CASE j \in 1..Len(q)
      <3>1. <<q[i], q[j]>> \in R
        BY <1>2, <2>1, <2>3 DEF Sorted
      <3> QED
        BY <1>1, <2>1, <2>3, <3>1
    <2>4. j = Len(q) + 1 \/ j \in 1..Len(q)
      BY <1>1
    <2> QED
      BY <2>2, <2>3, <2>4
  <1> QED
    BY <1>1, <1>2 DEF Sorted

\* ... so does taking the first one, which came before the others, ...
LEMMA SortedTail ==
    ASSUME NEW S, NEW q \in Seq(S), q # <<>>, NEW R, NEW Q, Sorted(q, R),
           \A x, y \in Entries(Tail(q)) : <<x, y>> \in R => <<x, y>> \in Q
    PROVE  /\ Sorted(Tail(q), Q)
           /\ \A x \in Entries(Tail(q)) : <<Head(q), x>> \in R
  <1>1. /\ Len(q) \in Nat /\ Len(q) >= 1 /\ Len(Tail(q)) = Len(q) - 1
        /\ DOMAIN Tail(q) = 1..(Len(q) - 1)
        /\ \A i \in 1..(Len(q) - 1) : /\ Tail(q)[i] = q[i + 1] /\ i + 1 \in 1..Len(q)
                                      /\ 1 < i + 1
        /\ Head(q) = q[1] /\ 1 \in 1..Len(q)
    OBVIOUS
  <1>2. \A i \in 1..(Len(q) - 1) : Tail(q)[i] \in Entries(Tail(q))
    BY <1>1 DEF Entries
  <1>3. ASSUME NEW i \in 1..(Len(q) - 1), NEW j \in 1..(Len(q) - 1), i < j
        PROVE  <<Tail(q)[i], Tail(q)[j]>> \in Q
    <2>1. i + 1 \in 1..Len(q) /\ j + 1 \in 1..Len(q) /\ i + 1 < j + 1
      BY <1>1, <1>3
    <2>2. <<q[i + 1], q[j + 1]>> \in R
      BY <2>1 DEF Sorted
    <2>3. <<Tail(q)[i], Tail(q)[j]>> \in R
      BY <1>1, <2>2
    <2> QED
      BY <1>2, <2>3
  <1>4. ASSUME NEW x \in Entries(Tail(q))
        PROVE  <<Head(q), x>> \in R
    <2>1. PICK i \in 1..(Len(q) - 1) : x = Tail(q)[i]
      BY <1>1 DEF Entries
    <2>2. <<q[1], q[i + 1]>> \in R
      BY <1>1, <2>1 DEF Sorted
    <2> QED
      BY <1>1, <2>1, <2>2
  <1> QED
    BY <1>1, <1>3, <1>4 DEF Sorted

\* ... and a weaker relation.
LEMMA SortedKeep ==
    ASSUME NEW q, NEW R, NEW Q, Sorted(q, R), DOMAIN q = 1..Len(q),
           \A x, y \in Entries(q) : <<x, y>> \in R => <<x, y>> \in Q
    PROVE  Sorted(q, Q)
  BY DEF Sorted, Entries

\* Data of one connection waits in the order in which it was received.
Data(e) == e.op = "recv" /\ e.len > 0
SqOrder ==
    {p \in Sqes \X Sqes :
        p[1].op = "send" /\ p[2].op = "send" /\ p[1].fd = p[2].fd
            => Hi(p[1].bid) <= Lo(p[2].bid)}
CqOrder ==
    {p \in Cqes \X Cqes :
        Data(p[1]) /\ Data(p[2]) /\ p[1].fd = p[2].fd
            => Hi(p[1].bid) <= Lo(p[2].bid)}

SortInv ==
    /\ Sorted(sq, SqOrder)
    /\ Sorted(Unreaped, CqOrder)
    /\ \A x \in Entries(sq), y \in Entries(Unreaped) :
          x.op = "send" /\ Data(y) /\ x.fd = y.fd => Hi(x.bid) <= Lo(y.bid)

\* All that was received and is not yet echoed waits.
CoverInv ==
    \A f \in OpenFds : \A k \in (Len(echo[owner[f]]) + 1)..taken[owner[f]] :
        \E b \in Bids : Pends(b, f) /\ Lo(b) < k /\ k <= Hi(b)

\* The echo is the beginning of what was sent, and the rest fits the socket.
AnswerInv ==
    \A c \in Conns : echo[c] = Bytes(c, 0, Len(echo[c])) /\ sent[c] - got[c] <= SndCap

Fifo == sends = {} /\ SortInv /\ CoverInv /\ AnswerInv

\* The assumptions: what a client may have outstanding fits the socket, and
\* no descriptor is out of range.
AnswersFit == IF Lockstep THEN ReqMax <= SndCap ELSE Window <= SndCap
Enough == \A f \in Fds : f < MAX_FDS

\* The send that is issued next continues the echo, and goes out whole.
LEMMA FirstInLine ==
    ASSUME TypeOK, OwnerInv, LoopInv, Calm, Fifo, sq # <<>>,
           NEW b \in Bids, NEW f \in Fds, Head(sq) \in SendSqe(b, f)
    PROVE  /\ Lo(b) = Len(echo[owner[f]])
           /\ Writable(owner[f])
           /\ WriteLen(owner[f], store[b]) = Len(store[b])
  <1>1. PICK s, c, n, t :
           s = Head(sq) /\ c = owner[f] /\ n = Len(echo[c]) /\ t = taken[c]
    OBVIOUS
  <1>2. /\ Entries(sq) = Entries(Tail(sq)) \cup {s} /\ s \in Entries(sq) /\ s \in Sqes
        /\ s.op = "send" /\ s.fd = f /\ s.bid = b
    BY <1>1, EntriesTail DEF TypeOK, SendSqe
  <1>3. Pends(b, f)
    <2>1. Holds(sq, SendSqe(b, f))
      BY <1>1, <1>2, HoldsEntries
    <2> QED
      BY <2>1 DEF Pends
  <1>4. /\ c \in Conns /\ Lo(b) \in Nat /\ Hi(b) \in Nat /\ Lo(b) < Hi(b) /\ Hi(b) <= t
        /\ store[b] \in Seq(Byte) /\ Len(store[b]) \in Nat \ {0}
        /\ n \in Nat /\ t \in Nat /\ sent[c] \in Nat /\ got[c] \in Nat
    <2>1. c \in Conns
      BY <1>1, <1>3, PieceOwner DEF Calm
    <2>2. n \in Nat /\ t \in Nat /\ sent[c] \in Nat /\ got[c] \in Nat
      BY <1>1, <2>1, ConnParts DEF TypeOK
    <2> QED
      BY <1>1, <1>3, <2>1, <2>2, PieceOwner DEF Calm
  <1>5. f \in OpenFds
    BY <1>1, <1>4, SocketsAssumption DEF OpenFds
  <1>6. \A j \in 1..n : At(c, j) = j
    <2> TAKE j \in 1..n
    <2>1. echo[c] = Bytes(c, 0, n)
      BY <1>1, <1>4 DEF Fifo, AnswerInv
    <2>2. echo[c][j] = <<c, 0 + j>>
      BY <2>1 DEF Bytes
    <2> QED
      BY <1>4, <2>2 DEF At
  \* What waits begins behind the echo.
  <1>7. ASSUME NEW d \in Bids, Pends(d, f)
        PROVE  Lo(d) \in Nat /\ Hi(d) \in Nat /\ Lo(d) < Hi(d) /\ n <= Lo(d)
    <2>1. /\ Lo(d) \in Nat /\ Hi(d) \in Nat /\ Lo(d) < Hi(d)
          /\ \A j \in 1..n : ~(Lo(d) < At(c, j) /\ At(c, j) <= Hi(d))
      BY <1>1, <1>7, PieceOwner DEF Calm, PieceInv
    <2>2. CASE Lo(d) < n
      <3>1. Lo(d) + 1 \in 1..n
        BY <1>4, <2>1, <2>2
      <3>2. At(c, Lo(d) + 1) = Lo(d) + 1
        BY <1>6, <3>1
      <3> QED
        BY <2>1, <3>1, <3>2
    <2> QED
      BY <1>4, <2>1, <2>2
  <1>8. n + 1 \in (n + 1)..t
    BY <1>3, <1>4, <1>7
  <1>9. PICK d \in Bids : Pends(d, f) /\ Lo(d) < n + 1 /\ n + 1 <= Hi(d)
    BY <1>1, <1>5, <1>8 DEF Fifo, CoverInv
  <1>10. Lo(d) = n
    BY <1>4, <1>7, <1>9
  \* It is the data that was first in line.
  <1>11. d = b
    <2> SUFFICES ASSUME d # b PROVE FALSE
      OBVIOUS
    <2>1. CASE Holds(sq, SendSqe(d, f))
      <3>1. PICK x \in Entries(sq) : x \in SendSqe(d, f)
        BY <2>1, HoldsEntries
      <3>2. x \in Entries(Tail(sq)) /\ x \in Sqes /\ x.op = "send" /\ x.fd = f /\ x.bid = d
        BY <1>2, <3>1 DEF SendSqe
      <3>3. <<s, x>> \in SqOrder
        <4>1. \A y \in Entries(Tail(sq)) : <<Head(sq), y>> \in SqOrder
          BY SortedTail DEF TypeOK, Fifo, SortInv
        <4> QED
          BY <1>1, <3>2, <4>1
      <3>4. Hi(b) <= Lo(d)
        BY <1>2, <3>2, <3>3 DEF SqOrder
      <3> QED
        BY <1>3, <1>4, <1>7, <1>10, <3>4
    <2>2. CASE Holds(Unreaped, DataCqe(d, f))
      <3>1. PICK y \in Entries(Unreaped) : y \in DataCqe(d, f)
        BY <2>2, HoldsEntries
      <3>2. Data(y) /\ y.fd = f /\ y.bid = d
        <4>1. y \in Cqes /\ y.op = "recv" /\ y.fd = f /\ y.bid = d /\ d # NoBid
          BY <3>1, UringOptAssumption DEF DataCqe, NoBid
        <4> QED
          BY <4>1 DEF Cqes, Data
      <3>3. Hi(b) <= Lo(d)
        BY <1>2, <3>1, <3>2 DEF Fifo, SortInv
      <3> QED
        BY <1>3, <1>4, <1>7, <1>10, <3>3
    <2> QED
      BY <1>9, <2>1, <2>2 DEF Pends, Fifo
  <1>12. Space(c) \in Int /\ Space(c) >= Len(store[b])
    <2>1. Hi(b) = n + Len(store[b]) /\ t <= sent[c] /\ sent[c] - got[c] <= SndCap
      BY <1>1, <1>4, <1>10, <1>11 DEF Hi, Calm, LeaveInv, Fifo, AnswerInv
    <2>2. Space(c) = SndCap - (n - got[c])
      BY <1>1 DEF Space, InFlight
    <2>3. PICK m, u, g : m = Len(store[b]) /\ u = sent[c] /\ g = got[c]
      OBVIOUS
    <2>4. m \in Nat /\ n \in Nat /\ t \in Nat /\ u \in Nat /\ g \in Nat /\ SndCap \in Nat
      BY <1>4, <2>3, SocketsAssumption
    <2>5. n + m <= t /\ t <= u /\ u - g <= SndCap
      BY <1>4, <2>1, <2>3
    <2>6. SndCap - (n - g) >= m /\ SndCap - (n - g) \in Int
      BY <2>4, <2>5
    <2> QED
      BY <2>2, <2>3, <2>6
  <1>13. WriteLen(c, store[b]) = Len(store[b]) /\ Writable(c)
    BY <1>4, <1>12 DEF WriteLen, Lesser, Writable
  <1> QED
    BY <1>1, <1>10, <1>11, <1>13

\* What waits in the two queues.
LEMMA Waiting ==
    ASSUME TypeOK, LoopInv
    PROVE  /\ \A x \in Entries(sq) : x.op = "send" =>
                 x.bid \in Bids /\ x.fd \in Fds /\ Pends(x.bid, x.fd)
           /\ \A y \in Entries(Unreaped) : Data(y) =>
                 y.bid \in Bids /\ y.fd \in Fds /\ Pends(y.bid, y.fd)
  <1>1. ASSUME NEW x \in Entries(sq), x.op = "send"
        PROVE  x.bid \in Bids /\ x.fd \in Fds /\ Pends(x.bid, x.fd)
    <2>1. x \in Sqes
      BY CalmTypes
    <2>2. x.bid \in Bids /\ x.fd \in Fds /\ x \in SendSqe(x.bid, x.fd)
      BY <1>1, <2>1 DEF Sqes, SendSqe
    <2> QED
      BY <2>2, HoldsEntries DEF Pends
  <1>2. ASSUME NEW y \in Entries(Unreaped), Data(y)
        PROVE  y.bid \in Bids /\ y.fd \in Fds /\ Pends(y.bid, y.fd)
    <2>1. y \in Cqes
      BY CalmTypes
    <2>2. y.bid \in Bids /\ y.fd \in Fds /\ y \in DataCqe(y.bid, y.fd)
      BY <1>2, <2>1 DEF Cqes, DataCqe, Data
    <2> QED
      BY <2>2, HoldsEntries DEF Pends
  <1> QED
    BY <1>1, <1>2

\* A queue loses its first entry, or gets one that is not data.
LEMMA SortKeep ==
    ASSUME TypeOK, LoopInv, SortInv,
           \/ sq' = sq
           \/ sq # <<>> /\ sq' = Tail(sq)
           \/ \E s \in Sqes : s.op # "send" /\ sq' = Append(sq, s),
           \/ Unreaped' = Unreaped
           \/ Unreaped # <<>> /\ Unreaped' = Tail(Unreaped)
           \/ \E e \in Cqes : ~Data(e) /\ Unreaped' = Append(Unreaped, e),
           \A b \in Bids, f \in Fds : Pends(b, f) /\ Pends(b, f)' => store'[b] = store[b]
    PROVE  SortInv'
  <1> DEFINE U == Unreaped
  <1>1. /\ sq \in Seq(Sqes) /\ U \in Seq(Cqes)
        /\ DOMAIN sq = 1..Len(sq) /\ DOMAIN U = 1..Len(U)
        /\ Entries(sq) \subseteq Sqes /\ Entries(U) \subseteq Cqes
    BY CalmTypes, UnreapedType DEF TypeOK
  <1>2. \A b : store'[b] = store[b] => Lo(b)' = Lo(b) /\ Hi(b)' = Hi(b)
    BY DEF Lo, Hi
  \* What still waits has kept its place in the stream.
  <1>3. ASSUME NEW x \in Entries(sq), x \in Entries(sq'), x.op = "send"
        PROVE  Lo(x.bid)' = Lo(x.bid) /\ Hi(x.bid)' = Hi(x.bid)
    <2>1. x.bid \in Bids /\ x.fd \in Fds /\ Pends(x.bid, x.fd)
      BY <1>3, Waiting
    <2>2. x \in SendSqe(x.bid, x.fd)
      BY <1>1, <1>3 DEF SendSqe
    <2>3. Pends(x.bid, x.fd)'
      BY <1>3, <2>2, HoldsEntries DEF Pends
    <2> QED
      BY <1>2, <2>1, <2>3
  <1>4. ASSUME NEW y \in Entries(U), y \in Entries(U'), Data(y)
        PROVE  Lo(y.bid)' = Lo(y.bid) /\ Hi(y.bid)' = Hi(y.bid)
    <2>1. y.bid \in Bids /\ y.fd \in Fds /\ Pends(y.bid, y.fd)
      BY <1>4, Waiting
    <2>2. y \in DataCqe(y.bid, y.fd)
      BY <1>1, <1>4 DEF DataCqe, Data
    <2>3. Pends(y.bid, y.fd)'
      BY <1>4, <2>2, HoldsEntries DEF Pends
    <2> QED
      BY <1>2, <2>1, <2>3
  <1>5. ASSUME NEW x \in Entries(sq), NEW y \in Entries(sq), x \in Entries(sq'), y \in Entries(sq'),
               <<x, y>> \in SqOrder
        PROVE  <<x, y>> \in SqOrder'
    BY <1>1, <1>3, <1>5 DEF SqOrder
  <1>6. ASSUME NEW x \in Entries(U), NEW y \in Entries(U), x \in Entries(U'), y \in Entries(U'),
               <<x, y>> \in CqOrder
        PROVE  <<x, y>> \in CqOrder'
    BY <1>1, <1>4, <1>6 DEF CqOrder
  <1> HIDE DEF U
  <1>7. Sorted(sq, SqOrder) /\ Sorted(U, CqOrder)
    BY DEF SortInv, U
  <1>8. Sorted(sq', SqOrder') /\ \A x \in Entries(sq') : x.op = "send" => x \in Entries(sq)
    <2>1. CASE sq' = sq
      BY <1>1, <1>5, <1>7, <2>1, SortedKeep
    <2>2. CASE sq # <<>> /\ sq' = Tail(sq)
      <3>1. Entries(sq') \subseteq Entries(sq)
        BY <1>1, <2>2, EntriesTail
      <3>2. \A x, y \in Entries(sq') : <<x, y>> \in SqOrder => <<x, y>> \in SqOrder'
        BY <1>5, <3>1
      <3>3. Sorted(Tail(sq), SqOrder')
        BY <1>1, <1>7, <2>2, <3>2, SortedTail
      <3> QED
        BY <2>2, <3>1, <3>3
    <2>3. ASSUME NEW s \in Sqes, s.op # "send", sq' = Append(sq, s)
          PROVE  Sorted(sq', SqOrder') /\ \A x \in Entries(sq') : x.op = "send" => x \in Entries(sq)
      <3>1. Entries(sq') = Entries(sq) \cup {s}
        BY <1>1, <2>3, EntriesAppend
      <3>2. \A x, y \in Entries(sq) : <<x, y>> \in SqOrder => <<x, y>> \in SqOrder'
        BY <1>5, <3>1
      <3>3. \A x \in Entries(sq) : <<x, s>> \in SqOrder'
        BY <1>1, <2>3 DEF SqOrder
      <3>4. Sorted(Append(sq, s), SqOrder')
        BY <1>1, <1>7, <3>2, <3>3, SortedAppend
      <3> QED
        BY <2>3, <3>1, <3>4
    <2> QED
      BY <2>1, <2>2, <2>3
  <1>9. Sorted(U', CqOrder') /\ \A y \in Entries(U') : Data(y) => y \in Entries(U)
    <2>1. CASE U' = U
      BY <1>1, <1>6, <1>7, <2>1, SortedKeep
    <2>2. CASE U # <<>> /\ U' = Tail(U)
      <3>1. Entries(U') \subseteq Entries(U)
        BY <1>1, <2>2, EntriesTail
      <3>2. \A x, y \in Entries(U') : <<x, y>> \in CqOrder => <<x, y>> \in CqOrder'
        BY <1>6, <3>1
      <3>3. Sorted(Tail(U), CqOrder')
        BY <1>1, <1>7, <2>2, <3>2, SortedTail
      <3> QED
        BY <2>2, <3>1, <3>3
    <2>3. ASSUME NEW e \in Cqes, ~Data(e), U' = Append(U, e)
          PROVE  Sorted(U', CqOrder') /\ \A y \in Entries(U') : Data(y) => y \in Entries(U)
      <3>1. Entries(U') = Entries(U) \cup {e}
        BY <1>1, <2>3, EntriesAppend
      <3>2. \A x, y \in Entries(U) : <<x, y>> \in CqOrder => <<x, y>> \in CqOrder'
        BY <1>6, <3>1
      <3>3. \A x \in Entries(U) : <<x, e>> \in CqOrder'
        BY <1>1, <2>3 DEF CqOrder
      <3>4. Sorted(Append(U, e), CqOrder')
        BY <1>1, <1>7, <3>2, <3>3, SortedAppend
      <3> QED
        BY <2>3, <3>1, <3>4
    <2> QED
      BY <2>1, <2>2, <2>3 DEF U
  <1>10. \A x \in Entries(sq'), y \in Entries(U') :
            x.op = "send" /\ Data(y) /\ x.fd = y.fd => Hi(x.bid)' <= Lo(y.bid)'
    <2> TAKE x \in Entries(sq'), y \in Entries(U')
    <2> HAVE x.op = "send" /\ Data(y) /\ x.fd = y.fd
    <2>1. x \in Entries(sq) /\ y \in Entries(U)
      BY <1>8, <1>9
    <2>2. Hi(x.bid) <= Lo(y.bid)
      BY <2>1 DEF SortInv, U
    <2> QED
      BY <1>3, <1>4, <2>1, <2>2
  <1> QED
    BY <1>8, <1>9, <1>10 DEF SortInv, U, Data

\* Nothing is received or echoed.
LEMMA FifoKeep ==
    ASSUME TypeOK, LoopInv, Fifo,
           \/ sq' = sq
           \/ sq # <<>> /\ sq' = Tail(sq)
           \/ \E s \in Sqes : s.op # "send" /\ sq' = Append(sq, s),
           \/ Unreaped' = Unreaped
           \/ Unreaped # <<>> /\ Unreaped' = Tail(Unreaped)
           \/ \E e \in Cqes : ~Data(e) /\ Unreaped' = Append(Unreaped, e),
           \A b \in Bids, f \in Fds : Pends(b, f) /\ Pends(b, f)' => store'[b] = store[b],
           UNCHANGED <<sends, echo, taken>>,
           \A c \in Conns : sent'[c] - got'[c] <= SndCap,
           \A f \in OpenFds' :
              \/ taken[owner'[f]] = 0
              \/ /\ f \in OpenFds /\ owner'[f] = owner[f]
                 /\ \A b \in Bids : Pends(b, f) => Pends(b, f)',
           \A f \in OpenFds' : f \in Fds /\ owner'[f] \in Conns
    PROVE  Fifo'
  <1>1. SortInv'
    BY SortKeep DEF Fifo
  <1>2. ASSUME NEW f \in OpenFds', NEW k \in (Len(echo'[owner'[f]]) + 1)..taken'[owner'[f]]
        PROVE  \E b \in Bids : Pends(b, f)' /\ Lo(b)' < k /\ k <= Hi(b)'
    <2>1. PICK c \in Conns : c = owner'[f] /\ f \in Fds
      BY <1>2
    <2>2. k \in (Len(echo[c]) + 1)..taken[c] /\ Len(echo[c]) \in Nat
      BY <1>2, <2>1, ConnParts DEF TypeOK
    <2>3. taken[c] # 0
      BY <2>2
    <2>4. f \in OpenFds /\ c = owner[f] /\ \A b \in Bids : Pends(b, f) => Pends(b, f)'
      BY <2>1, <2>3
    <2>5. PICK b \in Bids : Pends(b, f) /\ Lo(b) < k /\ k <= Hi(b)
      BY <2>2, <2>4 DEF Fifo, CoverInv
    <2>6. Pends(b, f)' /\ store'[b] = store[b]
      BY <2>1, <2>4, <2>5
    <2>7. Lo(b)' = Lo(b) /\ Hi(b)' = Hi(b)
      BY <2>6 DEF Lo, Hi
    <2> QED
      BY <2>5, <2>6, <2>7
  <1>3. CoverInv'
    BY <1>2 DEF CoverInv
  <1>4. AnswerInv'
    BY DEF Fifo, AnswerInv
  <1> QED
    BY <1>1, <1>3, <1>4 DEF Fifo

\* The kernel issues an SQE: a send continues the echo.
LEMMA IssueFifo ==
    ASSUME TypeOK, OwnerInv, LoopInv, Calm, Fifo, Issue
    PROVE  Fifo'
  <1>1. PICK s : s = Head(sq)
    OBVIOUS
  <1>2. /\ sq # <<>> /\ sq' = Tail(sq)
        /\ UNCHANGED <<pc, back, owner, phase, cl, rst, sent, taken, got, store>>
    BY DEF Issue, bufVars
  <1>3. /\ s \in Sqes /\ s \in Entries(sq)
        /\ \A P : Holds(sq, P) <=> Holds(sq', P) \/ s \in P
    BY <1>1, <1>2, SqTaken
  <1>4. s.op # "accept" => s.fd \in Fds /\ owner[s.fd] \in Conns /\ owner[s.fd] # NoConn
    <2>1. s.op # "accept" => s.fd \in Fds /\ owner[s.fd] # NoConn
      BY <1>3 DEF Sqes, Calm, NumberInv
    <2> QED
      BY <2>1 DEF TypeOK, SocketsTypeOK
  <1>5. s.op \in {"accept", "recv", "send"} /\ (s.op = "send" => s.bid \in Bids)
    BY <1>3 DEF Sqes, Ops
  <1>6. OpenFds' = OpenFds /\ \A f \in OpenFds' : f \in Fds /\ owner'[f] \in Conns
    <2>1. OpenFds' = OpenFds
      BY <1>2 DEF OpenFds
    <2> QED
      BY <1>2, <2>1, CalmTypes
  <1>7. CASE s.op # "send"
    <2>1. UNCHANGED <<cq, echo, sends>>
      BY <1>1, <1>4, <1>5, <1>7 DEF Issue
    <2>2. Unreaped' = Unreaped
      BY <1>2, <2>1 DEF Unreaped
    <2>3. \A b \in Bids, f \in Fds : Pends(b, f) => Pends(b, f)'
      <3>1. \A b \in Bids, f \in Fds : s \notin SendSqe(b, f)
        BY <1>7 DEF SendSqe
      <3> QED
        BY <1>3, <2>1, <2>2, <3>1 DEF Pends
    <2>4. \A c \in Conns : sent'[c] - got'[c] <= SndCap
      BY <1>2 DEF Fifo, AnswerInv
    <2>5. \A f \in OpenFds' : /\ f \in OpenFds /\ owner'[f] = owner[f]
                              /\ \A b \in Bids : Pends(b, f) => Pends(b, f)'
      BY <1>2, <1>6, <2>3
    <2> QED
      BY <1>2, <1>6, <2>1, <2>2, <2>4, <2>5, FifoKeep
  <1>8. CASE s.op = "send"
    <2>1. PICK c, f, b, n, m : /\ c = owner[s.fd] /\ f = s.fd /\ b = s.bid
                               /\ n = Len(echo[c]) /\ m = Len(store[b])
      OBVIOUS
    <2>2. /\ c \in Conns /\ f \in Fds /\ b \in Bids /\ c # NoConn /\ f \in OpenFds
          /\ \A g \in OpenFds : owner[g] = c => g = f
      BY <1>4, <1>5, <1>8, <2>1 DEF OwnerInv, OpenFds
    <2>3. s \in SendSqe(b, f) /\ Pends(b, f)
      BY <1>3, <1>8, <2>1 DEF SendSqe, Pends
    <2>4. Lo(b) = n /\ Writable(c) /\ WriteLen(c, store[b]) = m
      BY <1>1, <1>2, <2>1, <2>2, <2>3, FirstInLine
    <2>5. ~rst[c]
      BY <2>1, <2>2, <2>3, SendBehind
    <2>6. Transmit(c, f, b) /\ sends' = sends
      BY <1>1, <1>8, <2>1, <2>2, <2>4 DEF Issue
    <2>7. PICK e : e = Cqe("send", f, b, "ok", m, FALSE)
      OBVIOUS
    <2>8. /\ echo' = [echo EXCEPT ![c] = @ \o SubSeq(store[b], 1, m)]
          /\ cq' = Append(cq, e)
      BY <2>4, <2>5, <2>6, <2>7 DEF Transmit, Post, Write
    <2>9. /\ n \in Nat /\ m \in Nat /\ echo[c] \in Seq(Byte) /\ store[b] \in Seq(Byte)
          /\ store[b] = Bytes(c, n, m) /\ echo[c] = Bytes(c, 0, n) /\ Hi(b) = n + m
      <3>1. n \in Nat /\ echo[c] \in Seq(Byte)
        BY <2>1, <2>2, ConnParts DEF TypeOK
      <3>2. store[b] \in Seq(Byte) /\ m \in Nat /\ Piece(b, c)
        BY <2>1, <2>2, <2>3, PieceOwner DEF Calm
      <3> QED
        BY <2>1, <2>2, <2>4, <3>1, <3>2 DEF Piece, Hi, Fifo, AnswerInv
    <2>10. /\ echo'[c] = Bytes(c, 0, n + m) /\ Len(echo'[c]) = n + m
           /\ \A d \in Conns : d # c => echo'[d] = echo[d]
      <3>1. /\ echo'[c] = echo[c] \o SubSeq(store[b], 1, m)
            /\ \A d \in Conns : d # c => echo'[d] = echo[d]
        BY <2>2, <2>8 DEF TypeOK, SocketsTypeOK
      <3>2. SubSeq(store[b], 1, m) = store[b]
        <4>1. PICK w : w = store[b]
          OBVIOUS
        <4>2. w \in Seq(Byte) /\ m = Len(w)
          BY <2>1, <2>9, <4>1
        <4>3. SubSeq(w, 1, Len(w)) = w
          BY <4>2
        <4> QED
          BY <4>1, <4>2, <4>3, Zenon
      <3>3. Bytes(c, 0, n) \o Bytes(c, 0 + n, m) = Bytes(c, 0, n + m) /\ 0 + n = n
        <4>1. 0 \in Nat /\ 0 + n = n
          BY <2>9
        <4> QED
          BY <2>2, <2>9, <4>1, BytesConcat, Zenon
      <3>4. echo'[c] = Bytes(c, 0, n + m)
        BY <2>9, <3>1, <3>2, <3>3, Zenon
      <3>5. Len(Bytes(c, 0, n + m)) = n + m
        <4>1. n + m \in Nat
          BY <2>9
        <4> QED
          BY <2>2, <4>1, BytesType
      <3> QED
        BY <3>1, <3>4, <3>5
    <2>11. e \in Cqes /\ ~Data(e)
      BY <2>2, <2>7, <2>9, CqeTypes DEF Cqe, Data
    <2>12. /\ Unreaped' = Append(Unreaped, e)
           /\ \A P : Holds(Unreaped', P) <=> Holds(Unreaped, P) \/ e \in P
      BY <1>2, <2>8, <2>11, UnreapedPost
    <2>13. SortInv'
      BY <1>2, <2>11, <2>12, SortKeep DEF Fifo
    <2>14. CoverInv'
      <3> SUFFICES ASSUME NEW g \in OpenFds, NEW k \in (Len(echo'[owner[g]]) + 1)..taken[owner[g]]
                   PROVE  \E d \in Bids : Pends(d, g)' /\ Lo(d) < k /\ k <= Hi(d)
        <4>1. \A d : Lo(d)' = Lo(d) /\ Hi(d)' = Hi(d)
          BY <1>2 DEF Lo, Hi
        <4> QED
          BY <1>2, <1>6, <4>1 DEF CoverInv
      <3>1. g \in Fds /\ owner[g] \in Conns /\ Len(echo[owner[g]]) \in Nat /\ taken[owner[g]] \in Nat
        BY CalmTypes, ConnParts DEF TypeOK
      <3>2. k \in (Len(echo[owner[g]]) + 1)..taken[owner[g]] /\ (g = f => k > Hi(b))
        <4>1. CASE g = f
          <5>1. owner[g] = c /\ Len(echo[c]) = n /\ taken[c] \in Nat /\ Hi(b) = n + m
            BY <2>1, <2>9, <3>1, <4>1
          <5>2. k \in (n + m + 1)..taken[c]
            BY <2>10, <5>1
          <5>3. k \in (n + 1)..taken[c] /\ k > n + m
            BY <2>9, <5>1, <5>2
          <5> QED
            BY <5>1, <5>3
        <4>2. CASE g # f
          BY <2>2, <2>10, <3>1, <4>2
        <4> QED
          BY <4>1, <4>2
      <3>3. PICK d \in Bids : Pends(d, g) /\ Lo(d) < k /\ k <= Hi(d)
        BY <3>2 DEF Fifo, CoverInv
      <3>4. s \notin SendSqe(d, g)
        <4>1. CASE g = f
          <5>1. d # b
            BY <2>9, <3>1, <3>2, <3>3, <4>1
          <5> QED
            BY <2>1, <5>1 DEF SendSqe
        <4>2. CASE g # f
          BY <2>1, <4>2 DEF SendSqe
        <4> QED
          BY <4>1, <4>2
      <3>5. Pends(d, g)'
        BY <1>3, <2>6, <2>12, <3>3, <3>4 DEF Pends
      <3> QED
        BY <3>3, <3>5
    <2>15. AnswerInv'
      <3>1. ASSUME NEW d \in Conns
            PROVE  echo'[d] = Bytes(d, 0, Len(echo'[d])) /\ sent[d] - got[d] <= SndCap
        <4>1. CASE d = c
          BY <2>10, <4>1 DEF Fifo, AnswerInv
        <4>2. CASE d # c
          BY <2>10, <4>2 DEF Fifo, AnswerInv
        <4> QED
          BY <4>1, <4>2
      <3> QED
        BY <1>2, <3>1 DEF AnswerInv
    <2> QED
      BY <2>6, <2>13, <2>14, <2>15 DEF Fifo
  <1> QED
    BY <1>7, <1>8

\* A connection is accepted: nothing was received.
LEMMA AcceptFifo ==
    ASSUME TypeOK, OwnerInv, LoopInv, Calm, Fifo, CompleteAccept
    PROVE  Fifo'
  <1>1. /\ UNCHANGED <<cl, rst, sent, taken, echo, got, recvs, num, sends, store, pc, back, sq>>
    BY DEF CompleteAccept, bufVars
  <1>2. PICK e \in Cqes : e.op = "accept" /\ cq' = Append(cq, e)
    <2>1. CASE \E f \in Fds : Post(Cqe("accept", f, NoBid, "ok", 0, TRUE))
      BY <2>1, CqeTypes DEF Cqe, Post
    <2>2. CASE Post(Cqe("accept", listen_fd, NoBid, "bad", 0, FALSE))
      BY <2>2, CqeTypes DEF Cqe, Post
    <2> QED
      BY <2>1, <2>2 DEF CompleteAccept
  <1>3. /\ Unreaped' = Append(Unreaped, e) /\ ~Data(e)
        /\ \A P : Holds(Unreaped', P) <=> Holds(Unreaped, P) \/ e \in P
    BY <1>1, <1>2, UnreapedPost DEF Data
  <1>4. \A b \in Bids, f \in Fds : Pends(b, f) => Pends(b, f)'
    BY <1>1, <1>3 DEF Pends
  <1>5. \A f \in OpenFds' : /\ f \in Fds /\ owner'[f] \in Conns
                            /\ taken[owner'[f]] = 0 \/ (f \in OpenFds /\ owner'[f] = owner[f])
    <2>1. CASE \E f \in Fds : /\ AcceptAs(f)
                              /\ owner' = [owner EXCEPT ![f] = Head(backlog)]
                              /\ phase' = [phase EXCEPT ![Head(backlog)] = "open"]
      <3>1. PICK f \in Fds : /\ AcceptAs(f)
                             /\ owner' = [owner EXCEPT ![f] = Head(backlog)]
                             /\ phase' = [phase EXCEPT ![Head(backlog)] = "open"]
        BY <2>1
      <3>2. Head(backlog) \in Conns /\ phase[Head(backlog)] = "queued"
        BY <3>1, AcceptOwner DEF TypeOK
      <3>3. taken[Head(backlog)] = 0
        BY <3>2 DEF Calm, LeaveInv
      <3>4. owner'[f] = Head(backlog) /\ \A g \in Fds : g # f => owner'[g] = owner[g]
        BY <3>1, <3>2 DEF TypeOK, SocketsTypeOK
      <3> TAKE g \in OpenFds'
      <3>5. g \in Fds /\ owner'[g] # NoConn
        BY DEF OpenFds
      <3>6. CASE g = f
        BY <3>2, <3>3, <3>4, <3>6
      <3>7. CASE g # f
        <4>1. owner'[g] = owner[g] /\ g \in OpenFds
          BY <3>4, <3>5, <3>7 DEF OpenFds
        <4> QED
          BY <3>5, <4>1, CalmTypes
      <3> QED
        BY <3>6, <3>7
    <2>2. CASE owner' = owner
      <3>1. OpenFds' = OpenFds
        BY <2>2 DEF OpenFds
      <3> QED
        BY <2>2, <3>1, CalmTypes
    <2> QED
      BY <2>1, <2>2 DEF CompleteAccept
  <1>6. \A f \in OpenFds' :
           \/ taken[owner'[f]] = 0
           \/ /\ f \in OpenFds /\ owner'[f] = owner[f]
              /\ \A b \in Bids : Pends(b, f) => Pends(b, f)'
    BY <1>4, <1>5
  <1>7. \A c \in Conns : sent'[c] - got'[c] <= SndCap
    BY <1>1 DEF Fifo, AnswerInv
  <1> QED
    BY <1>1, <1>3, <1>5, <1>6, <1>7, FifoKeep

\* A buffer filled with the bytes after position t.
LEMMA StartsAt ==
    ASSUME NEW c, NEW t \in Nat, NEW l \in Nat \ {0}, NEW o, store'[o] = Bytes(c, t, l)
    PROVE  Lo(o)' = t /\ Hi(o)' = t + l
  <1>1. PICK w : w = store'[o]
    OBVIOUS
  <1>2. w = [i \in 1..l |-> <<c, t + i>>] /\ 1 \in 1..l
    BY <1>1 DEF Bytes
  <1>3. w[1] = <<c, t + 1>> /\ Len(w) = l
    BY <1>2
  <1>4. w[1][2] - 1 = t
    BY <1>3
  <1>5. Lo(o)' = t
    BY <1>1, <1>4, Zenon DEF Lo
  <1> QED
    BY <1>1, <1>3, <1>5, Zenon DEF Hi

\* Data is received: it comes behind all that waits, and closes the gap.
LEMMA DataFifo ==
    ASSUME TypeOK, OwnerInv, LoopInv, Calm, Fifo,
           NEW c \in Conns, NEW f \in Fds, owner[f] = c, NEW o \in Bids, \A g \in Fds : ~Pends(o, g),
           NEW l \in Nat \ {0}, NEW e \in Cqes, e.op = "recv", e.fd = f, e.bid = o,
           cq' = Append(cq, e),
           store' = [store EXCEPT ![o] = Bytes(c, taken[c], l)],
           taken' = [taken EXCEPT ![c] = @ + l],
           UNCHANGED <<pc, back, owner, sq, sends, sent, echo, got>>
    PROVE  Fifo'
  <1> DEFINE U == Unreaped
  <1>1. PICK t : t = taken[c]
    OBVIOUS
  <1>2. /\ t \in Nat /\ taken'[c] = t + l /\ \A d \in Conns : d # c => taken'[d] = taken[d]
    BY <1>1 DEF TypeOK, SocketsTypeOK
  <1>3. /\ sq \in Seq(Sqes) /\ U \in Seq(Cqes)
        /\ DOMAIN sq = 1..Len(sq)
        /\ Entries(sq) \subseteq Sqes /\ Entries(U) \subseteq Cqes
    BY CalmTypes, UnreapedType DEF TypeOK
  <1>4. /\ U' = Append(U, e) /\ Entries(U') = Entries(U) \cup {e}
        /\ \A P : Holds(U', P) <=> Holds(U, P) \/ e \in P
    BY <1>3, UnreapedPost, EntriesAppend
  <1>5. Lo(o)' = t /\ Hi(o)' = t + l
    <2>1. store'[o] = Bytes(c, t, l)
      BY <1>1 DEF TypeOK
    <2> QED
      BY <1>2, <2>1, StartsAt
  <1>6. ASSUME NEW b \in Bids, NEW g \in Fds, Pends(b, g)
        PROVE  Lo(b)' = Lo(b) /\ Hi(b)' = Hi(b) /\ (g = f => Hi(b) <= t)
    <2>1. b # o
      BY <1>6
    <2>2. store'[b] = store[b]
      BY <2>1 DEF TypeOK
    <2>3. g = f => Hi(b) <= t
      BY <1>1, <1>6, PieceOwner DEF Calm
    <2> QED
      BY <2>2, <2>3 DEF Lo, Hi
  <1>7. ASSUME NEW x \in Entries(sq), x.op = "send"
        PROVE  Lo(x.bid)' = Lo(x.bid) /\ Hi(x.bid)' = Hi(x.bid) /\ (x.fd = f => Hi(x.bid) <= t)
    BY <1>6, <1>7, Waiting
  <1>8. ASSUME NEW y \in Entries(U), Data(y)
        PROVE  Lo(y.bid)' = Lo(y.bid) /\ Hi(y.bid)' = Hi(y.bid) /\ (y.fd = f => Hi(y.bid) <= t)
    BY <1>6, <1>8, Waiting
  <1> HIDE DEF U
  <1>9. Sorted(sq, SqOrder) /\ Sorted(U, CqOrder)
    BY DEF Fifo, SortInv, U
  <1>10. Sorted(sq', SqOrder')
    <2>1. ASSUME NEW x \in Entries(sq), NEW y \in Entries(sq), <<x, y>> \in SqOrder
          PROVE  <<x, y>> \in SqOrder'
      BY <1>3, <1>7, <2>1 DEF SqOrder
    <2>2. Sorted(sq, SqOrder')
      BY <1>3, <1>9, <2>1, SortedKeep
    <2> QED
      BY <2>2
  <1>11. Sorted(U', CqOrder')
    <2>1. ASSUME NEW x \in Entries(U), NEW y \in Entries(U), <<x, y>> \in CqOrder
          PROVE  <<x, y>> \in CqOrder'
      BY <1>3, <1>8, <2>1 DEF CqOrder
    <2>2. ASSUME NEW x \in Entries(U)
          PROVE  <<x, e>> \in CqOrder'
      <3>1. x \in Cqes
        BY <1>3
      <3>2. Data(x) /\ x.fd = e.fd => Hi(x.bid)' <= Lo(e.bid)'
        BY <1>5, <1>8
      <3> QED
        BY <3>1, <3>2 DEF CqOrder
    <2>3. Sorted(Append(U, e), CqOrder')
      BY <1>3, <1>9, <2>1, <2>2, SortedAppend
    <2> QED
      BY <1>4, <2>3
  <1>12. \A x \in Entries(sq'), y \in Entries(U') :
            x.op = "send" /\ Data(y) /\ x.fd = y.fd => Hi(x.bid)' <= Lo(y.bid)'
    <2> TAKE x \in Entries(sq'), y \in Entries(U')
    <2> HAVE x.op = "send" /\ Data(y) /\ x.fd = y.fd
    <2>1. Hi(x.bid)' = Hi(x.bid) /\ (x.fd = f => Hi(x.bid) <= t)
      BY <1>7
    <2>2. CASE y = e
      BY <1>5, <2>1, <2>2
    <2>3. CASE y \in Entries(U)
      <3>1. Hi(x.bid) <= Lo(y.bid)
        BY <2>3 DEF Fifo, SortInv, U
      <3>2. Lo(y.bid)' = Lo(y.bid)
        BY <1>8, <2>3
      <3> QED
        BY <2>1, <3>1, <3>2
    <2> QED
      BY <1>4, <2>2, <2>3
  <1>13. SortInv'
    BY <1>10, <1>11, <1>12 DEF SortInv, U, Data
  <1>14. \A b \in Bids, g \in Fds : Pends(b, g) => Pends(b, g)'
    BY <1>4 DEF Pends, U
  <1>15. Pends(o, f)'
    <2>1. e \in DataCqe(o, f)
      BY DEF DataCqe
    <2> QED
      BY <1>4, <2>1 DEF Pends, U
  <1>16. CoverInv'
    <2> SUFFICES ASSUME NEW g \in OpenFds, NEW k \in (Len(echo[owner[g]]) + 1)..taken'[owner[g]]
                 PROVE  \E b \in Bids : Pends(b, g)' /\ Lo(b)' < k /\ k <= Hi(b)'
      <3>1. OpenFds' = OpenFds
        BY DEF OpenFds
      <3> QED
        BY <3>1 DEF CoverInv
    <2>1. /\ g \in Fds /\ owner[g] \in Conns /\ Len(echo[owner[g]]) \in Nat
          /\ taken[owner[g]] \in Nat
      BY CalmTypes, ConnParts DEF TypeOK
    <2>2. CASE k <= taken[owner[g]]
      <3>1. k \in (Len(echo[owner[g]]) + 1)..taken[owner[g]]
        BY <2>1, <2>2
      <3>2. PICK b \in Bids : Pends(b, g) /\ Lo(b) < k /\ k <= Hi(b)
        BY <3>1 DEF Fifo, CoverInv
      <3>3. Lo(b)' = Lo(b) /\ Hi(b)' = Hi(b) /\ Pends(b, g)'
        BY <1>6, <1>14, <2>1, <3>2
      <3> QED
        BY <3>2, <3>3
    <2>3. CASE ~(k <= taken[owner[g]])
      <3>1. owner[g] = c
        BY <1>2, <2>1, <2>3
      <3>2. g = f
        <4>1. g \in OpenFds /\ f \in OpenFds
          BY <3>1, SocketsAssumption DEF OpenFds
        <4> QED
          BY <3>1, <4>1 DEF OwnerInv
      <3>3. t < k /\ k <= t + l
        BY <1>1, <1>2, <2>1, <2>3, <3>1
      <3> QED
        BY <1>5, <1>15, <3>2, <3>3
    <2> QED
      BY <2>2, <2>3
  <1>17. AnswerInv'
    BY DEF Fifo, AnswerInv
  <1> QED
    BY <1>13, <1>16, <1>17 DEF Fifo

\* A recv returns data, or the end of the stream.
LEMMA RecvFifo ==
    ASSUME TypeOK, OwnerInv, LoopInv, BufInv, Up, Calm, Fifo,
           NEW c \in Conns, CompleteRecv(c), starved' = 0
    PROVE  Fifo'
  <1>1. PICK f : f = num[c]
    OBVIOUS
  <1>2. f \in Fds /\ owner[f] = c
    BY <1>1, RecvBehind DEF CompleteRecv
  <1>3. UNCHANGED <<phase, owner, cl, rst, sent, echo, got, num, sends, pc, back, sq>>
    BY DEF CompleteRecv
  <1>4. CASE \E b \in free, more \in {TRUE, ~RecvMayEnd} :
                /\ Avail(c) > 0
                /\ store' = [store EXCEPT ![b] = ReadData(c)]
                /\ taken' = [taken EXCEPT ![c] = @ + ReadLen(c)]
                /\ Post(Cqe("recv", num[c], b, "ok", ReadLen(c), more))
    <2>1. PICK b \in free, more \in {TRUE, ~RecvMayEnd} :
                /\ Avail(c) > 0
                /\ store' = [store EXCEPT ![b] = ReadData(c)]
                /\ taken' = [taken EXCEPT ![c] = @ + ReadLen(c)]
                /\ Post(Cqe("recv", num[c], b, "ok", ReadLen(c), more))
      BY <1>4
    <2>2. PICK e, l : e = Cqe("recv", num[c], b, "ok", ReadLen(c), more) /\ l = ReadLen(c)
      OBVIOUS
    <2>3. b \in Bids /\ more \in BOOLEAN /\ l \in Nat \ {0}
      BY <2>1, <2>2, ReadLenType, UringOptAssumption DEF TypeOK
    <2>4. /\ e \in Cqes /\ e.op = "recv" /\ e.fd = f /\ e.bid = b /\ cq' = Append(cq, e)
      BY <1>1, <1>2, <2>1, <2>2, <2>3, CqeTypes DEF Cqe, Post
    <2>5. \A g \in Fds : ~Pends(b, g)
      <3>1. Without(sq, b) /\ Without(Unreaped, b) /\ Unsent(b)
        BY <2>1, <2>3, NamedOnce
      <3> QED
        BY <3>1, HoldsEntries DEF Pends, Without, Unsent, SendSqe, DataCqe
    <2>6. /\ store' = [store EXCEPT ![b] = Bytes(c, taken[c], l)]
          /\ taken' = [taken EXCEPT ![c] = @ + l]
      BY <2>1, <2>2 DEF ReadData
    <2>7. UNCHANGED <<pc, back, owner, sq, sends, sent, echo, got>>
      BY <1>3
    <2> QED
      BY <1>2, <2>3, <2>4, <2>5, <2>6, <2>7, DataFifo
  <1>5. CASE /\ Post(Cqe("recv", num[c], NoBid, IF rst[c] THEN "bad" ELSE "ok", 0, FALSE))
             /\ UNCHANGED <<bufVars, taken, starved>>
    <2>1. PICK e : e = Cqe("recv", num[c], NoBid, IF rst[c] THEN "bad" ELSE "ok", 0, FALSE)
      OBVIOUS
    <2>2. e \in Cqes /\ e.op = "recv" /\ e.len = 0 /\ cq' = Append(cq, e)
      BY <1>1, <1>2, <1>5, <2>1, CqeTypes DEF Cqe, Post
    <2>3. Unreaped' = Append(Unreaped, e) /\ ~Data(e)
          /\ \A P : Holds(Unreaped', P) <=> Holds(Unreaped, P) \/ e \in P
      BY <1>3, <2>2, UnreapedPost DEF Data
    <2>4. \A b \in Bids, g \in Fds : Pends(b, g) => Pends(b, g)'
      BY <1>3, <2>3 DEF Pends
    <2>5. OpenFds' = OpenFds /\ \A g \in OpenFds' : g \in Fds /\ owner'[g] \in Conns
      <3>1. OpenFds' = OpenFds
        BY <1>3 DEF OpenFds
      <3> QED
        BY <1>3, <3>1, CalmTypes
    <2>6. \A d \in Conns : sent'[d] - got'[d] <= SndCap
      BY <1>3 DEF Fifo, AnswerInv
    <2>7. store' = store /\ taken' = taken
      BY <1>5 DEF bufVars
    <2>8. \A g \in OpenFds' : /\ g \in OpenFds /\ owner'[g] = owner[g]
                              /\ \A b \in Bids : Pends(b, g) => Pends(b, g)'
      BY <1>3, <2>4, <2>5
    <2> QED
      BY <1>3, <2>2, <2>3, <2>5, <2>6, <2>7, <2>8, FifoKeep
  <1>6. starved' # starved + 1
    BY DEF TypeOK
  <1> QED
    BY <1>4, <1>5, <1>6 DEF CompleteRecv

\* What the program does with a completion that is not data.
LEMMA ReapedFifo ==
    ASSUME TypeOK, LoopInv, Fifo,
           sq' = sq \/ \E s \in Sqes : s.op # "send" /\ sq' = Append(sq, s),
           Unreaped' = Unreaped \/ (Unreaped # <<>> /\ ~Data(Head(Unreaped)) /\ Unreaped' = Tail(Unreaped)),
           \A b \in Bids, f \in Fds : Pends(b, f) => store'[b] = store[b],
           OpenFds' \subseteq OpenFds, \A f \in OpenFds' : owner'[f] = owner[f],
           UNCHANGED <<sends, echo, taken, sent, got>>
    PROVE  Fifo'
  <1>1. ASSUME NEW b \in Bids, NEW f \in Fds, Pends(b, f)
        PROVE  Pends(b, f)'
    <2>1. Holds(sq, SendSqe(b, f)) => Holds(sq', SendSqe(b, f))
      <3>1. CASE sq' = sq
        BY <3>1
      <3>2. ASSUME NEW s \in Sqes, sq' = Append(sq, s)
            PROVE  Holds(sq, SendSqe(b, f)) => Holds(sq', SendSqe(b, f))
        <4>1. \A P : Holds(sq', P) <=> Holds(sq, P) \/ s \in P
          BY <3>2, SqGiven
        <4> QED
          BY <4>1
      <3> QED
        BY <3>1, <3>2
    <2>2. CASE Holds(Unreaped, DataCqe(b, f))
      <3>1. PICK y \in Entries(Unreaped) : y \in DataCqe(b, f)
        BY <2>2, HoldsEntries
      <3>2. Data(y)
        BY <3>1, UringOptAssumption DEF DataCqe, Data, Cqes, NoBid
      <3>3. y \in Entries(Unreaped')
        <4>1. CASE Unreaped' = Unreaped
          BY <3>1, <4>1
        <4>2. CASE Unreaped # <<>> /\ ~Data(Head(Unreaped)) /\ Unreaped' = Tail(Unreaped)
          <5>1. Entries(Unreaped) = Entries(Tail(Unreaped)) \cup {Head(Unreaped)}
            BY <4>2, EntriesTail, CalmTypes
          <5> QED
            BY <3>1, <3>2, <4>2, <5>1
        <4> QED
          BY <4>1, <4>2
      <3> QED
        BY <3>1, <3>3, HoldsEntries DEF Pends
    <2> QED
      BY <1>1, <2>1, <2>2 DEF Pends
  <1>2. \A f \in OpenFds' : f \in Fds /\ owner'[f] \in Conns
    BY CalmTypes
  <1>3. \A f \in OpenFds' : /\ f \in OpenFds /\ owner'[f] = owner[f]
                            /\ \A b \in Bids : Pends(b, f) => Pends(b, f)'
    BY <1>1, <1>2
  <1>4. \A c \in Conns : sent'[c] - got'[c] <= SndCap
    BY DEF Fifo, AnswerInv
  <1>5. \/ sq' = sq
        \/ sq # <<>> /\ sq' = Tail(sq)
        \/ \E s \in Sqes : s.op # "send" /\ sq' = Append(sq, s)
    OBVIOUS
  <1>6. \/ Unreaped' = Unreaped
        \/ Unreaped # <<>> /\ Unreaped' = Tail(Unreaped)
        \/ \E e \in Cqes : ~Data(e) /\ Unreaped' = Append(Unreaped, e)
    OBVIOUS
  <1> QED
    BY <1>2, <1>3, <1>4, <1>5, <1>6, FifoKeep

\* The program handles an accept, ...
LEMMA ReapAcceptFifo ==
    ASSUME TypeOK, LoopInv, Fifo, Enough, ReapAccept
    PROVE  Fifo' /\ UNCHANGED <<owner, phase>>
  <1>1. PICK e : e = Head(cq)
    OBVIOUS
  <1>2. /\ pc = "reap" /\ pc' = "reap" /\ cq # <<>> /\ cq' = Tail(cq) /\ e.op = "accept"
        /\ UNCHANGED <<backlog, cl, rst, sent, taken, echo, got, recvs, num, sends, store>>
    BY <1>1 DEF ReapAccept, Reaping, NextCqe, kernVars, bufVars
  <1>3. e \in Cqes /\ (e.res = "ok" <=> e.fd \in Fds)
    <2>1. e \in Cqes
      BY <1>1, <1>2, CqReaped
    <2> QED
      BY <1>2, <2>1 DEF Cqes
  <1>4. Unreaped = cq /\ Unreaped' = cq' /\ ~Data(Head(Unreaped))
    BY <1>1, <1>2 DEF Unreaped, Data
  <1>5. /\ UNCHANGED <<owner, phase>>
        /\ \/ e.res = "ok" /\ AddSqe(Sqe("recv", e.fd, NoBid))
           \/ AddSqe(Sqe("accept", listen_fd, NoBid))
    <2>1. e.res = "ok" => ~(e.fd >= MAX_FDS)
      <3>1. e.res = "ok" => e.fd < MAX_FDS /\ e.fd \in Nat /\ MAX_FDS \in Nat
        BY <1>3, SocketsAssumption, UringOptAssumption DEF Enough
      <3> QED
        BY <3>1
    <2> QED
      BY <1>1, <2>1 DEF ReapAccept
  <1>6. \E s \in Sqes : s.op # "send" /\ sq' = Append(sq, s)
    <2>1. CASE e.res = "ok" /\ AddSqe(Sqe("recv", e.fd, NoBid))
      BY <1>3, <2>1, SqeTypes DEF Sqe, AddSqe
    <2>2. CASE AddSqe(Sqe("accept", listen_fd, NoBid))
      BY <2>2, SqeTypes DEF Sqe, AddSqe
    <2> QED
      BY <1>5, <2>1, <2>2
  <1>7. OpenFds' = OpenFds
    BY <1>5 DEF OpenFds
  <1> QED
    BY <1>2, <1>4, <1>5, <1>6, <1>7, ReapedFifo

\* ... data, which goes to the end of the submission queue, ...
LEMMA ReapRecvFifo ==
    ASSUME TypeOK, OwnerInv, LoopInv, Calm, Fifo, ReapRecv
    PROVE  Fifo'
  <1>1. PICK e : e = Head(cq)
    OBVIOUS
  <1>2. /\ pc = "reap" /\ pc' = "rearm" /\ cq # <<>> /\ e.op = "recv"
        /\ UNCHANGED <<phase, owner, cl, rst, sent, taken, echo, got, recvs, num, sends, store, cq>>
    BY <1>1 DEF ReapRecv, Reaping, sockVars, kernVars, bufVars
  <1>3. /\ e \in Cqes /\ e \in Entries(cq) /\ Entries(cq) = Entries(Tail(cq)) \cup {e}
        /\ \A P : Holds(cq, P) <=> Holds(Tail(cq), P) \/ e \in P
    BY <1>1, <1>2, EntriesTail, HoldsTail DEF TypeOK
  <1>4. e.len > 0 /\ AddSqe(Sqe("send", e.fd, e.bid)) /\ Data(e)
    BY <1>1, <1>2, <1>3 DEF ReapRecv, Calm, CqeInv, Data
  <1>5. e.fd \in Fds /\ e.bid \in Bids
    BY <1>2, <1>3, <1>4 DEF Cqes
  <1>6. PICK s : s = Sqe("send", e.fd, e.bid)
    OBVIOUS
  <1>7. /\ s \in Sqes /\ s.op = "send" /\ s.fd = e.fd /\ s.bid = e.bid /\ sq' = Append(sq, s)
    BY <1>4, <1>5, <1>6, SqeTypes DEF Sqe, AddSqe
  <1>8. /\ Entries(sq') = Entries(sq) \cup {s}
        /\ \A P : Holds(sq', P) <=> Holds(sq, P) \/ s \in P
    BY <1>7, SqGiven
  <1>9. Unreaped = cq /\ Unreaped' = Tail(cq)
    BY <1>2 DEF Unreaped
  <1>10. /\ sq \in Seq(Sqes) /\ cq \in Seq(Cqes)
         /\ Entries(sq) \subseteq Sqes /\ Entries(cq) \subseteq Cqes
    BY CalmTypes
  <1>11. /\ Sorted(sq, SqOrder) /\ Sorted(cq, CqOrder)
         /\ \A x \in Entries(sq), y \in Entries(cq) :
               x.op = "send" /\ Data(y) /\ x.fd = y.fd => Hi(x.bid) <= Lo(y.bid)
    BY <1>9 DEF Fifo, SortInv
  <1>12. \A b : Lo(b)' = Lo(b) /\ Hi(b)' = Hi(b)
    BY <1>2 DEF Lo, Hi
  <1>13. SqOrder' = SqOrder /\ CqOrder' = CqOrder
    BY <1>12 DEF SqOrder, CqOrder
  <1>14. Sorted(sq', SqOrder)
    <2>1. \A x \in Entries(sq) : <<x, s>> \in SqOrder
      <3> TAKE x \in Entries(sq)
      <3>1. x \in Sqes /\ (x.op = "send" /\ x.fd = e.fd => Hi(x.bid) <= Lo(e.bid))
        BY <1>3, <1>4, <1>10, <1>11
      <3> QED
        BY <1>7, <3>1 DEF SqOrder
    <2> QED
      BY <1>7, <1>10, <1>11, <2>1, SortedAppend
  <1>15. Sorted(Tail(cq), CqOrder) /\ \A y \in Entries(Tail(cq)) : <<e, y>> \in CqOrder
    BY <1>1, <1>2, <1>10, <1>11, SortedTail
  <1>16. SortInv'
    <2>1. \A x \in Entries(sq'), y \in Entries(Tail(cq)) :
             x.op = "send" /\ Data(y) /\ x.fd = y.fd => Hi(x.bid) <= Lo(y.bid)
      <3> TAKE x \in Entries(sq'), y \in Entries(Tail(cq))
      <3> HAVE x.op = "send" /\ Data(y) /\ x.fd = y.fd
      <3>1. CASE x \in Entries(sq)
        BY <1>3, <1>11, <3>1
      <3>2. CASE x = s
        BY <1>4, <1>7, <1>15, <3>2 DEF CqOrder
      <3> QED
        BY <1>8, <3>1, <3>2
    <2> QED
      BY <1>9, <1>12, <1>13, <1>14, <1>15, <2>1 DEF SortInv, Data
  <1>17. ASSUME NEW b \in Bids, NEW f \in Fds, Pends(b, f)
         PROVE  Pends(b, f)'
    <2>1. e \in DataCqe(b, f) => s \in SendSqe(b, f)
      BY <1>7 DEF SendSqe, DataCqe
    <2> QED
      BY <1>2, <1>3, <1>8, <1>9, <1>17, <2>1 DEF Pends
  <1>18. CoverInv'
    <2> SUFFICES ASSUME NEW f \in OpenFds, NEW k \in (Len(echo[owner[f]]) + 1)..taken[owner[f]]
                 PROVE  \E b \in Bids : Pends(b, f)' /\ Lo(b) < k /\ k <= Hi(b)
      <3>1. OpenFds' = OpenFds
        BY <1>2 DEF OpenFds
      <3> QED
        BY <1>2, <1>12, <3>1 DEF CoverInv
    <2>1. PICK b \in Bids : Pends(b, f) /\ Lo(b) < k /\ k <= Hi(b)
      BY DEF Fifo, CoverInv
    <2> QED
      BY <1>17, <2>1, CalmTypes
  <1>19. AnswerInv'
    BY <1>2 DEF Fifo, AnswerInv
  <1> QED
    BY <1>2, <1>16, <1>18, <1>19 DEF Fifo

\* ... the re-arm test, ...
LEMMA RearmFifo ==
    ASSUME TypeOK, LoopInv, Fifo, Rearm
    PROVE  Fifo'
  <1>1. PICK e : e = Head(cq)
    OBVIOUS
  <1>2. /\ pc = "rearm" /\ pc' = "reap" /\ cq' = Tail(cq)
        /\ UNCHANGED <<phase, owner, cl, rst, sent, taken, echo, got, recvs, num, sends, store>>
    BY DEF Rearm, NextCqe, sockVars, kernVars, bufVars
  <1>3. e.fd \in Fds
    BY <1>1, <1>2, HandTypes DEF InHand
  <1>4. Unreaped' = Unreaped
    BY <1>2 DEF Unreaped
  <1>5. sq' = sq \/ \E s \in Sqes : s.op # "send" /\ sq' = Append(sq, s)
    <2>1. CASE AddSqe(Sqe("recv", e.fd, NoBid))
      BY <1>3, <2>1, SqeTypes DEF Sqe, AddSqe
    <2> QED
      BY <1>1, <2>1 DEF Rearm
  <1>6. OpenFds' = OpenFds
    BY <1>2 DEF OpenFds
  <1> QED
    BY <1>2, <1>4, <1>5, <1>6, ReapedFifo

\* ... the end of a stream, whose number is closed ...
LEMMA ReapEofFifo ==
    ASSUME TypeOK, LoopInv, Fifo, ReapEof
    PROVE  Fifo'
  <1>1. PICK e : e = Head(cq)
    OBVIOUS
  <1>2. /\ pc = "reap" /\ pc' = "reap" /\ cq # <<>> /\ cq' = Tail(cq) /\ e.op = "recv"
        /\ e.len = 0 /\ CloseNumber(e.fd)
        /\ UNCHANGED <<backlog, cl, rst, sent, taken, echo, got, recvs, num, sends, store, sq>>
    BY <1>1 DEF ReapEof, Reaping, NextCqe, kernVars, bufVars
  <1>3. Unreaped = cq /\ Unreaped' = cq' /\ ~Data(Head(Unreaped))
    BY <1>1, <1>2 DEF Unreaped, Data
  <1>4. OpenFds' \subseteq OpenFds /\ \A f \in OpenFds' : owner'[f] = owner[f]
    <2>1. CASE owner' = owner
      BY <2>1 DEF OpenFds
    <2>2. CASE owner' = [owner EXCEPT ![e.fd] = NoConn]
      BY <2>2 DEF OpenFds, TypeOK, SocketsTypeOK
    <2> QED
      BY <1>2, <2>1, <2>2 DEF CloseNumber, CloseFd
  <1> QED
    BY <1>2, <1>3, <1>4, ReapedFifo

\* ... and a send, whose buffer holds nothing that waits.
LEMMA ReapSendFifo ==
    ASSUME TypeOK, LoopInv, BufInv, Calm, Fifo, ReapSend
    PROVE  Fifo' /\ UNCHANGED <<owner, phase>>
  <1>1. PICK e : e = Head(cq)
    OBVIOUS
  <1>2. /\ pc = "reap" /\ pc' = "reap" /\ cq # <<>> /\ cq' = Tail(cq) /\ e.op = "send"
        /\ store' = [store EXCEPT ![e.bid] = <<>>]
        /\ UNCHANGED <<cl, rst, sent, taken, echo, got, recvs, num, sends, sq>>
    BY <1>1 DEF ReapSend, Reaping, NextCqe, kernVars
  <1>3. e \in Cqes /\ e \in Entries(cq) /\ Entries(cq) = Entries(Tail(cq)) \cup {e}
    BY <1>1, <1>2, EntriesTail DEF TypeOK
  <1>4. UNCHANGED <<owner, phase>>
    BY <1>1, <1>2, <1>3 DEF ReapSend, Calm, CqeInv
  <1>5. Unreaped = cq /\ Unreaped' = cq' /\ Up /\ ~Data(Head(Unreaped))
    BY <1>1, <1>2 DEF Unreaped, Up, Data
  <1>6. PICK b : b = e.bid
    OBVIOUS
  <1>7. b \in Bids
    BY <1>2, <1>3, <1>6 DEF Cqes
  <1>8. Without(cq', b) /\ Without(sq, b) /\ Unsent(b)
    BY <1>1, <1>2, <1>5, <1>6, <1>7, HeadCqOnce
  <1>9. \A d \in Bids, g \in Fds : Pends(d, g) => store'[d] = store[d]
    <2> TAKE d \in Bids, g \in Fds
    <2> HAVE Pends(d, g)
    <2>1. d # b
      <3>1. e \notin DataCqe(d, g)
        BY <1>2 DEF DataCqe
      <3> QED
        BY <1>2, <1>3, <1>5, <1>8, <3>1, HoldsEntries DEF Pends, Without, Unsent, SendSqe, DataCqe
    <2> QED
      BY <1>2, <1>6, <2>1 DEF TypeOK
  <1>10. OpenFds' = OpenFds
    BY <1>4 DEF OpenFds
  <1> QED
    BY <1>2, <1>4, <1>5, <1>9, <1>10, ReapedFifo

\* The clients stay within what fits.
LEMMA NetworkFifo ==
    ASSUME TypeOK, LoopInv, Fifo, AnswersFit, Network
    PROVE  Fifo'
  <1>1. PICK c \in Conns :
           \/ Connect(c) \/ ClientSend(c) \/ ClientRecv(c)
           \/ ClientShut(c) \/ ClientClose(c) \/ ResetArrives(c)
    BY DEF Network
  <1>2. UNCHANGED <<recvs, num, sends, store, pc, back, sq, cq>>
    BY DEF Network, kernVars, bufVars
  <1>3. UNCHANGED <<owner, taken, echo>>
    BY <1>1 DEF Connect, ClientSend, ClientRecv, ClientShut, ClientClose, ResetArrives
  <1>4. ASSUME NEW d \in Conns
        PROVE  sent'[d] - got'[d] <= SndCap
    <2>1. sent[d] \in Nat /\ got[d] \in Nat /\ sent[d] - got[d] <= SndCap
      BY ConnParts DEF TypeOK, Fifo, AnswerInv
    <2>2. CASE Connect(c) \/ ClientShut(c) \/ ClientClose(c) \/ ResetArrives(c)
      BY <2>1, <2>2 DEF Connect, ClientShut, ClientClose, ResetArrives
    <2>3. CASE ClientSend(c)
      <3>1. PICK n \in 1..(MaxBytes - sent[c]) : /\ MaySend(c, n)
                                                 /\ sent' = [sent EXCEPT ![c] = @ + n]
        BY <2>3 DEF ClientSend
      <3>2. /\ got' = got /\ sent'[c] = sent[c] + n
            /\ \A k \in Conns : k # c => sent'[k] = sent[k]
        BY <2>3, <3>1 DEF ClientSend, TypeOK, SocketsTypeOK
      <3>3. CASE d # c
        BY <2>1, <3>2, <3>3
      <3>4. CASE d = c
        <4>1. n \in Int /\ ReqMin \in Nat /\ ReqMax \in Nat /\ Window \in Nat /\ SndCap \in Nat
          BY <2>1, <3>4, SocketsAssumption
        <4>2. CASE Lockstep
          <5>1. ReqMax <= SndCap /\ got[c] = sent[c] /\ n <= ReqMax
            BY <3>1, <4>1, <4>2 DEF MaySend, AnswersFit
          <5> QED
            BY <2>1, <3>2, <3>4, <4>1, <5>1
        <4>3. CASE ~Lockstep
          <5>1. Window <= SndCap /\ sent[c] + n - got[c] <= Window
            BY <3>1, <4>3 DEF MaySend, AnswersFit
          <5> QED
            BY <2>1, <3>2, <3>4, <4>1, <5>1
        <4> QED
          BY <4>2, <4>3
      <3> QED
        BY <3>3, <3>4
    <2>4. CASE ClientRecv(c)
      <3>1. /\ sent' = sent /\ got'[c] = got[c] + 1
            /\ \A k \in Conns : k # c => got'[k] = got[k]
        BY <2>4 DEF ClientRecv, TypeOK, SocketsTypeOK
      <3>2. SndCap \in Nat
        BY SocketsAssumption
      <3> QED
        BY <2>1, <3>1, <3>2
    <2> QED
      BY <1>1, <2>2, <2>3, <2>4
  <1>5. Unreaped' = Unreaped /\ OpenFds' = OpenFds
    BY <1>2, <1>3 DEF Unreaped, OpenFds
  <1>6. \A b \in Bids, f \in Fds : Pends(b, f) => Pends(b, f)'
    BY <1>2, <1>5 DEF Pends
  <1>7. \A f \in OpenFds' : f \in Fds /\ owner'[f] \in Conns
    BY <1>3, <1>5, CalmTypes
  <1>8. \A f \in OpenFds' : /\ f \in OpenFds /\ owner'[f] = owner[f]
                            /\ \A b \in Bids : Pends(b, f) => Pends(b, f)'
    BY <1>3, <1>5, <1>6, <1>7
  <1> QED
    BY <1>2, <1>3, <1>4, <1>5, <1>7, <1>8, FifoKeep

\* A step that moves nothing.
LEMMA SameFifo ==
    ASSUME TypeOK, LoopInv, Fifo, UNCHANGED <<sockVars, kernVars, store, sq, cq>>, InHand' = InHand
    PROVE  Fifo'
  <1>1. UNCHANGED <<owner, sent, taken, echo, got, sends, store, sq, cq>>
    BY DEF sockVars, kernVars
  <1>2. Unreaped' = Unreaped /\ OpenFds' = OpenFds
    BY <1>1 DEF Unreaped, InHand, OpenFds
  <1>3. \A f \in OpenFds' : owner'[f] = owner[f]
    BY <1>1
  <1> QED
    BY <1>1, <1>2, <1>3, ReapedFifo

\* Nothing is open and nothing waits.
LEMMA IdleFifo ==
    ASSUME AnswerInv, cq' = <<>>, sends' = {}, OpenFds' = {},
           \A s \in Entries(sq') : s.op # "send",
           UNCHANGED <<sent, echo, got>>, sq' \in Seq(Sqes), pc' \in {"submit", "exit"}
    PROVE  Fifo'
  <1>1. Unreaped' = <<>>
    BY DEF Unreaped
  <1>2. Entries(Unreaped') = {} /\ Sorted(Unreaped', CqOrder')
    BY <1>1 DEF Entries, Sorted
  <1>3. Sorted(sq', SqOrder')
    <2>1. \A i \in 1..Len(sq') : sq'[i] \in Sqes /\ sq'[i].op # "send"
      BY DEF Entries
    <2> QED
      BY <2>1 DEF Sorted, SqOrder
  <1>4. SortInv'
    BY <1>2, <1>3 DEF SortInv
  <1>5. CoverInv' /\ AnswerInv'
    BY DEF CoverInv, AnswerInv
  <1> QED
    BY <1>4, <1>5 DEF Fifo

\* At first nothing waits.
LEMMA FifoInit == Init => Fifo
  <1> SUFFICES ASSUME Init PROVE Fifo
    OBVIOUS
  <1>1. OpenFds = {} /\ sq = <<>> /\ sends = {} /\ Unreaped = <<>>
    BY SocketsStart DEF Init, Unreaped
  <1>2. SortInv
    BY <1>1 DEF SortInv, Sorted, Entries
  <1>3. \A c \in Conns : echo[c] = <<>> /\ sent[c] = 0 /\ got[c] = 0
    BY DEF Init, SocketsInit
  <1>4. ASSUME NEW c \in Conns
        PROVE  echo[c] = Bytes(c, 0, Len(echo[c])) /\ sent[c] - got[c] <= SndCap
    <2>1. Len(echo[c]) = 0 /\ Bytes(c, 0, 0) = <<>>
      BY <1>3 DEF Bytes
    <2>2. echo[c] = Bytes(c, 0, Len(echo[c]))
      BY <1>3, <2>1
    <2> QED
      BY <1>3, <1>4, <2>2, SocketsAssumption
  <1> QED
    BY <1>1, <1>2, <1>4 DEF Fifo, CoverInv, AnswerInv

\* Every step keeps the order, and covers what is not yet echoed.
LEMMA FifoStep ==
    ASSUME Inv, Calm, Fifo, AnswersFit, Enough, [Next]_uVars, starved' = 0
    PROVE  Fifo'
  <1>0. TypeOK /\ OwnerInv /\ LoopInv /\ BufInv
    BY DEF Inv
  <1>1. CASE Boot
    <2>1. /\ cq' = <<>> /\ sends' = {} /\ OpenFds' = {} /\ pc' \in {"submit", "exit"}
          /\ UNCHANGED <<sent, echo, got>>
      BY <1>0, <1>1 DEF Boot, LoopInv, kernVars, OpenFds
    <2>2. sq' \in Seq(Sqes) /\ \A s \in Entries(sq') : s.op # "send"
      <3>1. CASE sq' = <<Sqe("accept", listen_fd, NoBid)>>
        <4>1. Sqe("accept", listen_fd, NoBid) \in Sqes
          BY SqeTypes
        <4> QED
          BY <3>1, <4>1 DEF Entries, Sqe
      <3>2. CASE sq' = sq
        BY <1>0, <1>1, <3>2 DEF Boot, LoopInv, Entries
      <3> QED
        BY <1>1, <3>1, <3>2 DEF Boot
    <2> QED
      BY <2>1, <2>2, IdleFifo DEF Fifo
  <1>2. CASE Kill
    <2>1. /\ cq' = <<>> /\ sends' = {} /\ OpenFds' = {} /\ pc' = "exit" /\ sq' = <<>>
          /\ UNCHANGED <<sent, echo, got>>
      BY <1>0, <1>2, ExitTypes DEF Kill, ProcessExit, TypeOK
    <2>2. sq' \in Seq(Sqes) /\ \A s \in Entries(sq') : s.op # "send"
      BY <2>1 DEF Entries
    <2> QED
      BY <2>1, <2>2, IdleFifo DEF Fifo
  <1>3. CASE Issued \/ Return \/ Flush \/ EndRound \/ UNCHANGED uVars
    <2>1. UNCHANGED <<sockVars, kernVars, store, sq, cq>> /\ InHand' = InHand
      BY <1>0, <1>3 DEF Issued, Return, Flush, EndRound, uVars, bufVars, InHand, TypeOK
    <2> QED
      BY <1>0, <2>1, SameFifo
  <1>4. CASE Kernel
    <2>1. CASE CompleteAccept
      BY <1>0, <2>1, AcceptFifo
    <2>2. ~CompleteSend
      BY DEF CompleteSend, Fifo
    <2>3. ASSUME NEW c \in Conns, CompleteRecv(c)
          PROVE  Fifo'
      <3>1. Up
        BY <2>3 DEF CompleteRecv, Working, Up
      <3> QED
        BY <1>0, <2>3, <3>1, RecvFifo
    <2> QED
      BY <1>4, <2>1, <2>2, <2>3 DEF Kernel
  <1>5. CASE ReapAccept \/ ReapRecv \/ Rearm \/ ReapEof \/ ReapSend
    BY <1>0, <1>5, ReapAcceptFifo, ReapRecvFifo, RearmFifo, ReapEofFifo, ReapSendFifo
  <1> QED
    BY <1>0, <1>1, <1>2, <1>3, <1>4, <1>5, IssueFifo, NetworkFifo DEF Next, Submit, Loop

-----------------------------------------------------------------------------
(* Every step is one of EchoService, or not seen there.                    *)

EchoStep == [Echoer!Next]_(Echoer!echoVars)

\* A step in which nothing of EchoService changes.
LEMMA QuietEchoes ==
    ASSUME UNCHANGED <<listening, phase, cl, sent, echo>>
    PROVE  EchoStep
  BY DEF EchoStep, Echoer!echoVars

\* An SQE issued: a send is an Echo.
LEMMA IssueEchoes ==
    ASSUME TypeOK, OwnerInv, LoopInv, Calm, Fifo, Fifo', Issue
    PROVE  EchoStep
  <1>1. PICK s : s = Head(sq)
    OBVIOUS
  <1>2. /\ sq # <<>> /\ sq' = Tail(sq)
        /\ UNCHANGED <<listening, owner, phase, cl, rst, sent, taken, got, store>>
    BY DEF Issue, bufVars
  <1>3. s \in Sqes /\ s \in Entries(sq)
    BY <1>1, <1>2, SqTaken
  <1>4. CASE echo' = echo
    BY <1>2, <1>4, QuietEchoes
  <1>5. CASE s.op = "send" /\ echo' # echo
    <2>1. PICK c, f, b, n, m : /\ c = owner[s.fd] /\ f = s.fd /\ b = s.bid
                               /\ n = Len(echo[c]) /\ m = Len(store[b])
      OBVIOUS
    <2>2. f \in Fds /\ b \in Bids /\ c # NoConn /\ c \in Conns
      <3>1. f \in Fds /\ b \in Bids /\ c # NoConn
        BY <1>3, <1>5, <2>1 DEF Sqes, Calm, NumberInv
      <3> QED
        BY <2>1, <3>1 DEF TypeOK, SocketsTypeOK
    <2>3. s \in SendSqe(b, f) /\ Pends(b, f)
      BY <1>3, <1>5, <2>1, HoldsEntries DEF SendSqe, Pends
    <2>4. Lo(b) = n /\ Writable(c) /\ WriteLen(c, store[b]) = m
      BY <1>1, <1>2, <2>1, <2>2, <2>3, FirstInLine
    <2>5. /\ store[b] \in Seq(Byte) /\ m \in Nat \ {0} /\ Hi(b) = n + m /\ Hi(b) <= taken[c]
      BY <2>1, <2>2, <2>3, <2>4, PieceOwner DEF Calm, Hi
    <2>6. n \in Nat /\ echo[c] \in Seq(Byte) /\ taken[c] \in Nat /\ sent[c] \in Nat
          /\ taken[c] <= sent[c] /\ phase[c] = "open"
      <3>1. n \in Nat /\ echo[c] \in Seq(Byte) /\ taken[c] \in Nat /\ sent[c] \in Nat
        BY <2>1, <2>2, ConnParts DEF TypeOK
      <3>2. phase[c] = "open"
        BY <2>1, <2>2 DEF OwnerInv, OpenFds
      <3> QED
        BY <2>2, <3>1, <3>2 DEF Calm, LeaveInv
    <2>7. ~rst[c] /\ Transmit(c, f, b)
      <3>1. ~rst[c]
        BY <2>1, <2>2, <2>3, SendBehind
      <3> QED
        BY <1>1, <1>5, <2>1, <2>2, <2>4, <3>1 DEF Issue
    <2>8. echo' = [echo EXCEPT ![c] = @ \o SubSeq(store[b], 1, m)]
      BY <2>4, <2>7 DEF Transmit, Write
    <2>9. /\ echo'[c] = echo[c] \o SubSeq(store[b], 1, m)
          /\ \A d \in Conns : d # c => echo'[d] = echo[d]
          /\ echo \in [Conns -> Seq(Byte)]
      BY <2>2, <2>8 DEF TypeOK, SocketsTypeOK
    <2>10. Len(echo'[c]) = n + m
      <3>1. m <= Len(store[b])
        BY <2>1, <2>5
      <3>2. m \in Nat
        BY <2>5
      <3>3. Len(echo[c] \o SubSeq(store[b], 1, m)) = Len(echo[c]) + m
        <4>1. PICK x, w : x = echo[c] /\ w = store[b]
          OBVIOUS
        <4>2. x \in Seq(Byte) /\ w \in Seq(Byte) /\ m <= Len(w)
          BY <2>5, <2>6, <3>1, <4>1
        <4>3. Len(x \o SubSeq(w, 1, m)) = Len(x) + m
          BY <3>2, <4>2, EchoJoin
        <4> QED
          BY <4>1, <4>3, Zenon
      <3> QED
        BY <2>1, <2>9, <3>3
    <2>11. echo'[c] = Bytes(c, 0, n + m)
      BY <2>2, <2>10 DEF Fifo, AnswerInv
    <2>12. echo'[c] = [k \in 1..(n + m) |-> <<c, k>>]
      <3>1. n + m \in Nat
        BY <2>5, <2>6
      <3> QED
        BY <2>2, <2>11, <3>1, FirstBytes
    <2>13. echo' = [echo EXCEPT ![c] = [k \in 1..(n + m) |-> <<c, k>>]]
      <3>1. DOMAIN echo' = Conns
        BY <2>8, <2>9
      <3> QED
        BY <2>8, <2>9, <2>12, <3>1
    <2>14. n + m \in (Len(echo[c]) + 1)..sent[c]
      <3>1. PICK t, u : t = taken[c] /\ u = sent[c]
        OBVIOUS
      <3>2. n + m <= t /\ t <= u /\ t \in Nat /\ u \in Nat
        BY <2>5, <2>6, <3>1
      <3>3. n + m \in (n + 1)..u
        BY <2>5, <2>6, <3>2
      <3> QED
        BY <2>1, <3>1, <3>3
    <2>15. Echoer!Echo(c)
      BY <1>2, <2>6, <2>13, <2>14 DEF Echoer!Echo
    <2> QED
      BY <2>2, <2>15 DEF Echoer!Next, EchoStep
  <1> QED
    BY <1>1, <1>4, <1>5 DEF Issue

\* An accept completes: the client is admitted.
LEMMA AcceptEchoes ==
    ASSUME TypeOK, OwnerInv, CompleteAccept
    PROVE  EchoStep
  <1>1. UNCHANGED <<listening, cl, sent, echo>>
    BY DEF CompleteAccept
  <1>2. CASE phase' = phase
    BY <1>1, <1>2, QuietEchoes
  <1>3. CASE \E f \in Fds : /\ AcceptAs(f)
                            /\ owner' = [owner EXCEPT ![f] = Head(backlog)]
                            /\ phase' = [phase EXCEPT ![Head(backlog)] = "open"]
    <2>1. PICK c \in Conns : phase[c] = "queued" /\ phase' = [phase EXCEPT ![c] = "open"]
      BY <1>3, AcceptOwner DEF TypeOK
    <2>2. Echoer!Admit(c)
      BY <1>1, <2>1 DEF Echoer!Admit
    <2> QED
      BY <2>2 DEF Echoer!Next, EchoStep
  <1> QED
    BY <1>2, <1>3 DEF CompleteAccept

\* The end of a stream is reaped: the client has left and has its answer.
LEMMA EofEchoes ==
    ASSUME TypeOK, OwnerInv, LoopInv, Calm, ReapEof
    PROVE  EchoStep
  <1>1. PICK e, c : e = Head(cq) /\ c = owner[e.fd]
    OBVIOUS
  <1>2. /\ cq # <<>> /\ e.op = "recv" /\ e.len = 0 /\ CloseNumber(e.fd)
        /\ UNCHANGED <<listening, cl, sent, echo>>
    BY <1>1 DEF ReapEof, Reaping
  <1>3. e \in Cqes /\ e \in Entries(cq)
    BY <1>1, <1>2, EntriesTail DEF TypeOK
  <1>4. e.fd \in Fds /\ c # NoConn /\ c \in Conns
    <2>1. e.fd \in Fds /\ c # NoConn
      BY <1>1, <1>2, <1>3 DEF Cqes, Calm, NumberInv
    <2> QED
      BY <1>1, <2>1 DEF TypeOK, SocketsTypeOK
  <1>5. phase[c] = "open" /\ phase' = [phase EXCEPT ![c] = "done"]
    BY <1>1, <1>2, <1>4 DEF CloseNumber, CloseFd, OwnerInv, OpenFds
  <1>6. cl[c] \in {"shut", "gone"} /\ Len(echo[c]) = sent[c]
    <2>1. cl[c] # "up"
      BY <1>1, <1>2, <1>3 DEF Calm, CqeInv
    <2>2. cl[c] \in {"up", "shut", "gone"}
      BY <1>4 DEF TypeOK, SocketsTypeOK
    <2>3. got[c] = sent[c] /\ got[c] <= Len(echo[c]) /\ taken[c] <= sent[c]
      BY <1>4, <2>1 DEF Calm, LeaveInv
    <2>4. Len(echo[c]) <= taken[c]
      BY <1>1, <1>4, LeftEmpty DEF Calm
    <2>5. sent[c] \in Nat /\ taken[c] \in Nat /\ got[c] \in Nat /\ Len(echo[c]) \in Nat
      BY <1>4, ConnParts DEF TypeOK
    <2> QED
      BY <2>1, <2>2, <2>3, <2>4, <2>5
  <1>7. Echoer!Hangup(c)
    BY <1>2, <1>5, <1>6 DEF Echoer!Hangup
  <1> QED
    BY <1>4, <1>7 DEF Echoer!Next, EchoStep

\* The clients are EchoService's clients.
LEMMA NetworkEchoes ==
    ASSUME TypeOK, Network
    PROVE  EchoStep
  <1>1. PICK c \in Conns :
           \/ Connect(c) \/ ClientSend(c) \/ ClientRecv(c)
           \/ ClientShut(c) \/ ClientClose(c) \/ ResetArrives(c)
    BY DEF Network
  <1>2. CASE Connect(c)
    BY <1>2 DEF Connect, Echoer!Arrive, Echoer!Next, EchoStep
  <1>3. CASE ClientSend(c)
    <2>1. PICK n \in 1..(MaxBytes - sent[c]) : sent' = [sent EXCEPT ![c] = @ + n]
      BY <1>3 DEF ClientSend
    <2>2. sent'[c] > sent[c] /\ sent' = [sent EXCEPT ![c] = sent'[c]]
      BY <2>1 DEF TypeOK, SocketsTypeOK
    <2> QED
      BY <1>3, <2>2 DEF ClientSend, Connected, Echoer!Send, Echoer!Next, EchoStep
  <1>4. CASE ClientRecv(c) \/ ResetArrives(c)
    BY <1>4, QuietEchoes DEF ClientRecv, ResetArrives
  <1>5. CASE ClientShut(c) \/ ClientClose(c)
    BY <1>5 DEF ClientShut, ClientClose, MayLeave, Connected, Echoer!Leave, Echoer!Next, EchoStep
  <1> QED
    BY <1>1, <1>2, <1>3, <1>4, <1>5

\* Every step of the server.
LEMMA StepEchoes ==
    ASSUME Inv, Calm, Fifo, Fifo', Enough, [Next]_uVars
    PROVE  EchoStep
  <1>0. TypeOK /\ OwnerInv /\ LoopInv /\ BufInv
    BY DEF Inv
  <1>1. CASE Boot
    <2>1. CASE listening' = TRUE
      BY <1>1, <2>1 DEF Boot, EchoStep, Echoer!Next, Echoer!Start
    <2>2. CASE listening' = listening
      BY <1>1, <2>2, QuietEchoes DEF Boot
    <2> QED
      BY <1>1, <2>1, <2>2 DEF Boot
  <1>2. CASE Kill
    BY <1>2 DEF Kill, ProcessExit, EchoStep, Echoer!Next, Echoer!Shutdown
  <1>3. CASE Issued \/ Return \/ Flush \/ EndRound \/ ReapRecv \/ Rearm \/ UNCHANGED uVars
    <2>1. UNCHANGED <<listening, phase, cl, sent, echo>>
      BY <1>3 DEF Issued, Return, Flush, EndRound, ReapRecv, Rearm, uVars, sockVars
    <2> QED
      BY <2>1, QuietEchoes
  <1>4. CASE Kernel
    <2>1. ~CompleteSend
      BY DEF CompleteSend, Fifo
    <2>2. ASSUME NEW c \in Conns, CompleteRecv(c)
          PROVE  EchoStep
      BY <2>2, QuietEchoes DEF CompleteRecv
    <2> QED
      BY <1>0, <1>4, <2>1, <2>2, AcceptEchoes DEF Kernel
  <1>5. CASE ReapAccept
    <2>1. phase' = phase
      BY <1>0, <1>5, ReapAcceptFifo
    <2> QED
      BY <1>5, <2>1, QuietEchoes DEF ReapAccept
  <1>6. CASE ReapSend
    <2>1. phase' = phase
      BY <1>0, <1>6, ReapSendFifo
    <2> QED
      BY <1>6, <2>1, QuietEchoes DEF ReapSend
  <1> QED
    BY <1>0, <1>1, <1>2, <1>3, <1>4, <1>5, <1>6, IssueEchoes, EofEchoes, NetworkEchoes
       DEF Next, Submit, Loop

\* As long as the ring of buffers was never found empty.
LEMMA InOrder ==
    ASSUME Polite, AnswersFit, Enough
    PROVE  Spec /\ [](starved = 0) => [](Inv /\ Calm /\ Fifo)
  <1> DEFINE S == starved = 0
             J == Inv /\ Calm /\ Fifo
  <1>1. Init => J
    BY InvInit, CalmInit, FifoInit
  <1>2. J /\ S /\ S' /\ [Next]_uVars => J'
    <2> SUFFICES ASSUME J, S', [Next]_uVars PROVE J'
      OBVIOUS
    <2>1. Inv'
      BY TypeStep, OwnerStep, LoopStep, BufStep, ArmStep DEF Inv
    <2>2. Calm' /\ Fifo'
      BY CalmStep, FifoStep
    <2> QED
      BY <2>1, <2>2
  <1> HIDE DEF J, S
  <1>3. Init /\ [][Next]_uVars /\ []S => []J
    BY <1>1, <1>2, PTL
  <1> QED
    BY <1>3 DEF S, J, Spec

\* Byte k of a stream waits in buffer b.
Carries(b, f, k) == Pends(b, f) /\ Lo(b) < k /\ k <= Hi(b)

\* Each byte received and not yet echoed waits in one buffer.
WaitsOnce ==
    \A f \in OpenFds : \A k \in (Len(echo[owner[f]]) + 1)..taken[owner[f]] :
        \E b \in Bids : Carries(b, f, k) /\ \A d \in Bids : Carries(d, f, k) => d = b

\* Nothing is lost or sent twice on the way from the recv completion through
\* the submission queue to the socket: each byte received for an open
\* connection and not yet echoed waits in exactly one buffer, which is in a
\* completion not yet reaped or in a send not yet issued.
THEOREM EveryByteWaitsOnce ==
    ASSUME Polite, AnswersFit, Enough
    PROVE  Spec /\ [](starved = 0) => []WaitsOnce
  <1>1. Inv /\ Calm /\ Fifo => WaitsOnce
    <2> SUFFICES ASSUME Inv, Calm, Fifo, NEW f \in OpenFds,
                        NEW k \in (Len(echo[owner[f]]) + 1)..taken[owner[f]]
                 PROVE  \E b \in Bids : Carries(b, f, k) /\ \A d \in Bids : Carries(d, f, k) => d = b
      BY DEF WaitsOnce
    <2>1. PICK b \in Bids : Carries(b, f, k)
      BY DEF Fifo, CoverInv, Carries
    <2>2. ASSUME NEW d \in Bids, Carries(d, f, k), d # b
          PROVE  FALSE
      <3>1. f \in Fds /\ Len(echo[owner[f]]) \in Nat /\ taken[owner[f]] \in Nat
        BY CalmTypes, ConnParts DEF Inv, TypeOK
      <3>2. k \in Int
        BY <3>1
      <3>3. /\ Lo(b) \in Nat /\ Hi(b) \in Nat /\ Lo(d) \in Nat /\ Hi(d) \in Nat
            /\ Lo(b) < k /\ k <= Hi(b) /\ Lo(d) < k /\ k <= Hi(d)
        BY <2>1, <2>2, <3>1, PieceOwner DEF Inv, Calm, Carries
      <3>4. Hi(b) <= Lo(d) \/ Hi(d) <= Lo(b)
        BY <2>1, <2>2, <3>1 DEF Calm, PieceInv, Carries
      <3> QED
        BY <3>2, <3>3, <3>4
    <2> QED
      BY <2>1, <2>2
  <1>2. Spec /\ [](starved = 0) => [](Inv /\ Calm /\ Fifo)
    BY InOrder
  <1> QED
    BY <1>1, <1>2, PTL

-----------------------------------------------------------------------------
(* All that waits, added up.                                               *)

\* The buffers that wait for the connection of number f.
Waits(f) == {b \in Bids : Pends(b, f)}

\* They are those the property speaks of.
LEMMA WaitsAre ==
    ASSUME TypeOK, LoopInv, OwnerInv, Calm, Fifo, NEW f \in OpenFds
    PROVE  OnItsWay(f) = Waits(f)
  <1>1. ASSUME NEW b \in Waits(f)
        PROVE  b \in OnItsWay(f)
    <2>1. b \in Bids /\ Pends(b, f) /\ f \in Fds
      BY CalmTypes DEF Waits
    <2>2. store[b] # <<>> /\ store[b][1][1] = owner[f] /\ b # NoBid
      <3>1. 1 \in 1..Len(store[b]) /\ store[b][1] = <<owner[f], Lo(b) + 1>> /\ store[b] # <<>>
        BY <2>1, PieceOwner DEF Calm
      <3>2. b # NoBid
        BY <2>1, UringOptAssumption DEF NoBid
      <3> QED BY <3>1, <3>2
    <2>3. CASE Holds(sq, SendSqe(b, f))
      <3>1. PICK i \in DOMAIN sq : sq[i] \in SendSqe(b, f)
        BY <2>3 DEF Holds
      <3>2. sq[i].op = "send" /\ sq[i].bid = b
        BY <3>1 DEF SendSqe
      <3> QED BY <2>2, <3>1, <3>2 DEF OnItsWay
    <2>4. CASE Holds(Unreaped, DataCqe(b, f))
      <3>1. PICK i \in DOMAIN Unreaped : Unreaped[i] \in DataCqe(b, f)
        BY <2>4 DEF Holds
      <3>2. Unreaped[i].op = "recv" /\ Unreaped[i].bid = b
        BY <3>1 DEF DataCqe
      <3> QED BY <2>2, <3>1, <3>2 DEF OnItsWay
    <2> QED
      BY <2>1, <2>3, <2>4 DEF Pends, Fifo
  <1>2. ASSUME NEW b \in OnItsWay(f)
        PROVE  b \in Waits(f)
    <2>1. b # NoBid /\ store[b] # <<>> /\ store[b][1][1] = owner[f]
      BY DEF OnItsWay
    <2>2. \E g \in Fds : b \in Bids /\ Pends(b, g)
      <3>1. CASE \E i \in DOMAIN sq : sq[i].op = "send" /\ b = sq[i].bid
        <4>1. PICK x \in Entries(sq) : x.op = "send" /\ x.bid = b
          BY <3>1 DEF Entries
        <4> QED BY <4>1, Waiting
      <3>2. CASE \E i \in DOMAIN Unreaped : Unreaped[i].op = "recv" /\ b = Unreaped[i].bid
        <4>1. PICK y \in Entries(Unreaped) : y.op = "recv" /\ y.bid = b
          BY <3>2 DEF Entries
        <4>2. y \in Cqes
          BY CalmTypes
        <4>3. Data(y)
          BY <2>1, <4>1, <4>2 DEF Cqes, Data
        <4> QED BY <4>1, <4>3, Waiting
      <3>3. \/ \E i \in DOMAIN sq : sq[i].op = "send" /\ b = sq[i].bid
            \/ \E i \in DOMAIN Unreaped : Unreaped[i].op = "recv" /\ b = Unreaped[i].bid
        BY DEF OnItsWay, Fifo
      <3> QED BY <3>1, <3>2, <3>3
    <2>3. PICK g \in Fds : b \in Bids /\ Pends(b, g)
      BY <2>2
    <2>4. 1 \in 1..Len(store[b]) /\ store[b][1] = <<owner[g], Lo(b) + 1>> /\ owner[g] \in Conns
      BY <2>3, PieceOwner DEF Calm
    <2>5. owner[g] = owner[f]
      BY <2>1, <2>4
    <2>6. g \in OpenFds
      BY <2>4, SocketsAssumption DEF OpenFds
    <2>7. g = f
      BY <2>5, <2>6 DEF OwnerInv
    <2> QED BY <2>3, <2>7 DEF Waits
  <1> QED BY <1>1, <1>2

\* What waits begins behind the echo.
LEMMA BehindEcho ==
    ASSUME TypeOK, LoopInv, Calm, Fifo, NEW f \in OpenFds, NEW d \in Bids, Pends(d, f)
    PROVE  /\ Lo(d) \in Nat /\ Len(store[d]) \in Nat \ {0}
           /\ Len(echo[owner[f]]) <= Lo(d) /\ Lo(d) + Len(store[d]) <= taken[owner[f]]
  <1>1. PICK c, n, t : c = owner[f] /\ n = Len(echo[c]) /\ t = taken[c]
    OBVIOUS
  <1>2. f \in Fds /\ c \in Conns
    BY <1>1, CalmTypes
  <1>3. n \in Nat /\ t \in Nat
    BY <1>1, <1>2, ConnParts DEF TypeOK
  <1>4. \A j \in 1..n : At(c, j) = j
    <2> TAKE j \in 1..n
    <2>1. echo[c] = Bytes(c, 0, n)
      BY <1>1, <1>2 DEF Fifo, AnswerInv
    <2>2. echo[c][j] = <<c, 0 + j>>
      BY <2>1 DEF Bytes
    <2> QED
      BY <1>3, <2>2 DEF At
  <1>5. /\ Lo(d) \in Nat /\ Hi(d) \in Nat /\ Lo(d) < Hi(d) /\ Hi(d) <= t
        /\ Len(store[d]) \in Nat \ {0}
    BY <1>1, <1>2, PieceOwner DEF Calm
  <1>6. \A j \in 1..n : ~(Lo(d) < At(c, j) /\ At(c, j) <= Hi(d))
    BY <1>1, <1>2 DEF Calm, PieceInv
  <1>7. n <= Lo(d)
    <2>1. CASE Lo(d) < n
      <3>1. Lo(d) + 1 \in 1..n
        BY <1>3, <1>5, <2>1
      <3>2. At(c, Lo(d) + 1) = Lo(d) + 1
        BY <1>4, <3>1
      <3> QED
        BY <1>5, <1>6, <3>1, <3>2
    <2> QED
      BY <1>3, <1>5, <2>1
  <1> QED
    BY <1>1, <1>5, <1>7 DEF Hi

\* They are finitely many.
LEMMA WaitsFinite ==
    ASSUME TypeOK, LoopInv, Calm, Fifo, NEW f \in OpenFds
    PROVE  IsFiniteSet(Waits(f))
  <1> DEFINE T == Waits(f)
             R == 1..taken[owner[f]]
             hi == [b \in T |-> Hi(b)]
  <1>1. ASSUME NEW b \in T
        PROVE  /\ b \in Bids /\ Pends(b, f) /\ Lo(b) \in Nat /\ Hi(b) \in Nat
               /\ Lo(b) < Hi(b) /\ Hi(b) <= taken[owner[f]]
    <2>1. b \in Bids /\ Pends(b, f) /\ f \in Fds
      BY CalmTypes DEF Waits
    <2> QED BY <2>1, PieceOwner DEF Calm
  <1>2. taken[owner[f]] \in Nat
    BY CalmTypes, ConnParts DEF TypeOK
  <1>3. hi \in [T -> R]
    <2>1. ASSUME NEW b \in T PROVE Hi(b) \in R
      BY <1>1, <1>2
    <2> HIDE DEF T, R
    <2> QED BY <2>1
  <1>4. ASSUME NEW b \in T, NEW d \in T, hi[b] = hi[d] PROVE b = d
    <2>1. Hi(b) = Hi(d)
      BY <1>4
    <2>2. f \in Fds
      BY CalmTypes
    <2>3. b # d => Hi(b) <= Lo(d) \/ Hi(d) <= Lo(b)
      BY <1>1, <2>2 DEF Calm, PieceInv
    <2> HIDE DEF T
    <2> QED BY <1>1, <2>1, <2>3
  <1>5. hi \in Injection(T, R)
    <2> HIDE DEF T, R, hi
    <2> QED BY <1>3, <1>4 DEF Injection, IsInjective
  <1>6. IsFiniteSet(R)
    BY <1>2, FS_Interval
  <1> HIDE DEF T, R, hi
  <1>7. IsFiniteSet(T)
    BY <1>5, <1>6, FS_Injection
  <1> QED BY <1>7 DEF T

\* What waits is what was received and is not yet echoed.
LEMMA WaitingIsRest ==
    ASSUME TypeOK, LoopInv, OwnerInv, Calm, Fifo, NEW f \in OpenFds
    PROVE  taken[owner[f]] = Len(echo[owner[f]])
               + MapThenSumSet(LAMBDA b : Len(store[b]), OnItsWay(f))
  <1> DEFINE T == Waits(f)
             size == [b \in T |-> Len(store[b])]
             from == [b \in T |-> Lo(b)]
             n == Len(echo[owner[f]])
             t == taken[owner[f]]
  <1>1. f \in Fds /\ owner[f] \in Conns /\ n \in Nat /\ t \in Nat
    BY CalmTypes, ConnParts DEF TypeOK
  <1>2. n <= t
    <2>1. \A j \in 1..Len(echo[owner[f]]) : At(owner[f], j) # 0
      BY <1>1 DEF Calm, PieceInv
    <2> QED BY <1>1, <2>1, EchoFits DEF Calm
  <1>3. ASSUME NEW b \in T
        PROVE  /\ b \in Bids /\ Pends(b, f) /\ Lo(b) \in Nat /\ Len(store[b]) \in Nat
               /\ n <= Lo(b) /\ Lo(b) + Len(store[b]) <= t
    BY BehindEcho DEF Waits
  <1>4. \A k \in (n + 1)..t : \E b \in T : Lo(b) < k /\ k <= Lo(b) + Len(store[b])
    BY DEF Fifo, CoverInv, Hi, Waits
  <1>5. ASSUME NEW b \in T, NEW d \in T, b # d
        PROVE  Lo(b) + Len(store[b]) <= Lo(d) \/ Lo(d) + Len(store[d]) <= Lo(b)
    BY <1>1, <1>5 DEF Calm, PieceInv, Hi, Waits
  <1>6. IsFiniteSet(T)
    BY WaitsFinite
  <1>7. size \in [T -> Nat] /\ from \in [T -> Nat]
    <2> HIDE DEF T, n, t
    <2> QED BY <1>3
  <1>8. SumOf(size, T) = t - n
    <2>1. \A b \in T : size[b] > 0 => n <= from[b] /\ from[b] + size[b] <= t
      <3> HIDE DEF T, n, t
      <3> QED BY <1>3
    <2>2. \A k \in (n + 1)..t : \E b \in T : from[b] < k /\ k <= from[b] + size[b]
      <3> HIDE DEF T, n, t
      <3> QED BY <1>4
    <2>3. \A b, d \in T : b # d => from[b] + size[b] <= from[d] \/ from[d] + size[d] <= from[b]
      <3> HIDE DEF T, n, t
      <3> QED BY <1>5
    <2>4. Pieces(size, from, T, n, t)
      <3> HIDE DEF T, n, t, size, from
      <3> QED BY <2>1, <2>2, <2>3 DEF Pieces
    <2> HIDE DEF T, n, t, size, from
    <2> QED BY <1>1, <1>2, <1>6, <1>7, <2>4, SumOfPieces
  <1>9. MapThenSumSet(LAMBDA b : Len(store[b]), T) = SumOf(size, T)
    <2>1. \A b \in T : size[b] = Len(store[b])
      OBVIOUS
    <2> HIDE DEF T, size
    <2> QED BY <2>1, SumOfLengths
  <1>10. OnItsWay(f) = T
    BY WaitsAre
  <1> HIDE DEF T, size, from, n, t
  <1>11. MapThenSumSet(LAMBDA b : Len(store[b]), OnItsWay(f)) = t - n
    BY <1>8, <1>9, <1>10
  <1>12. t = n + (t - n)
    BY <1>1
  <1> QED BY <1>11, <1>12 DEF t, n

\* No byte is dropped between the recv completion and the socket: what was
\* received for an open connection is what was echoed and what waits, in a
\* completion not yet reaped or in a send not yet issued.
THEOREM NothingIsDropped ==
    ASSUME Polite, AnswersFit, Enough
    PROVE  Spec /\ [](starved = 0) => []NothingDropped
  <1>1. Inv /\ Calm /\ Fifo => NothingDropped
    BY WaitingIsRest DEF NothingDropped, Inv
  <1>2. Spec /\ [](starved = 0) => [](Inv /\ Calm /\ Fifo)
    BY InOrder
  <1> QED BY <1>1, <1>2, PTL

-----------------------------------------------------------------------------
\* The optimised io_uring server implements EchoService, for clients that
\* leave when they have been answered, as long as the ring of buffers was
\* never found empty, when the answers fit the socket and no descriptor is
\* out of range: the pieces of a stream, each received into a buffer of its
\* own and sent from there by a request of its own, are echoed in their order
\* and whole, and a connection is closed only when all of it is echoed.
THEOREM UringOptImplementsEcho ==
    ASSUME Polite, AnswersFit, Enough
    PROVE  Spec /\ [](starved = 0) => ImplementsEcho
  <1> DEFINE J == Inv /\ Calm /\ Fifo
  <1>1. Init => Echoer!Init
    BY DEF Init, SocketsInit, Echoer!Init
  <1>2. J /\ J' /\ [Next]_uVars => [Echoer!Next]_(Echoer!echoVars)
    BY StepEchoes DEF EchoStep
  <1>3. Spec /\ [](starved = 0) => []J
    BY InOrder
  <1> HIDE DEF J
  <1>4. Init /\ [][Next]_uVars /\ []J => Echoer!Init /\ [][Echoer!Next]_(Echoer!echoVars)
    BY <1>1, <1>2, PTL
  <1> QED
    BY <1>3, <1>4 DEF Spec, ImplementsEcho, Echoer!Spec
=============================================================================
