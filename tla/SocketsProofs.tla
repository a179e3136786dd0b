--------------------------- MODULE SocketsProofs ---------------------------
(***************************************************************************)
(* Lemmas about the bytes of Sockets, shared by the proofs about the       *)
(* servers: a run of bytes may be cut anywhere and joined again.           *)
(***************************************************************************)
EXTENDS Sockets, TLAPS, SequenceTheorems, FiniteSetTheorems

\* Bytes(c, lo, n) is a sequence of n bytes.
LEMMA BytesType ==
    ASSUME NEW c \in Conns, NEW lo \in Nat, NEW n \in Nat
    PROVE  /\ Bytes(c, lo, n) \in Seq(Byte)
           /\ Len(Bytes(c, lo, n)) = n
  <1>1. \A i \in 1..n : <<c, lo + i>> \in Byte
    BY DEF Byte
  <1> QED
    BY <1>1 DEF Bytes

\* A part of a sequence is a sequence over the same set.
LEMMA SubSeqType ==
    ASSUME NEW S, NEW s \in Seq(S), NEW m \in Nat, NEW n \in Nat,
           m >= 1, n <= Len(s)
    PROVE  SubSeq(s, m, n) \in Seq(S)
  OBVIOUS

\* Two sequences of bytes joined.
LEMMA ConcatType ==
    ASSUME NEW S, NEW s \in Seq(S), NEW t \in Seq(S)
    PROVE  /\ s \o t \in Seq(S)
           /\ Len(s \o t) = Len(s) + Len(t)
  OBVIOUS

\* Two adjacent runs of a connection's bytes make one run.
LEMMA BytesConcat ==
    ASSUME NEW c \in Conns, NEW lo \in Nat, NEW m \in Nat, NEW n \in Nat
    PROVE  Bytes(c, lo, m) \o Bytes(c, lo + m, n) = Bytes(c, lo, m + n)
  <1> DEFINE s == Bytes(c, lo, m)
             t == Bytes(c, lo + m, n)
             u == Bytes(c, lo, m + n)
  <1>1. /\ s \in Seq(Byte) /\ t \in Seq(Byte) /\ u \in Seq(Byte)
        /\ Len(s) = m /\ Len(t) = n /\ Len(u) = m + n
    <2>1. lo + m \in Nat /\ m + n \in Nat
      OBVIOUS
    <2> QED
      BY <2>1, BytesType, Zenon
  <1>2. /\ s \o t \in Seq(Byte)
        /\ Len(s \o t) = m + n
        /\ \A i \in 1..(m + n) : (s \o t)[i] = IF i <= m THEN s[i] ELSE t[i - m]
    <2> HIDE DEF s, t
    <2> QED
      BY <1>1, ConcatProperties
  <1>3. ASSUME NEW i \in 1..(m + n)
        PROVE  (s \o t)[i] = u[i]
    <2>1. u[i] = <<c, lo + i>>
      BY DEF Bytes
    <2>2. CASE i <= m
      BY <1>2, <2>1, <2>2 DEF Bytes
    <2>3. CASE i > m
      <3>1. i - m \in 1..n /\ lo + m + (i - m) = lo + i
        BY <2>3
      <3>2. t[i - m] = <<c, lo + i>>
        BY <3>1 DEF Bytes
      <3>3. (s \o t)[i] = t[i - m]
        <4> HIDE DEF s, t
        <4> QED
          BY <1>2, <2>3
      <3> QED
        BY <2>1, <3>2, <3>3, Zenon
    <2> QED
      <3>1. i <= m \/ i > m
        OBVIOUS
      <3> QED
        BY <2>2, <2>3, <3>1, Zenon
  <1> HIDE DEF s, t, u
  <1>4. s \o t = u
    BY <1>1, <1>2, <1>3, SeqEqual
  <1> QED
    BY <1>4 DEF s, t, u

\* The part of a run from the (k+1)-st to the m-th byte is a run.
PartIsRun(c, lo, n, k, m) ==
    SubSeq(Bytes(c, lo, n), k + 1, m) = Bytes(c, lo + k, m - k)

LEMMA BytesPart ==
    ASSUME NEW c \in Conns, NEW lo \in Nat, NEW n \in Nat,
           NEW k \in Nat, NEW m \in Nat, k <= m, m <= n
    PROVE  PartIsRun(c, lo, n, k, m)
  <1> DEFINE s == Bytes(c, lo, n)
             t == SubSeq(s, k + 1, m)
             u == Bytes(c, lo + k, m - k)
  <1>1. u \in Seq(Byte) /\ Len(u) = m - k
    <2>1. lo + k \in Nat /\ m - k \in Nat
      OBVIOUS
    <2> QED
      BY <2>1, BytesType, Zenon
  <1>2. \A i \in (k + 1)..m : s[i] = <<c, lo + i>> /\ s[i] \in Byte
    BY DEF Bytes, Byte
  <1>3. /\ t \in Seq(Byte)
        /\ Len(t) = m - k
        /\ \A i \in 1..(m - k) : t[i] = s[k + i]
    <2>1. /\ t \in Seq(Byte)
          /\ Len(t) = IF k + 1 <= m THEN m - (k + 1) + 1 ELSE 0
          /\ \A i \in 1..(m - (k + 1) + 1) : t[i] = s[k + 1 + i - 1]
      <3> HIDE DEF s
      <3> QED
        BY <1>2, SubSeqProperties
    <2> QED
      BY <2>1
  <1>4. ASSUME NEW i \in 1..(m - k)
        PROVE  t[i] = u[i]
    <2>1. k + i \in (k + 1)..m /\ lo + (k + i) = lo + k + i
      OBVIOUS
    <2>2. u[i] = <<c, lo + k + i>>
      BY DEF Bytes
    <2> QED
      BY <1>2, <1>3, <2>1, <2>2
  <1> HIDE DEF t, u
  <1>5. t = u
    BY <1>1, <1>3, <1>4, SeqEqual
  <1> QED
    BY <1>5 DEF t, u, PartIsRun

\* What a write() of the first k bytes of a run of n leaves: the echo is
\* longer by k bytes, and the rest is the run that follows it.
WriteKeepsRuns(c, lo, n, k) ==
    /\ Bytes(c, 0, lo) \o SubSeq(Bytes(c, lo, n), 1, k) = Bytes(c, 0, lo + k)
    /\ SubSeq(Bytes(c, lo, n), k + 1, n) = Bytes(c, lo + k, n - k)

LEMMA WriteRun ==
    ASSUME NEW c \in Conns, NEW lo \in Nat, NEW n \in Nat, NEW k \in Nat, k <= n
    PROVE  WriteKeepsRuns(c, lo, n, k)
  <1>1. /\ 0 \in Nat /\ n <= n /\ 0 <= k
        /\ 0 + 1 = 1 /\ 0 + lo = lo /\ lo + 0 = lo /\ k - 0 = k
    <2>1. 0 \in Nat /\ n <= n /\ 0 <= k
      OBVIOUS
    <2>2. 0 + 1 = 1 /\ 0 + lo = lo
      OBVIOUS
    <2>3. lo + 0 = lo /\ k - 0 = k
      OBVIOUS
    <2> QED
      BY <2>1, <2>2, <2>3, Zenon
  <1>2. SubSeq(Bytes(c, lo, n), 0 + 1, k) = Bytes(c, lo + 0, k - 0)
    <2>1. PartIsRun(c, lo, n, 0, k)
      BY <1>1, BytesPart
    <2> QED
      BY <2>1, Zenon DEF PartIsRun
  <1>3. Bytes(c, 0, lo) \o Bytes(c, 0 + lo, k) = Bytes(c, 0, lo + k)
    BY <1>1, BytesConcat, ZenonT(30)
  <1>4. SubSeq(Bytes(c, lo, n), k + 1, n) = Bytes(c, lo + k, n - k)
    <2>1. PartIsRun(c, lo, n, k, n)
      BY <1>1, BytesPart
    <2> QED
      BY <2>1, Zenon DEF PartIsRun
  <1> QED
    BY <1>1, <1>2, <1>3, <1>4, Zenon DEF WriteKeepsRuns

-----------------------------------------------------------------------------
(* The stream of one connection.                                           *)

\* e has been echoed, w is read and waits to be written, t bytes were read of
\* the n that were sent: one run, without a gap.
Run(c, e, w, t, n) ==
    /\ e \in Seq(Byte) /\ w \in Seq(Byte)
    /\ e = Bytes(c, 0, Len(e))
    /\ w = Bytes(c, Len(e), Len(w))
    /\ t = Len(e) + Len(w) /\ t <= n

\* No bytes are a run.
LEMMA EmptyRun ==
    ASSUME NEW c \in Conns, NEW lo \in Nat
    PROVE  Bytes(c, lo, 0) = <<>> /\ <<>> \in Seq(Byte)
  BY DEF Bytes

\* Before anything is sent there is a run of no bytes.
LEMMA NewRun ==
    ASSUME NEW c \in Conns, NEW n \in Nat
    PROVE  Run(c, <<>>, <<>>, 0, n)
  <1>1. Len(<<>>) = 0 /\ 0 + 0 = 0 /\ 0 <= n
    OBVIOUS
  <1> QED
    BY <1>1, EmptyRun DEF Run

\* read(): what is queued, or as much as fits the buffer, goes on where the
\* echo has stopped.
LEMMA ReadRun ==
    ASSUME NEW c \in Conns, NEW e, NEW t \in Nat, NEW n \in Nat, NEW k \in Nat,
           Run(c, e, <<>>, t, n), t + k <= n
    PROVE  Run(c, e, Bytes(c, t, k), t + k, n)
  <1>1. e \in Seq(Byte) /\ Len(e) \in Nat /\ e = Bytes(c, 0, Len(e)) /\ t = Len(e)
    BY DEF Run
  <1>2. Bytes(c, t, k) \in Seq(Byte) /\ Len(Bytes(c, t, k)) = k
    BY BytesType
  <1> QED
    BY <1>1, <1>2 DEF Run

\* write(): the first k bytes that waited are echoed, the others still wait.
LEMMA WriteRunOn ==
    ASSUME NEW c \in Conns, NEW e, NEW w, NEW t \in Nat, NEW n \in Nat, NEW k \in Nat,
           Run(c, e, w, t, n), k <= Len(w)
    PROVE  /\ Run(c, e \o SubSeq(w, 1, k), SubSeq(w, k + 1, Len(w)), t, n)
           /\ Len(e \o SubSeq(w, 1, k)) = Len(e) + k
  <1> DEFINE m == Len(e)
             r == Len(w)
  <1>1. m \in Nat /\ r \in Nat /\ e = Bytes(c, 0, m) /\ w = Bytes(c, m, r)
        /\ t = m + r /\ t <= n /\ k <= r
    BY DEF Run
  <1>2. /\ m + k \in Nat /\ r - k \in Nat /\ (m + k) + (r - k) = t
    BY <1>1
  <1> HIDE DEF m, r
  <1>3. /\ e \o SubSeq(w, 1, k) = Bytes(c, 0, m + k)
        /\ SubSeq(w, k + 1, r) = Bytes(c, m + k, r - k)
    <2>1. WriteKeepsRuns(c, m, r, k)
      BY <1>1, WriteRun
    <2> QED
      BY <1>1, <2>1 DEF WriteKeepsRuns
  <1>4. /\ Bytes(c, 0, m + k) \in Seq(Byte) /\ Len(Bytes(c, 0, m + k)) = m + k
        /\ Bytes(c, m + k, r - k) \in Seq(Byte) /\ Len(Bytes(c, m + k, r - k)) = r - k
    BY <1>2, BytesType
  <1>5. Run(c, Bytes(c, 0, m + k), Bytes(c, m + k, r - k), t, n)
    BY <1>1, <1>2, <1>4 DEF Run
  <1> QED
    BY <1>3, <1>4, <1>5 DEF m, r

\* The client sends on.
LEMMA LongerRun ==
    ASSUME NEW c, NEW e, NEW w, NEW t \in Nat, NEW n \in Nat, NEW m \in Nat,
           Run(c, e, w, t, n), n <= m
    PROVE  Run(c, e, w, t, m)
  BY DEF Run

-----------------------------------------------------------------------------
(* Who owns which descriptor.                                              *)

\* Descriptors and the accept queue: an open descriptor belongs to one open
\* connection, a queued connection is queued once and not open.
OwnerInv ==
    /\ \A f \in OpenFds : phase[owner[f]] = "open"
    /\ \A f, g \in OpenFds : owner[f] = owner[g] => f = g
    /\ \A i \in 1..Len(backlog) : phase[backlog[i]] = "queued"
    /\ \A i, j \in 1..Len(backlog) : backlog[i] = backlog[j] => i = j

\* At first nothing is open.
LEMMA SocketsStart ==
    ASSUME SocketsInit
    PROVE  SocketsTypeOK /\ OwnerInv /\ OpenFds = {}
  <1>1. <<>> \in Seq(Byte) /\ <<>> \in Seq(Conns)
    OBVIOUS
  <1>2. backlog = <<>> /\ OpenFds = {}
    BY DEF SocketsInit, OpenFds
  <1>3. OwnerInv
    BY <1>2 DEF OwnerInv
  <1>4. SocketsTypeOK
    BY <1>1 DEF SocketsInit, SocketsTypeOK
  <1> QED
    BY <1>2, <1>3, <1>4

\* A step of a client keeps the types.
LEMMA ClientTypes ==
    ASSUME SocketsTypeOK, NEW c \in Conns,
           \/ Connect(c) \/ ClientSend(c) \/ ClientRecv(c)
           \/ ClientShut(c) \/ ClientClose(c) \/ ResetArrives(c)
    PROVE  SocketsTypeOK'
  <1>1. CASE Connect(c)
    <2>1. backlog' \in Seq(Conns)
      BY <1>1 DEF SocketsTypeOK, Connect
    <2>2. phase' \in [Conns -> {"none", "queued", "open", "done"}]
      BY <1>1 DEF SocketsTypeOK, Connect
    <2> QED
      BY <1>1, <2>1, <2>2 DEF SocketsTypeOK, Connect
  <1>2. CASE ClientSend(c)
    <2>1. PICK n \in 1..(MaxBytes - sent[c]) : sent' = [sent EXCEPT ![c] = @ + n]
      BY <1>2 DEF ClientSend
    <2>2. sent' \in [Conns -> Nat]
      BY <2>1 DEF SocketsTypeOK
    <2> QED
      BY <1>2, <2>2 DEF SocketsTypeOK, ClientSend
  <1>3. CASE ClientRecv(c)
    <2>1. got' \in [Conns -> Nat]
      BY <1>3 DEF SocketsTypeOK, ClientRecv
    <2> QED
      BY <1>3, <2>1 DEF SocketsTypeOK, ClientRecv
  <1>4. CASE ClientShut(c) \/ ClientClose(c)
    <2>1. /\ cl' \in [Conns -> {"up", "shut", "gone"}]
          /\ rst' \in [Conns -> BOOLEAN]
      <3>1. CASE ClientShut(c)
        BY <3>1 DEF SocketsTypeOK, ClientShut
      <3>2. CASE ClientClose(c)
        BY <3>2 DEF SocketsTypeOK, ClientClose
      <3> QED
        BY <1>4, <3>1, <3>2
    <2>2. UNCHANGED <<listening, backlog, phase, owner, sent, taken, echo, got>>
      BY <1>4 DEF ClientShut, ClientClose
    <2> QED
      BY <2>1, <2>2 DEF SocketsTypeOK
  <1>5. CASE ResetArrives(c)
    BY <1>5 DEF SocketsTypeOK, ResetArrives
  <1> QED
    BY <1>1, <1>2, <1>3, <1>4, <1>5

\* So does the end of the process, which closes everything.
LEMMA ExitTypes ==
    ASSUME SocketsTypeOK, ProcessExit
    PROVE  SocketsTypeOK' /\ OwnerInv' /\ OpenFds' = {}
  <1>1. phase' \in [Conns -> {"none", "queued", "open", "done"}]
    BY DEF ProcessExit
  <1>2. /\ backlog' = <<>> /\ backlog' \in Seq(Conns)
        /\ owner' \in [Fds -> Conns \cup {NoConn}] /\ OpenFds' = {}
    BY DEF ProcessExit, OpenFds
  <1>3. SocketsTypeOK'
    BY <1>1, <1>2 DEF SocketsTypeOK, ProcessExit
  <1> QED
    BY <1>2, <1>3 DEF OwnerInv

\* A step that opens and closes nothing keeps the ownership invariant.
LEMMA SameOwner ==
    ASSUME OwnerInv, UNCHANGED <<backlog, owner, phase>>
    PROVE  OwnerInv'
  BY DEF OwnerInv, OpenFds

\* accept() hands out the head of the queue, or the server closes it at once.
LEMMA AcceptOwner ==
    ASSUME SocketsTypeOK, OwnerInv, NEW f \in Fds, AcceptAs(f),
           \/ /\ owner' = [owner EXCEPT ![f] = Head(backlog)]
              /\ phase' = [phase EXCEPT ![Head(backlog)] = "open"]
           \/ /\ owner' = owner
              /\ phase' = [phase EXCEPT ![Head(backlog)] = "done"]
    PROVE  /\ OwnerInv'
           /\ Head(backlog) \in Conns
           /\ phase[Head(backlog)] = "queued"
           /\ \A g \in OpenFds : owner[g] # Head(backlog)
           /\ backlog' \in Seq(Conns)
           /\ owner' \in [Fds -> Conns \cup {NoConn}]
           /\ phase' \in [Conns -> {"none", "queued", "open", "done"}]
  <1> USE SocketsAssumption
  <1> DEFINE h == Head(backlog)
  <1>1. /\ backlog \in Seq(Conns) /\ backlog # <<>>
        /\ backlog' = Tail(backlog) /\ owner[f] = NoConn
    BY DEF AcceptAs, SocketsTypeOK, FreeFds
  <1>2. /\ h \in Conns /\ h = backlog[1] /\ 1 \in 1..Len(backlog)
        /\ Len(backlog') = Len(backlog) - 1
        /\ \A i \in 1..Len(backlog') : backlog'[i] = backlog[i + 1]
    BY <1>1
  <1>3. phase[h] = "queued" /\ \A g \in OpenFds : owner[g] # h
    BY <1>2 DEF OwnerInv
  <1>4. \A i \in 1..Len(backlog') :
           /\ i + 1 \in 1..Len(backlog)
           /\ backlog'[i] # h
           /\ backlog'[i] \in Conns
    BY <1>1, <1>2 DEF OwnerInv
  <1>5. \A i \in 1..Len(backlog') : phase'[backlog'[i]] = "queued"
    <2> TAKE i \in 1..Len(backlog')
    <2>1. phase[backlog'[i]] = "queued"
      BY <1>2, <1>4 DEF OwnerInv
    <2>2. phase'[backlog'[i]] = phase[backlog'[i]]
      BY <1>4 DEF SocketsTypeOK
    <2> QED
      BY <2>1, <2>2
  <1>6. \A i, j \in 1..Len(backlog') : backlog'[i] = backlog'[j] => i = j
    BY <1>1, <1>2, <1>4 DEF OwnerInv
  <1>7. /\ \A g \in OpenFds' : phase'[owner'[g]] = "open"
        /\ \A g, k \in OpenFds' : owner'[g] = owner'[k] => g = k
    <2>1. \A g \in OpenFds' : (g \in OpenFds /\ owner'[g] = owner[g])
                             \/ (g = f /\ owner'[g] = h /\ phase'[h] = "open")
      BY <1>1, <1>2 DEF OpenFds, SocketsTypeOK
    <2>2. \A g \in OpenFds : phase'[owner[g]] = "open"
      <3> TAKE g \in OpenFds
      <3>1. owner[g] \in Conns /\ phase[owner[g]] = "open" /\ owner[g] # h
        BY <1>3 DEF OwnerInv, OpenFds, SocketsTypeOK
      <3>2. phase \in [Conns -> {"none", "queued", "open", "done"}]
        BY DEF SocketsTypeOK
      <3>3. phase'[owner[g]] = phase[owner[g]]
        BY <3>1, <3>2
      <3> QED
        BY <3>1, <3>3
    <2>3. \A g \in OpenFds' : phase'[owner'[g]] = "open"
      BY <2>1, <2>2
    <2>4. \A g, k \in OpenFds : owner[g] = owner[k] => g = k
      BY DEF OwnerInv
    <2>5. \A g, k \in OpenFds' : owner'[g] = owner'[k] => g = k
      BY <1>3, <2>1, <2>4
    <2> QED
      BY <2>3, <2>5
  <1>8. OwnerInv'
    BY <1>5, <1>6, <1>7 DEF OwnerInv
  <1>9. backlog' \in Seq(Conns)
    BY <1>1
  <1>10. /\ owner' \in [Fds -> Conns \cup {NoConn}]
         /\ phase' \in [Conns -> {"none", "queued", "open", "done"}]
    <2>1. owner \in [Fds -> Conns \cup {NoConn}]
      BY DEF SocketsTypeOK
    <2>2. phase \in [Conns -> {"none", "queued", "open", "done"}]
      BY DEF SocketsTypeOK
    <2>3. owner' \in [Fds -> Conns \cup {NoConn}]
      BY <1>2, <2>1
    <2>4. phase' \in [Conns -> {"none", "queued", "open", "done"}]
      BY <1>2, <2>2
    <2> QED
      BY <2>3, <2>4
  <1> QED
    BY <1>2, <1>3, <1>8, <1>9, <1>10

\* close() of a client's descriptor: the others keep their connections.
LEMMA CloseOwner ==
    ASSUME SocketsTypeOK, OwnerInv, NEW f \in Fds, owner[f] \in Conns, CloseFd(f),
           backlog' = backlog
    PROVE  /\ OwnerInv'
           /\ OpenFds' = OpenFds \ {f}
           /\ \A g \in OpenFds' : owner'[g] = owner[g]
           /\ owner' \in [Fds -> Conns \cup {NoConn}]
           /\ phase' \in [Conns -> {"none", "queued", "open", "done"}]
  <1> DEFINE c == owner[f]
  <1>1. /\ owner' = [owner EXCEPT ![f] = NoConn]
        /\ phase' = [phase EXCEPT ![c] = "done"]
        /\ backlog' = backlog
    BY DEF CloseFd
  <1>2. phase[c] = "open" /\ f \in OpenFds
    BY SocketsAssumption DEF OwnerInv, OpenFds
  <1>3. \A g \in OpenFds' : g \in OpenFds /\ g # f /\ owner'[g] = owner[g]
    BY <1>1 DEF OpenFds, SocketsTypeOK
  <1>4. \A g \in OpenFds' : owner[g] # c /\ owner[g] \in Conns
    BY <1>2, <1>3 DEF OwnerInv, OpenFds, SocketsTypeOK
  <1>5. \A g \in OpenFds' : phase'[owner'[g]] = "open"
    BY <1>1, <1>3, <1>4 DEF OwnerInv, SocketsTypeOK
  <1>6. \A i \in 1..Len(backlog) : backlog[i] # c /\ backlog[i] \in Conns
    <2>1. backlog \in Seq(Conns)
      BY DEF SocketsTypeOK
    <2>2. \A i \in 1..Len(backlog) : backlog[i] \in Conns
      BY <2>1
    <2> QED
      BY <1>2, <2>2 DEF OwnerInv
  <1>7. \A i \in 1..Len(backlog') : phase'[backlog'[i]] = "queued"
    BY <1>1, <1>6 DEF OwnerInv, SocketsTypeOK
  <1>8. OwnerInv'
    BY <1>1, <1>3, <1>5, <1>7 DEF OwnerInv
  <1>9. OpenFds' = OpenFds \ {f}
    BY <1>1 DEF OpenFds, SocketsTypeOK
  <1>10. /\ owner' \in [Fds -> Conns \cup {NoConn}]
         /\ phase' \in [Conns -> {"none", "queued", "open", "done"}]
    BY <1>1 DEF SocketsTypeOK
  <1> QED
    BY <1>3, <1>8, <1>9, <1>10

\* A client's step opens no descriptor; connect() adds to the queue.
LEMMA ClientOwner ==
    ASSUME SocketsTypeOK, OwnerInv, NEW c \in Conns,
           \/ Connect(c) \/ ClientSend(c) \/ ClientRecv(c)
           \/ ClientShut(c) \/ ClientClose(c) \/ ResetArrives(c)
    PROVE  /\ OwnerInv'
           /\ owner' = owner
           /\ \A d \in Conns : phase[d] \in {"open", "done"} => phase'[d] = phase[d]
           /\ \A d \in Conns : phase'[d] \in {"open", "done"} => phase'[d] = phase[d]
  <1>1. CASE Connect(c)
    <2>1. /\ backlog \in Seq(Conns) /\ backlog' = Append(backlog, c)
          /\ phase[c] = "none" /\ phase' = [phase EXCEPT ![c] = "queued"]
          /\ owner' = owner
      BY <1>1 DEF Connect, SocketsTypeOK
    <2>2. /\ Len(backlog') = Len(backlog) + 1
          /\ backlog'[Len(backlog) + 1] = c
          /\ \A i \in 1..Len(backlog) : backlog'[i] = backlog[i] /\ backlog[i] # c
      BY <2>1 DEF OwnerInv
    <2>3. \A i \in 1..Len(backlog') : phase'[backlog'[i]] = "queued"
      <3> TAKE i \in 1..Len(backlog')
      <3>1. CASE i = Len(backlog) + 1
        BY <2>1, <2>2, <3>1 DEF SocketsTypeOK
      <3>2. CASE i \in 1..Len(backlog)
        <4>1. backlog[i] \in Conns /\ backlog'[i] = backlog[i] /\ backlog[i] # c
          BY <2>1, <2>2, <3>2
        <4>2. phase'[backlog[i]] = phase[backlog[i]]
          BY <2>1, <4>1 DEF SocketsTypeOK
        <4> QED
          BY <3>2, <4>1, <4>2 DEF OwnerInv
      <3> QED
        BY <2>1, <2>2, <3>1, <3>2
    <2>4. \A i, j \in 1..Len(backlog') : backlog'[i] = backlog'[j] => i = j
      BY <2>1, <2>2 DEF OwnerInv
    <2>5. /\ \A g \in OpenFds' : phase'[owner'[g]] = "open"
          /\ \A g, k \in OpenFds' : owner'[g] = owner'[k] => g = k
      BY <2>1 DEF OwnerInv, OpenFds, SocketsTypeOK
    <2>6. OwnerInv'
      BY <2>3, <2>4, <2>5 DEF OwnerInv
    <2>7. /\ \A d \in Conns : phase[d] \in {"open", "done"} => phase'[d] = phase[d]
          /\ \A d \in Conns : phase'[d] \in {"open", "done"} => phase'[d] = phase[d]
      BY <2>1 DEF SocketsTypeOK
    <2> QED
      BY <2>1, <2>6, <2>7
  <1>2. CASE ~Connect(c)
    <2>1. UNCHANGED <<backlog, owner, phase>>
      BY <1>2 DEF ClientSend, ClientRecv, ClientShut, ClientClose, ResetArrives
    <2> QED
      BY <2>1, SameOwner
  <1> QED
    BY <1>1, <1>2

-----------------------------------------------------------------------------
(* What read(), write() and the clients do to the streams.                 *)

\* A reset comes from a client that is gone.
GoneInv == \A c \in Conns : rst[c] => cl[c] = "gone"

\* The types of what belongs to one connection.
LEMMA ConnParts ==
    ASSUME SocketsTypeOK, NEW c \in Conns
    PROVE  /\ sent[c] \in Nat /\ taken[c] \in Nat /\ got[c] \in Nat
           /\ echo[c] \in Seq(Byte) /\ Len(echo[c]) \in Nat
           /\ cl[c] \in {"up", "shut", "gone"}
  BY DEF SocketsTypeOK

\* How much read() returns.
LEMMA ReadLenType ==
    ASSUME SocketsTypeOK, NEW c \in Conns, Avail(c) > 0
    PROVE  /\ ReadLen(c) \in Nat \ {0} /\ taken[c] + ReadLen(c) <= sent[c]
           /\ taken[c] + ReadLen(c) \in Nat
  BY SocketsAssumption, ConnParts DEF ReadLen, Lesser, Avail

\* How much write() takes.
LEMMA WriteLenSize ==
    ASSUME SocketsTypeOK, NEW c \in Conns, NEW w \in Seq(Byte), Space(c) > 0
    PROVE  /\ WriteLen(c, w) \in Nat /\ WriteLen(c, w) <= Len(w)
           /\ w # <<>> => WriteLen(c, w) > 0
  <1>1. Len(w) \in Nat /\ (w # <<>> => Len(w) > 0) /\ Space(c) \in Int
    BY SocketsAssumption, ConnParts DEF Space, InFlight
  <1> QED
    BY <1>1 DEF WriteLen, Lesser

\* A write() moves its bytes from the buffer to the echo.
LEMMA WriteSplits ==
    ASSUME SocketsTypeOK, NEW c \in Conns, NEW w \in Seq(Byte), Write(c, w),
           Run(c, echo[c], w, taken[c], sent[c])
    PROVE  /\ echo' \in [Conns -> Seq(Byte)]
           /\ SubSeq(w, WriteLen(c, w) + 1, Len(w)) \in Seq(Byte)
           /\ Run(c, echo'[c], SubSeq(w, WriteLen(c, w) + 1, Len(w)), taken[c], sent[c])
           /\ Len(echo'[c]) = Len(echo[c]) + WriteLen(c, w)
           /\ \A d \in Conns \ {c} : echo'[d] = echo[d]
  <1> DEFINE k == WriteLen(c, w)
  <1>1. k \in Nat /\ k <= Len(w) /\ Len(w) \in Nat
    BY WriteLenSize DEF Write
  <1>2. echo' = [echo EXCEPT ![c] = @ \o SubSeq(w, 1, k)]
    BY DEF Write
  <1>3. taken[c] \in Nat /\ sent[c] \in Nat /\ echo[c] \in Seq(Byte)
        /\ echo \in [Conns -> Seq(Byte)]
    BY DEF SocketsTypeOK
  <1> HIDE DEF k
  <1>4. /\ Run(c, echo[c] \o SubSeq(w, 1, k), SubSeq(w, k + 1, Len(w)), taken[c], sent[c])
        /\ Len(echo[c] \o SubSeq(w, 1, k)) = Len(echo[c]) + k
    BY <1>1, <1>3, WriteRunOn
  <1>5. echo[c] \o SubSeq(w, 1, k) \in Seq(Byte) /\ SubSeq(w, k + 1, Len(w)) \in Seq(Byte)
    BY <1>4 DEF Run
  <1>6. /\ echo' \in [Conns -> Seq(Byte)] /\ echo'[c] = echo[c] \o SubSeq(w, 1, k)
        /\ \A d \in Conns \ {c} : echo'[d] = echo[d]
    BY <1>2, <1>3, <1>5
  <1> QED
    BY <1>4, <1>5, <1>6 DEF k

\* A run from the beginning is what EchoService writes.
LEMMA FirstBytes ==
    ASSUME NEW c \in Conns, NEW n \in Nat
    PROVE  Bytes(c, 0, n) = [k \in 1..n |-> <<c, k>>]
  <1>1. \A k \in 1..n : 0 + k = k
    OBVIOUS
  <1> QED
    BY <1>1 DEF Bytes

\* An echo that grew by what waited first is the beginning of what was sent.
LEMMA RunGrows ==
    ASSUME SocketsTypeOK, NEW c \in Conns, NEW w \in Seq(Byte), w # <<>>,
           Write(c, w), Run(c, echo[c], w, taken[c], sent[c])
    PROVE  /\ Len(echo'[c]) \in (Len(echo[c]) + 1)..sent[c]
           /\ echo' = [echo EXCEPT ![c] = [k \in 1..Len(echo'[c]) |-> <<c, k>>]]
  <1>1. /\ echo' \in [Conns -> Seq(Byte)] /\ echo \in [Conns -> Seq(Byte)]
        /\ Run(c, echo'[c], SubSeq(w, WriteLen(c, w) + 1, Len(w)), taken[c], sent[c])
        /\ Len(echo'[c]) = Len(echo[c]) + WriteLen(c, w)
        /\ \A d \in Conns \ {c} : echo'[d] = echo[d]
    BY WriteSplits DEF SocketsTypeOK
  <1>2. WriteLen(c, w) \in Nat /\ WriteLen(c, w) > 0
    BY WriteLenSize DEF Write
  <1>3. /\ Len(echo'[c]) \in Nat /\ Len(echo[c]) \in Nat /\ sent[c] \in Nat
        /\ echo'[c] = Bytes(c, 0, Len(echo'[c])) /\ Len(echo'[c]) <= sent[c]
    <2>1. Len(echo'[c]) \in Nat /\ Len(echo[c]) \in Nat /\ sent[c] \in Nat /\ taken[c] \in Nat
      BY <1>1, ConnParts
    <2>2. Len(SubSeq(w, WriteLen(c, w) + 1, Len(w))) \in Nat
      BY <1>1 DEF Run
    <2> QED
      BY <1>1, <2>1, <2>2 DEF Run
  <1>4. echo'[c] = [k \in 1..Len(echo'[c]) |-> <<c, k>>]
    BY <1>3, FirstBytes
  <1> QED
    BY <1>1, <1>2, <1>3, <1>4

\* What a client does to all streams and resets but its own, and to its own.
LEMMA ClientStreams ==
    ASSUME SocketsTypeOK, OwnerInv, GoneInv, NEW c \in Conns,
           \/ Connect(c) \/ ClientSend(c) \/ ClientRecv(c)
           \/ ClientShut(c) \/ ClientClose(c) \/ ResetArrives(c)
    PROVE  /\ GoneInv'
           /\ UNCHANGED <<owner, taken, echo>>
           /\ \A d \in Conns : phase'[d] # "done" => phase[d] # "done"
           /\ \A d \in Conns : sent[d] <= sent'[d]
           /\ ~listening /\ backlog = <<>> => ~listening' /\ backlog' = <<>>
  <1>1. /\ UNCHANGED <<listening, owner, taken, echo>>
        /\ ~listening => backlog' = backlog
    BY DEF Connect, ClientSend, ClientRecv, ClientShut, ClientClose, ResetArrives
  <1>2. \A d \in Conns : phase'[d] # "done" => phase[d] # "done"
    BY ClientOwner
  <1>3. GoneInv'
    <2>1. CASE Connect(c) \/ ClientSend(c) \/ ClientRecv(c)
      BY <2>1 DEF GoneInv, Connect, ClientSend, ClientRecv
    <2>2. CASE ClientShut(c)
      BY <2>2 DEF GoneInv, ClientShut, SocketsTypeOK
    <2>3. CASE ClientClose(c)
      <3>1. PICK r \in BOOLEAN : /\ rst' = [rst EXCEPT ![c] = r]
                                /\ cl' = [cl EXCEPT ![c] = "gone"]
        BY <2>3 DEF ClientClose
      <3> QED
        BY <3>1 DEF GoneInv, SocketsTypeOK
    <2>4. CASE ResetArrives(c)
      BY <2>4 DEF GoneInv, ResetArrives, SocketsTypeOK
    <2> QED
      BY <2>1, <2>2, <2>3, <2>4
  <1>4. \A d \in Conns : sent[d] <= sent'[d]
    <2>1. CASE ClientSend(c)
      <3>1. PICK n \in 1..(MaxBytes - sent[c]) : sent' = [sent EXCEPT ![c] = @ + n]
        BY <2>1 DEF ClientSend
      <3>2. n \in Int /\ n >= 1 /\ \A d \in Conns : sent[d] \in Nat
        BY <3>1, SocketsAssumption DEF SocketsTypeOK
      <3> QED
        BY <3>1, <3>2 DEF SocketsTypeOK
    <2>2. CASE ~ClientSend(c)
      <3>1. sent' = sent /\ \A d \in Conns : sent[d] \in Nat
        BY <2>2 DEF Connect, ClientRecv, ClientShut, ClientClose, ResetArrives, SocketsTypeOK
      <3> QED
        BY <3>1
    <2> QED
      BY <2>1, <2>2
  <1> QED
    BY <1>1, <1>2, <1>3, <1>4

-----------------------------------------------------------------------------
(* How a count of descriptors moves when one descriptor changes.           *)

\* A set of descriptors has a size.
LEMMA CountNat ==
    ASSUME NEW S \in SUBSET Fds
    PROVE  IsFiniteSet(S) /\ Cardinality(S) \in Nat
  BY FdsFinite, FS_Subset, FS_CardinalityType

\* A descriptor that joins or leaves a set is counted once.
LEMMA CountJoin ==
    ASSUME NEW S \in SUBSET Fds, NEW f \in Fds, f \notin S
    PROVE  Cardinality(S \cup {f}) = Cardinality(S) + 1
  BY CountNat, FS_AddElement

\* And counted no more when it leaves.
LEMMA CountLeave ==
    ASSUME NEW S \in SUBSET Fds, NEW f \in S
    PROVE  Cardinality(S \ {f}) = Cardinality(S) - 1
  BY CountNat, FS_RemoveElement

\* With a descriptor for every connection, none that waits finds them all
\* taken: open descriptors belong to different connections, none to it.
LEMMA EnoughFds ==
    ASSUME SocketsTypeOK, OwnerInv,
           IsFiniteSet(Conns), Cardinality(Conns) <= Cardinality(Fds)
    PROVE  ~AcceptNoFd
  <1> SUFFICES ASSUME backlog # <<>>, FreeFds = {}
               PROVE  FALSE
    BY DEF AcceptNoFd
  <1> DEFINE h == Head(backlog)
             others == Conns \ {h}
  <1>1. h \in Conns /\ phase[h] = "queued"
    <2>1. backlog \in Seq(Conns)
      BY DEF SocketsTypeOK
    <2>2. h = backlog[1] /\ h \in Conns /\ 1 \in 1..Len(backlog)
      BY <2>1
    <2> QED
      BY <2>2 DEF OwnerInv
  <1>2. \A f \in Fds : f \in OpenFds /\ owner[f] \in others
    <2>1. \A f \in Fds : f \in OpenFds /\ owner[f] \in Conns
      BY DEF FreeFds, OpenFds, SocketsTypeOK
    <2> QED
      BY <1>1, <2>1 DEF OwnerInv
  <1>3. owner \in [Fds -> others]
    BY <1>2 DEF SocketsTypeOK
  <1>4. /\ IsFiniteSet(others) /\ Cardinality(others) = Cardinality(Conns) - 1
        /\ Cardinality(Conns) \in Nat /\ Cardinality(Fds) \in Nat
    BY <1>1, FdsFinite, FS_RemoveElement, FS_CardinalityType
  <1>5. Cardinality(others) < Cardinality(Fds)
    BY <1>4
  <1> HIDE DEF others
  <1>6. \E f, g \in Fds : f # g /\ owner[f] = owner[g]
    BY <1>3, <1>4, <1>5, FdsFinite, FS_PigeonHole
  <1> QED
    BY <1>2, <1>6 DEF OwnerInv
=============================================================================
