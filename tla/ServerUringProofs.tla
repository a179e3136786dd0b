-------------------------- MODULE ServerUringProofs --------------------------
(***************************************************************************)
(* Proofs about ServerUring, for every set of connections and descriptors  *)
(* and every size of batches, buffers and queues.                          *)
(*                                                                         *)
(*   OneOperationEach     UringSpec => []OneOperation                      *)
(*   UringImplementsEcho  UringSpec => ImplementsEcho                      *)
(*                                                                         *)
(* Both need a submission queue with more entries than there are           *)
(* descriptors for clients; the second also that an answer fits the socket.*)
(***************************************************************************)
EXTENDS ServerUring, SocketsProofs

-----------------------------------------------------------------------------
(* Queues in which nobody is named twice.                                  *)

Elems(q) == {q[i] : i \in DOMAIN q}
Whos(q) == {q[i].who : i \in DOMAIN q}
Distinct(q) == \A i, j \in DOMAIN q : q[i].who = q[j].who => i = j

\* Appending an entry for somebody who is not yet named.
LEMMA AppendWho ==
    ASSUME NEW S, NEW q \in Seq(S), NEW e \in S
    PROVE  /\ Append(q, e) \in Seq(S)
           /\ Elems(Append(q, e)) = Elems(q) \cup {e}
           /\ Whos(Append(q, e)) = Whos(q) \cup {e.who}
           /\ Distinct(q) /\ e.who \notin Whos(q) => Distinct(Append(q, e))
           /\ Len(Append(q, e)) = Len(q) + 1
  <1> DEFINE p == Append(q, e)
             n == Len(q)
  <1>1. /\ p \in Seq(S) /\ n \in Nat /\ DOMAIN q = 1..n /\ DOMAIN p = 1..(n + 1)
        /\ p[n + 1] = e /\ \A i \in 1..n : p[i] = q[i]
        /\ Len(p) = n + 1
    OBVIOUS
  <1> HIDE DEF p, n
  <1>2. \A i : i \in 1..(n + 1) <=> (i \in 1..n \/ i = n + 1)
    BY <1>1
  <1>3. Elems(p) = Elems(q) \cup {e}
    BY <1>1, <1>2 DEF Elems
  <1>4. Whos(p) = Whos(q) \cup {e.who}
    BY <1>1, <1>2 DEF Whos
  <1>5. ASSUME Distinct(q), e.who \notin Whos(q) PROVE Distinct(p)
    BY <1>1, <1>2, <1>5 DEF Distinct, Whos
  <1> QED
    BY <1>1, <1>3, <1>4, <1>5 DEF p, n

\* Taking the first entry away takes its name away.
LEMMA TailWho ==
    ASSUME NEW S, NEW q \in Seq(S), q # <<>>, Distinct(q)
    PROVE  /\ Tail(q) \in Seq(S) /\ Head(q) \in S /\ Head(q) \in Elems(q)
           /\ Head(q).who \in Whos(q)
           /\ Elems(Tail(q)) = {e \in Elems(q) : e.who # Head(q).who}
           /\ Whos(Tail(q)) = Whos(q) \ {Head(q).who}
           /\ Distinct(Tail(q))
           /\ Len(Tail(q)) = Len(q) - 1
  <1> DEFINE p == Tail(q)
             n == Len(q)
  <1>1. /\ p \in Seq(S) /\ n \in Nat \ {0} /\ DOMAIN q = 1..n /\ DOMAIN p = 1..(n - 1)
        /\ Head(q) = q[1] /\ q[1] \in S /\ \A i \in 1..(n - 1) : p[i] = q[i + 1]
        /\ Len(p) = n - 1
    OBVIOUS
  <1> HIDE DEF p, n
  <1>2. \A i \in 1..(n - 1) : i + 1 \in 1..n /\ i + 1 # 1
    BY <1>1
  <1>3. \A i \in 1..n : i = 1 \/ (i - 1 \in 1..(n - 1) /\ (i - 1) + 1 = i)
    BY <1>1
  <1>4. 1 \in 1..n
    BY <1>1
  <1>5. Head(q) \in Elems(q) /\ Head(q).who \in Whos(q)
    BY <1>1, <1>4 DEF Elems, Whos
  <1>6. \A i \in 1..(n - 1) :
          p[i] \in Elems(q) /\ p[i].who \in Whos(q) /\ p[i].who # q[1].who
    <2> TAKE i \in 1..(n - 1)
    <2>1. p[i] = q[i + 1] /\ i + 1 \in DOMAIN q /\ 1 \in DOMAIN q /\ i + 1 # 1
      BY <1>1, <1>2, <1>4
    <2> QED
      BY <2>1 DEF Distinct, Whos, Elems
  <1>7. \A i \in 1..n : i # 1 => q[i].who \in Whos(p) /\ q[i] \in Elems(p)
    <2> TAKE i \in 1..n
    <2>1. i # 1 => (i - 1 \in DOMAIN p /\ p[i - 1] = q[i])
      BY <1>1, <1>3
    <2> QED
      BY <2>1 DEF Whos, Elems
  <1>8. Whos(p) = Whos(q) \ {Head(q).who}
    <2>1. Whos(p) \subseteq Whos(q) \ {q[1].who}
      BY <1>1, <1>6 DEF Whos
    <2>2. Whos(q) \ {q[1].who} \subseteq Whos(p)
      BY <1>1, <1>7 DEF Whos
    <2> QED
      BY <1>1, <2>1, <2>2
  <1>9. Distinct(p)
    <2> SUFFICES ASSUME NEW i \in 1..(n - 1), NEW j \in 1..(n - 1), p[i].who = p[j].who
                 PROVE  i = j
      BY <1>1 DEF Distinct
    <2>1. q[i + 1].who = q[j + 1].who /\ i + 1 \in DOMAIN q /\ j + 1 \in DOMAIN q
      BY <1>1, <1>2
    <2>2. i + 1 = j + 1
      BY <2>1 DEF Distinct
    <2> QED
      BY <2>2
  <1>10. Elems(p) = {e \in Elems(q) : e.who # Head(q).who}
    <2>1. Elems(p) \subseteq {e \in Elems(q) : e.who # q[1].who}
      BY <1>1, <1>6 DEF Elems
    <2>2. {e \in Elems(q) : e.who # q[1].who} \subseteq Elems(p)
      BY <1>1, <1>7 DEF Elems
    <2> QED
      BY <1>1, <2>1, <2>2
  <1> QED
    BY <1>1, <1>5, <1>8, <1>9, <1>10 DEF p, n

\* A queue in which nobody is named twice is no longer than the set of those
\* that may be named.
LEMMA DistinctFits ==
    ASSUME NEW S, NEW q \in Seq(S), Distinct(q), NEW T, IsFiniteSet(T),
           NEW key \in [Whos(q) -> T],
           \A v, w \in Whos(q) : key[v] = key[w] => v = w
    PROVE  Len(q) <= Cardinality(T)
  <1> DEFINE n == Len(q)
             at == [i \in 1..n |-> key[q[i].who]]
  <1>1. n \in Nat /\ DOMAIN q = 1..n
    OBVIOUS
  <1> HIDE DEF n
  <1>2. \A i \in 1..n : q[i].who \in Whos(q)
    BY <1>1 DEF Whos
  <1>3. at \in [1..n -> T]
    BY <1>2
  <1>4. \A i, j \in 1..n : at[i] = at[j] => i = j
    <2> SUFFICES ASSUME NEW i \in 1..n, NEW j \in 1..n, at[i] = at[j] PROVE i = j
      OBVIOUS
    <2>1. key[q[i].who] = key[q[j].who]
      OBVIOUS
    <2> HIDE DEF at
    <2> QED
      BY <1>1, <1>2, <2>1 DEF Distinct
  <1> HIDE DEF at
  <1>5. IsFiniteSet(1..n) /\ Cardinality(1..n) = n
    BY <1>1, FS_Interval
  <1>6. at \in Injection(1..n, T)
    BY <1>3, <1>4 DEF Injection, IsInjective
  <1>7. Cardinality(1..n) <= Cardinality(T)
    BY <1>6, FS_Injection
  <1> QED
    BY <1>1, <1>5, <1>7 DEF n

-----------------------------------------------------------------------------
(* The invariants.                                                         *)

Sqes ==
    {s \in [op : {"accept", "read", "write"}, who : Conns \cup {NoConn}] :
        s.op = "accept" <=> s.who = NoConn}
Cqes == [who : Conns \cup {NoConn}, res : Int]
Infos == [fd : Fds \cup {listen_fd}, type : {"freed", "read", "write"}, buf : Seq(Byte)]

TypeOK ==
    /\ SocketsTypeOK
    /\ pc \in {"boot", "wait", "reap", "submit", "exit"}
    /\ count \in Nat
    /\ conn \in [Conns -> Infos]
    /\ sq \in Seq(Sqes) /\ ring \subseteq Sqes /\ cq \in Seq(Cqes)

\* Whom a set of entries names, what was asked for, and who has an operation.
Named(S) == {s.who : s \in S}
Asked == Elems(sq) \cup ring
Live == IF Up THEN {NoConn} \cup {c \in Conns : conn[c].type # "freed"} ELSE {}

\* Each operation is in one place, once: prepared, in the kernel or completed;
\* and what has one is the accept and each conn_info in use.
PlaceInv ==
    /\ Distinct(sq) /\ Distinct(cq)
    /\ \A s, t \in ring : s.who = t.who => s = t
    /\ Whos(sq) \cap Named(ring) = {}
    /\ Whos(sq) \cap Whos(cq) = {}
    /\ Named(ring) \cap Whos(cq) = {}
    /\ Whos(sq) \cup Named(ring) \cup Whos(cq) = Live
    /\ \A s \in Asked : s.who # NoConn => s.op = conn[s.who].type
    /\ pc = "reap" => count <= Len(cq)

\* A conn_info in use is that of its connection's descriptor, and an open
\* descriptor has one unless its accept is still to be handled.
InfoInv ==
    /\ ~Up => OpenFds = {}
    /\ pc = "boot" => ~listening /\ backlog = <<>>
    /\ \A c \in Conns : conn[c].type = "freed" => conn[c] = NoInfo
    /\ \A c \in Conns :
          conn[c].type # "freed" => conn[c].fd \in Fds /\ owner[conn[c].fd] = c
    /\ \A e \in Elems(cq) :
          e.who = NoConn =>
              e.res = -1 \/ (e.res \in OpenFds /\ conn[owner[e.res]].type = "freed")
    /\ \A f \in OpenFds : Announced(f) \/ conn[owner[f]].fd = f

\* What was read from c and is still to be written.
Held(c) ==
    IF \/ conn[c].type = "write" /\ c \in Named(Asked)
       \/ conn[c].type = "read" /\ \E e \in Elems(cq) : e.who = c /\ e.res > 0
    THEN conn[c].buf
    ELSE <<>>

\* The bytes of each connection are one run over the socket and the buffer,
\* until a write fails; a completion without bytes is of a client that is gone,
\* or has ended its side and sent no more than was read.
StreamInv ==
    /\ \A c \in Conns :
          phase[c] # "done" /\ ~rst[c] => Run(c, echo[c], Held(c), taken[c], sent[c])
    /\ \A c \in Conns :
          conn[c].type = "write" /\ c \in Named(Asked) => conn[c].buf # <<>>
    /\ \A e \in Elems(cq) : e.who # NoConn =>
          \/ e.res > 0 /\ (conn[e.who].type = "read" => conn[e.who].buf # <<>>)
          \/ e.res <= 0 /\ cl[e.who] = "gone"
          \/ /\ e.res = 0 /\ conn[e.who].type = "read"
             /\ cl[e.who] = "shut" /\ taken[e.who] = sent[e.who]
    /\ GoneInv

\* No client is owed more than its protocol allows.
Ahead == IF Lockstep THEN ReqMax ELSE Window
OwedInv ==
    \A c \in Conns : got[c] <= Len(echo[c]) /\ sent[c] - got[c] <= Ahead
AnswersFit == Ahead <= SndCap

Enough == Cardinality(Fds) < ENTRIES
Inv == TypeOK /\ OwnerInv /\ PlaceInv /\ InfoInv
EchoInv == StreamInv /\ OwedInv

-----------------------------------------------------------------------------
(* Facts about the invariants.                                             *)

\* Facts on the entries of the queues and on records of conn.
LEMMA EntryTypes ==
    /\ Accepting \in Sqes
    /\ \A c \in Conns : Reading(c) \in Sqes /\ Writing(c) \in Sqes
    /\ \A w \in Conns \cup {NoConn}, r \in Int : [who |-> w, res |-> r] \in Cqes
    /\ NoInfo \in Infos
  <1>1. <<>> \in Seq(Byte)
    OBVIOUS
  <1> QED
    BY <1>1, SocketsAssumption DEF Accepting, Reading, Writing, Sqes, Cqes, NoInfo, Infos

\* An empty queue names nobody.
LEMMA EmptyQueue ==
    Elems(<<>>) = {} /\ Whos(<<>>) = {} /\ Distinct(<<>>)
  BY DEF Elems, Whos, Distinct

\* What a queue holds.
LEMMA ElemsType == ASSUME NEW S, NEW q \in Seq(S) PROVE Elems(q) \subseteq S
  BY DEF Elems

\* Whom the entries of a queue name.
LEMMA WhosNamed == ASSUME NEW q PROVE Whos(q) = Named(Elems(q))
  BY DEF Whos, Named, Elems

\* A completion that is not the accept's names a connection.
LEMMA CompletionOf ==
    ASSUME TypeOK, NEW e \in Elems(cq)
    PROVE  e.res \in Int /\ (e.who # NoConn => e.who \in Conns)
  <1>1. cq \in Seq(Cqes)
    BY DEF TypeOK
  <1>2. e \in Cqes
    BY <1>1, ElemsType
  <1> QED
    BY <1>2 DEF Cqes

\* The connection of a conn_info in use is open.
LEMMA InUse ==
    ASSUME InfoInv, OwnerInv, NEW c \in Conns, conn[c].type # "freed"
    PROVE  conn[c].fd \in OpenFds /\ owner[conn[c].fd] = c /\ phase[c] = "open"
  <1>1. conn[c].fd \in OpenFds /\ owner[conn[c].fd] = c
    BY SocketsAssumption DEF InfoInv, OpenFds
  <1>2. \A f \in OpenFds : phase[owner[f]] = "open"
    BY DEF OwnerInv
  <1> QED
    BY <1>1, <1>2

\* Announced() in terms of entries.
LEMMA AnnouncedElems ==
    ASSUME NEW f
    PROVE  Announced(f) <=> \E e \in Elems(cq) : e.who = NoConn /\ e.res = f
  BY DEF Announced, Elems

\* At first there is nothing.
LEMMA InvStarts ==
    ASSUME UringInit
    PROVE  Inv /\ EchoInv /\ Echoer!Init
  <1>1. SocketsTypeOK /\ OwnerInv /\ OpenFds = {}
    BY SocketsStart DEF UringInit
  <1>2. <<>> \in Seq(Sqes) /\ <<>> \in Seq(Cqes)
    OBVIOUS
  <1>3. TypeOK
    BY <1>1, <1>2, EntryTypes DEF UringInit, TypeOK
  <1>4. Asked = {} /\ ~Up
    BY EmptyQueue DEF UringInit, Asked, Up
  <1>5. PlaceInv
    BY <1>4, EmptyQueue DEF UringInit, PlaceInv, Live, Named
  <1>6. InfoInv
    BY <1>1, <1>4, EmptyQueue DEF UringInit, SocketsInit, InfoInv, NoInfo
  <1>7. StreamInv
    <2>1. \A c \in Conns : Held(c) = <<>>
      BY EmptyQueue DEF UringInit, Held, NoInfo
    <2>2. \A c \in Conns : Run(c, <<>>, <<>>, 0, 0)
      BY NewRun
    <2>3. \A c \in Conns : conn[c].type = "freed"
      BY DEF UringInit, NoInfo
    <2> QED
      BY <2>1, <2>2, <2>3, EmptyQueue DEF UringInit, SocketsInit, StreamInv, GoneInv
  <1>8. OwedInv
    <2>1. Ahead \in Nat /\ Len(<<>>) = 0
      BY SocketsAssumption DEF Ahead
    <2> QED
      BY <2>1 DEF UringInit, SocketsInit, OwedInv
  <1>9. Echoer!Init
    BY <1>1 DEF UringInit, SocketsInit, Echoer!Init, ServedPhase
  <1> QED
    BY <1>1, <1>3, <1>5, <1>6, <1>7, <1>8, <1>9 DEF Inv, EchoInv

\* There is room in the submission queue for what a completion asks for: each
\* entry in it is for the accept, or for a descriptor of its own that is not
\* the one of the completion in hand.
LEMMA RoomLeft ==
    ASSUME Inv, Enough, Up, cq # <<>>
    PROVE  /\ Room(sq)
           /\ Head(cq).who = NoConn /\ Head(cq).res \in Fds => Len(sq) + 1 < ENTRIES
  <1> DEFINE w == Head(cq).who
             r == Head(cq).res
             key == [v \in Whos(sq) |-> IF v = NoConn THEN listen_fd ELSE conn[v].fd]
             all == Fds \cup {listen_fd}
  <1>0. /\ IsFiniteSet(Fds) /\ Cardinality(Fds) \in Nat /\ listen_fd \notin Fds
        /\ ENTRIES \in Nat /\ Cardinality(Fds) < ENTRIES
    BY FdsFinite, FS_CardinalityType, ServerUringAssumption DEF Enough
  <1>1. /\ Distinct(sq) /\ sq \in Seq(Sqes) /\ Len(sq) \in Nat
        /\ w \in Whos(cq) /\ Head(cq) \in Elems(cq) /\ w \in Conns \cup {NoConn}
    <2>1. cq \in Seq(Cqes) /\ sq \in Seq(Sqes) /\ Distinct(sq) /\ Distinct(cq)
      BY DEF Inv, TypeOK, PlaceInv
    <2>2. Head(cq) \in Cqes /\ Head(cq) \in Elems(cq) /\ w \in Whos(cq)
      BY <2>1, TailWho
    <2>3. Len(sq) \in Nat
      BY <2>1
    <2> QED
      BY <2>1, <2>2, <2>3 DEF Cqes
  <1>2. \A v \in Whos(sq) : v # w /\ v \in Live
    BY <1>1 DEF Inv, PlaceInv
  <1>3. \A v \in Whos(sq) : v # NoConn =>
            /\ v \in Conns /\ conn[v].type # "freed"
            /\ conn[v].fd \in Fds /\ owner[conn[v].fd] = v
    BY <1>2 DEF Live, Inv, InfoInv
  <1>4. \A v, u \in Whos(sq) : key[v] = key[u] => v = u
    BY <1>0, <1>3
  <1>5. CASE w \in Conns
    <2>1. /\ conn[w].type # "freed" /\ conn[w].fd \in Fds /\ owner[conn[w].fd] = w
      BY <1>1, <1>5, SocketsAssumption DEF Inv, PlaceInv, InfoInv, Live
    <2> DEFINE T == all \ {conn[w].fd}
    <2>2. key \in [Whos(sq) -> T]
      BY <1>0, <1>2, <1>3, <2>1
    <2>3. IsFiniteSet(T) /\ Cardinality(T) = Cardinality(Fds)
      <3>1. IsFiniteSet(all) /\ Cardinality(all) = Cardinality(Fds) + 1
        BY <1>0, FS_AddElement
      <3>2. IsFiniteSet(T) /\ Cardinality(T) = Cardinality(all) - 1
        BY <2>1, <3>1, FS_RemoveElement
      <3> QED
        BY <1>0, <3>1, <3>2
    <2> HIDE DEF key, T
    <2>4. Len(sq) <= Cardinality(T)
      BY <1>1, <1>4, <2>2, <2>3, DistinctFits
    <2> QED
      BY <1>0, <1>1, <1>5, <2>3, <2>4, SocketsAssumption DEF Room
  <1>6. CASE w = NoConn /\ r \in Fds
    <2>1. r \in OpenFds /\ conn[owner[r]].type = "freed"
      BY <1>1, <1>6, SocketsAssumption DEF Inv, InfoInv
    <2> DEFINE T == Fds \ {r}
    <2>2. key \in [Whos(sq) -> T]
      BY <1>2, <1>3, <1>6, <2>1
    <2>3. IsFiniteSet(T) /\ Cardinality(T) = Cardinality(Fds) - 1
      BY <1>0, <1>6, FS_RemoveElement
    <2> HIDE DEF key, T
    <2>4. Len(sq) <= Cardinality(T)
      BY <1>1, <1>4, <2>2, <2>3, DistinctFits
    <2> QED
      BY <1>0, <1>1, <2>3, <2>4 DEF Room
  <1>7. CASE w = NoConn /\ r \notin Fds
    <2>1. key \in [Whos(sq) -> Fds]
      BY <1>2, <1>3, <1>7
    <2> HIDE DEF key
    <2>2. Len(sq) <= Cardinality(Fds)
      BY <1>0, <1>1, <1>4, <2>1, DistinctFits
    <2> QED
      BY <1>0, <1>1, <1>7, <2>2 DEF Room
  <1> QED
    BY <1>1, <1>5, <1>6, <1>7

-----------------------------------------------------------------------------
(* What the loop does with a completion.                                   *)

\* A new connection gets a conn_info and its first read.
TakesOn(c) ==
    /\ Head(cq).who = NoConn /\ Head(cq).res \in OpenFds
    /\ owner[Head(cq).res] = c /\ conn[c].type = "freed"
    /\ conn' = [conn EXCEPT ![c] = [fd |-> Head(cq).res, type |-> "read", buf |-> <<>>]]
    /\ sq' = Append(Append(sq, Reading(c)), Accepting)
    /\ UNCHANGED <<owner, phase>>

\* There is none, or no memory for it.
TurnsAway ==
    /\ Head(cq).who = NoConn
    /\ \/ Head(cq).res = -1 /\ UNCHANGED <<owner, phase>>
       \/ Head(cq).res \in OpenFds /\ CloseFd(Head(cq).res)
    /\ sq' = Append(sq, Accepting)
    /\ UNCHANGED conn

\* The connection has ended.
LetsGo(c) ==
    /\ Head(cq).who = c /\ Head(cq).res <= 0
    /\ conn[c].type # "freed"
    /\ Free(c)

\* A read is followed by a write, and a write by a read.
Turn(t) == IF t = "read" THEN "write" ELSE "read"
GoesOn(c) ==
    /\ Head(cq).who = c /\ Head(cq).res > 0
    /\ conn[c].type # "freed"
    /\ conn' = [conn EXCEPT ![c].type = Turn(@)]
    /\ sq' = Append(sq, [op |-> Turn(conn[c].type), who |-> c])
    /\ UNCHANGED <<owner, phase>>

ReapStep ==
    /\ Reap /\ Up /\ cq # <<>>
    /\ TurnsAway \/ \E c \in Conns : TakesOn(c) \/ LetsGo(c) \/ GoesOn(c)

\* With enough room nothing else can happen.
LEMMA ReapCases ==
    ASSUME Inv, Enough, ReapAccept \/ ReapRead \/ ReapWrite
    PROVE  ReapStep
  <1> DEFINE w == Head(cq).who
             r == Head(cq).res
  <1>1. Reap /\ Up /\ pc = "reap" /\ count > 0
    BY DEF ReapAccept, ReapRead, ReapWrite, Completed, Reap, Up
  <1>2. cq \in Seq(Cqes) /\ count \in Nat /\ count <= Len(cq) /\ Distinct(cq)
    BY <1>1 DEF Inv, TypeOK, PlaceInv
  <1>3. cq # <<>>
    BY <1>1, <1>2
  <1>4. /\ Head(cq) \in Cqes /\ Head(cq) \in Elems(cq) /\ w \in Whos(cq)
        /\ w \in Conns \cup {NoConn} /\ r \in Int
    <2>1. Head(cq) \in Cqes /\ Head(cq) \in Elems(cq) /\ w \in Whos(cq)
      BY <1>2, <1>3, TailWho
    <2> QED
      BY <2>1 DEF Cqes
  <1>5. /\ Room(sq)
        /\ w = NoConn /\ r \in Fds => Len(sq) + 1 < ENTRIES
    BY <1>1, <1>3, RoomLeft
  <1>6. CASE w = NoConn
    <2>1. r = -1 \/ (r \in OpenFds /\ conn[owner[r]].type = "freed")
      BY <1>4, <1>6 DEF Inv, InfoInv
    <2>2. ReapAccept
      BY <1>6 DEF ReapAccept, ReapRead, ReapWrite, Completed
    <2>3. r >= 0 => r \in OpenFds /\ r \in Fds /\ conn[owner[r]].type = "freed" /\ owner[r] \in Conns
      BY <2>1 DEF OpenFds, Inv, TypeOK, SocketsTypeOK
    <2>4. Prepared(sq, Accepting) = Append(sq, Accepting)
      BY <1>5 DEF Prepared
    <2>5. CASE r < 0
      <3>1. r = -1
        BY <1>4, <2>1, <2>5, SocketsAssumption DEF OpenFds
      <3>2. sq' = Append(sq, Accepting) /\ UNCHANGED <<owner, phase, conn>>
        BY <1>4, <2>2, <2>4, <2>5 DEF ReapAccept
      <3> QED
        BY <1>1, <1>3, <1>6, <3>1, <3>2 DEF ReapStep, TurnsAway
    <2>6. CASE r >= 0
      <3>1. CASE CloseFd(r) /\ sq' = Prepared(sq, Accepting) /\ UNCHANGED conn
        BY <1>1, <1>3, <1>6, <2>3, <2>4, <2>6, <3>1 DEF ReapStep, TurnsAway
      <3>2. CASE /\ conn' = [conn EXCEPT ![owner[r]] = Typed([NoInfo EXCEPT !.fd = r], "read")]
                 /\ sq' = Prepared(Prepared(sq, Reading(owner[r])), Accepting)
                 /\ UNCHANGED <<owner, phase>>
        <4>1. Typed([NoInfo EXCEPT !.fd = r], "read") = [fd |-> r, type |-> "read", buf |-> <<>>]
          BY <1>5 DEF Typed, NoInfo
        <4>2. Prepared(sq, Reading(owner[r])) = Append(sq, Reading(owner[r]))
          BY <1>5 DEF Prepared
        <4>3. Room(Append(sq, Reading(owner[r])))
          <5>1. sq \in Seq(Sqes) /\ Reading(owner[r]) \in Sqes
            BY <2>3, <2>6, EntryTypes DEF Inv, TypeOK
          <5>2. Len(Append(sq, Reading(owner[r]))) = Len(sq) + 1
            BY <5>1, AppendWho
          <5> QED
            BY <1>5, <1>6, <2>3, <2>6, <5>2 DEF Room
        <4>4. sq' = Append(Append(sq, Reading(owner[r])), Accepting)
          BY <3>2, <4>2, <4>3 DEF Prepared
        <4>5. TakesOn(owner[r])
          BY <1>6, <2>3, <2>6, <3>2, <4>1, <4>4 DEF TakesOn
        <4> QED
          BY <1>1, <1>3, <2>3, <2>6, <4>5 DEF ReapStep
      <3> QED
        BY <1>4, <2>2, <2>6, <3>1, <3>2 DEF ReapAccept
    <2> QED
      BY <1>4, <2>5, <2>6
  <1>7. CASE w \in Conns
    <2>1. conn[w] \in Infos /\ conn[w].type # "freed" /\ w # NoConn
      BY <1>4, <1>7, SocketsAssumption DEF Inv, TypeOK, PlaceInv, Live
    <2>2. ReapRead \/ ReapWrite
      BY <1>7, SocketsAssumption DEF ReapAccept
    <2>3. \A s : Prepared(sq, s) = Append(sq, s)
      BY <1>5 DEF Prepared
    <2>4. CASE r <= 0
      <3>1. Free(w)
        BY <2>2, <2>4, <1>4 DEF ReapRead, ReapWrite
      <3> QED
        BY <1>1, <1>3, <1>7, <2>1, <2>4, <3>1 DEF ReapStep, LetsGo
    <2>5. CASE r > 0
      <3>1. CASE ReapRead
        <4>1. /\ conn[w].type = "read" /\ Turn("read") = "write"
              /\ sq' = Append(sq, Writing(w)) /\ UNCHANGED <<owner, phase>>
              /\ conn' = [conn EXCEPT ![w] = [@ EXCEPT !.type = "write"]]
          BY <1>4, <1>5, <2>3, <2>5, <3>1 DEF ReapRead, Completed, Typed, Turn
        <4>2. Writing(w) = [op |-> Turn(conn[w].type), who |-> w]
          BY <4>1 DEF Writing
        <4>3. conn' = [conn EXCEPT ![w].type = Turn(@)]
          BY <4>1
        <4> QED
          BY <1>1, <1>3, <1>7, <2>1, <2>5, <4>1, <4>2, <4>3 DEF ReapStep, GoesOn
      <3>2. CASE ReapWrite
        <4>1. /\ conn[w].type = "write" /\ Turn("write") = "read"
              /\ sq' = Append(sq, Reading(w)) /\ UNCHANGED <<owner, phase>>
              /\ conn' = [conn EXCEPT ![w] = [@ EXCEPT !.type = "read"]]
          BY <1>4, <1>5, <2>3, <2>5, <3>2 DEF ReapWrite, Completed, Typed, Turn
        <4>2. Reading(w) = [op |-> Turn(conn[w].type), who |-> w]
          BY <4>1 DEF Reading
        <4>3. conn' = [conn EXCEPT ![w].type = Turn(@)]
          BY <4>1
        <4> QED
          BY <1>1, <1>3, <1>7, <2>1, <2>5, <4>1, <4>2, <4>3 DEF ReapStep, GoesOn
      <3> QED
        BY <2>2, <3>1, <3>2
    <2> QED
      BY <1>4, <2>4, <2>5
  <1> QED
    BY <1>4, <1>6, <1>7

-----------------------------------------------------------------------------
(* Where the operations are.                                               *)

\* A conn_info is in use until it is freed.
LEMMA LiveSame ==
    ASSUME Up' = Up, \A c \in Conns : conn'[c].type = conn[c].type
    PROVE  Live' = Live
  BY DEF Live

\* What moves from one of three places to another is still in one place.
LEMMA MovesOver ==
    ASSUME NEW A, NEW B, NEW C, NEW L, NEW x \in B,
           A \cap B = {}, A \cap C = {}, B \cap C = {}, A \cup B \cup C = L
    PROVE  /\ A \cap (B \ {x}) = {}
           /\ A \cap (C \cup {x}) = {}
           /\ (B \ {x}) \cap (C \cup {x}) = {}
           /\ A \cup (B \ {x}) \cup (C \cup {x}) = L
  OBVIOUS

\* The kernel completes an operation it holds.
LEMMA DonePlaces ==
    ASSUME TypeOK, PlaceInv, NEW s \in ring, NEW r \in Int, Done(s, r),
           UNCHANGED <<pc, count, sq>>, \A c \in Conns : conn'[c].type = conn[c].type
    PROVE  /\ PlaceInv'
           /\ cq' \in Seq(Cqes) /\ ring' \subseteq Sqes
           /\ Elems(cq') = Elems(cq) \cup {[who |-> s.who, res |-> r]}
           /\ s.who \notin Whos(cq)
           /\ Named(Asked') = Named(Asked) \ {s.who}
  <1> DEFINE e == [who |-> s.who, res |-> r]
  <1>1. /\ ring' = ring \ {s} /\ cq' = Append(cq, e) /\ sq' = sq
        /\ cq \in Seq(Cqes) /\ ring \subseteq Sqes
        /\ e \in Cqes /\ e.who = s.who /\ s.who \in Named(ring)
    BY DEF Done, TypeOK, Sqes, Cqes, Named
  <1>2. Live' = Live
    BY LiveSame DEF Up
  <1> HIDE DEF e
  <1>3. /\ cq' \in Seq(Cqes) /\ Elems(cq') = Elems(cq) \cup {e}
        /\ Whos(cq') = Whos(cq) \cup {s.who} /\ Len(cq') = Len(cq) + 1
        /\ (Distinct(cq) /\ s.who \notin Whos(cq) => Distinct(cq'))
    BY <1>1, AppendWho
  <1>4. s.who \notin Whos(cq) /\ s.who \notin Whos(sq)
    BY <1>1 DEF PlaceInv
  <1>5. Named(ring') = Named(ring) \ {s.who}
    BY <1>1 DEF Named, PlaceInv
  <1>6. \A t \in ring' : t \in ring
    BY <1>1
  <1>7. Asked' \subseteq Asked /\ Named(Asked') = Named(Asked) \ {s.who}
    <2>1. /\ Named(Asked) = Whos(sq) \cup Named(ring)
          /\ Named(Asked') = Whos(sq) \cup Named(ring')
      BY <1>1 DEF Named, Asked, Whos, Elems
    <2> QED
      BY <1>1, <1>4, <1>5, <2>1 DEF Asked
  <1>8. \A t \in Asked' : t.who # NoConn => t.op = conn'[t.who].type
    <2> SUFFICES ASSUME NEW t \in Asked', t.who # NoConn
                 PROVE  t.op = conn'[t.who].type
      OBVIOUS
    <2>1. t \in Asked /\ t \in Sqes
      BY <1>1, <1>7 DEF Asked, TypeOK, Elems
    <2>2. t.who \in Conns
      BY <2>1 DEF Sqes
    <2> QED
      BY <2>1, <2>2 DEF PlaceInv
  <1>9. pc' = "reap" => count' <= Len(cq')
    <2>1. Len(cq) \in Nat /\ count \in Nat
      BY <1>1 DEF TypeOK
    <2> QED
      BY <1>3, <2>1 DEF PlaceInv
  <1>10. PlaceInv'
    <2>1. Distinct(sq') /\ Distinct(cq')
      BY <1>1, <1>3, <1>4 DEF PlaceInv
    <2>2. \A t, u \in ring' : t.who = u.who => t = u
      BY <1>6 DEF PlaceInv
    <2>3. /\ Whos(sq) \cap Named(ring) = {}
          /\ Whos(sq) \cap Whos(cq) = {}
          /\ Named(ring) \cap Whos(cq) = {}
          /\ Whos(sq) \cup Named(ring) \cup Whos(cq) = Live
      BY DEF PlaceInv
    <2>4. /\ Whos(sq') \cap Named(ring') = {}
          /\ Whos(sq') \cap Whos(cq') = {}
          /\ Named(ring') \cap Whos(cq') = {}
          /\ Whos(sq') \cup Named(ring') \cup Whos(cq') = Live'
      <3>1. /\ Whos(sq) \cap (Named(ring) \ {s.who}) = {}
            /\ Whos(sq) \cap (Whos(cq) \cup {s.who}) = {}
            /\ (Named(ring) \ {s.who}) \cap (Whos(cq) \cup {s.who}) = {}
            /\ Whos(sq) \cup (Named(ring) \ {s.who}) \cup (Whos(cq) \cup {s.who}) = Live
        BY <1>1, <2>3, MovesOver
      <3>2. Whos(sq') = Whos(sq)
        BY <1>1 DEF Whos
      <3> QED
        BY <1>2, <1>3, <1>5, <3>1, <3>2, Zenon
    <2> QED
      BY <1>8, <1>9, <2>1, <2>2, <2>4 DEF PlaceInv
  <1> QED
    BY <1>1, <1>3, <1>4, <1>7, <1>10 DEF e

\* io_uring_submit() hands all that is prepared to the kernel.
LEMMA SubmitPlaces ==
    ASSUME TypeOK, PlaceInv, UringSubmit
    PROVE  PlaceInv' /\ TypeOK' /\ Asked' = Asked
  <1>1. /\ ring' = ring \cup Elems(sq) /\ sq' = <<>> /\ pc' = "wait"
        /\ UNCHANGED <<sockVars, count, conn, cq>> /\ Up /\ Up'
    BY DEF UringSubmit, Elems, Up
  <1>2. <<>> \in Seq(Sqes) /\ Elems(sq') = {} /\ Whos(sq') = {} /\ Distinct(sq')
    BY <1>1, EmptyQueue
  <1>3. Elems(sq) \subseteq Sqes /\ ring \subseteq Sqes
    BY DEF TypeOK, Elems
  <1>4. TypeOK'
    BY <1>1, <1>2, <1>3 DEF TypeOK, SocketsTypeOK, sockVars
  <1>5. Asked' = Asked
    BY <1>1, <1>2 DEF Asked
  <1>6. Named(ring') = Named(ring) \cup Whos(sq)
    BY <1>1 DEF Named, Elems, Whos
  <1>7. \A s, t \in ring' : s.who = t.who => s = t
    <2>1. \A s, t \in Elems(sq) : s.who = t.who => s = t
      BY DEF PlaceInv, Elems, Distinct
    <2>2. \A s \in Elems(sq), t \in ring : s.who # t.who
      BY WhosNamed DEF PlaceInv, Named
    <2> QED
      BY <1>1, <2>1, <2>2 DEF PlaceInv
  <1>8. Live' = Live
    BY <1>1, LiveSame
  <1>9. \A s \in Asked' : s.who # NoConn => s.op = conn'[s.who].type
    BY <1>1, <1>5 DEF PlaceInv
  <1> QED
    BY <1>1, <1>2, <1>4, <1>5, <1>6, <1>7, <1>8, <1>9 DEF PlaceInv
\* Entries of one queue in which nobody is named twice.
LEMMA OneEntry ==
    ASSUME NEW q, Distinct(q), NEW d \in Elems(q), NEW e \in Elems(q), d.who = e.who
    PROVE  d = e
  BY DEF Distinct, Elems

\* The completion in hand, and what is left of the batch.
LEMMA ReapTakes ==
    ASSUME TypeOK, PlaceInv, Reap, cq # <<>>
    PROVE  /\ cq' \in Seq(Cqes) /\ Distinct(cq')
           /\ Elems(cq') = {e \in Elems(cq) : e.who # Head(cq).who}
           /\ Whos(cq') = Whos(cq) \ {Head(cq).who}
           /\ Head(cq) \in Cqes /\ Head(cq) \in Elems(cq)
           /\ Head(cq).who \in Live
           /\ Head(cq).who \notin Whos(sq) /\ Head(cq).who \notin Named(ring)
           /\ \A e \in Elems(cq) : e.who = Head(cq).who => e = Head(cq)
           /\ count' \in Nat /\ (pc' = "reap" => count' <= Len(cq'))
           /\ UNCHANGED <<ring, pc>> /\ Up
  <1>1. /\ cq \in Seq(Cqes) /\ Distinct(cq) /\ cq' = Tail(cq) /\ count' = count - 1
        /\ count \in Nat /\ count > 0 /\ pc = "reap" /\ count <= Len(cq)
        /\ UNCHANGED <<ring, pc>>
    BY DEF Reap, TypeOK, PlaceInv
  <1>2. /\ Tail(cq) \in Seq(Cqes) /\ Head(cq) \in Cqes /\ Head(cq) \in Elems(cq)
        /\ Head(cq).who \in Whos(cq)
        /\ Elems(Tail(cq)) = {e \in Elems(cq) : e.who # Head(cq).who}
        /\ Whos(Tail(cq)) = Whos(cq) \ {Head(cq).who}
        /\ Distinct(Tail(cq)) /\ Len(Tail(cq)) = Len(cq) - 1
    BY <1>1, TailWho
  <1>3. /\ Head(cq).who \in Live
        /\ Head(cq).who \notin Whos(sq) /\ Head(cq).who \notin Named(ring)
    BY <1>2 DEF PlaceInv
  <1>4. \A e \in Elems(cq) : e.who = Head(cq).who => e = Head(cq)
    BY <1>1, <1>2, OneEntry
  <1>5. count' \in Nat /\ count' <= Len(cq')
    <2>1. Len(cq) \in Nat
      BY <1>1
    <2> QED
      BY <1>1, <1>2, <2>1
  <1> QED
    BY <1>1, <1>2, <1>3, <1>4, <1>5 DEF Up

\* After a completion its operation is gone, and those in N have a new one.
LEMMA ReapPlaces ==
    ASSUME TypeOK, PlaceInv, Reap, cq # <<>>,
           NEW N, N \cap (Live \ {Head(cq).who}) = {},
           Live' = (Live \ {Head(cq).who}) \cup N,
           Distinct(sq'), Whos(sq') = Whos(sq) \cup N,
           \A s \in Asked' : s.who # NoConn => s.op = conn'[s.who].type
    PROVE  PlaceInv'
  <1> DEFINE w == Head(cq).who
  <1>1. /\ Distinct(cq') /\ Whos(cq') = Whos(cq) \ {w} /\ ring' = ring
        /\ w \in Live /\ w \notin Whos(sq) /\ w \notin Named(ring)
        /\ (pc' = "reap" => count' <= Len(cq'))
    BY ReapTakes
  <1>2. /\ Whos(sq) \cap Named(ring) = {}
        /\ Whos(sq) \cap Whos(cq) = {}
        /\ Named(ring) \cap Whos(cq) = {}
        /\ Whos(sq) \cup Named(ring) \cup Whos(cq) = Live
        /\ \A s, t \in ring : s.who = t.who => s = t
    BY DEF PlaceInv
  <1> HIDE DEF w
  <1>3. /\ (Whos(sq) \cup N) \cap Named(ring) = {}
        /\ (Whos(sq) \cup N) \cap (Whos(cq) \ {w}) = {}
        /\ Named(ring) \cap (Whos(cq) \ {w}) = {}
        /\ (Whos(sq) \cup N) \cup Named(ring) \cup (Whos(cq) \ {w}) = (Live \ {w}) \cup N
    <2>1. N \cap (Live \ {w}) = {}
      BY DEF w
    <2> QED
      BY <1>1, <1>2, <2>1
  <1>4. Live' = (Live \ {w}) \cup N
    BY DEF w
  <1>5. Named(ring') = Named(ring)
    BY <1>1
  <1>6. /\ Whos(sq') \cap Named(ring') = {}
        /\ Whos(sq') \cap Whos(cq') = {}
        /\ Named(ring') \cap Whos(cq') = {}
        /\ Whos(sq') \cup Named(ring') \cup Whos(cq') = Live'
    BY <1>1, <1>3, <1>4, <1>5, Zenon
  <1> QED
    BY <1>1, <1>2, <1>6 DEF PlaceInv

-----------------------------------------------------------------------------
(* Each step keeps the invariant.                                          *)

\* A descriptor is announced only while its accept is still to be handled.
LEMMA AnnouncedHead ==
    ASSUME TypeOK, PlaceInv, Reap, cq # <<>>
    PROVE  \A f : IF Head(cq).who = NoConn
                  THEN (Announced(f) <=> Head(cq).res = f) /\ ~Announced(f)'
                  ELSE Announced(f)' <=> Announced(f)
  <1> TAKE f
  <1>1. /\ Elems(cq') = {e \in Elems(cq) : e.who # Head(cq).who}
        /\ Head(cq) \in Elems(cq)
        /\ \A e \in Elems(cq) : e.who = Head(cq).who => e = Head(cq)
    BY ReapTakes
  <1>2. Announced(f) <=> \E e \in Elems(cq) : e.who = NoConn /\ e.res = f
    BY AnnouncedElems
  <1>3. Announced(f)' <=> \E e \in Elems(cq') : e.who = NoConn /\ e.res = f
    BY DEF Announced, Elems
  <1> QED
    BY <1>1, <1>2, <1>3

\* No new connection: the next accept is prepared.
LEMMA TurnsAwayInv ==
    ASSUME Inv, Reap, cq # <<>>, TurnsAway
    PROVE  Inv'
  <1> DEFINE r == Head(cq).res
  <1>1. TypeOK /\ SocketsTypeOK /\ OwnerInv /\ PlaceInv /\ InfoInv
    BY DEF Inv, TypeOK
  <1>2. /\ Head(cq).who = NoConn /\ sq' = Append(sq, Accepting) /\ conn' = conn
        /\ \/ r = -1 /\ UNCHANGED <<owner, phase>>
           \/ r \in OpenFds /\ CloseFd(r)
        /\ UNCHANGED <<listening, backlog, cl, rst, sent, taken, echo, got, pc, ring>>
    BY DEF TurnsAway, Reap
  <1>3. /\ cq' \in Seq(Cqes) /\ Elems(cq') = {e \in Elems(cq) : e.who # NoConn}
        /\ Head(cq) \in Elems(cq) /\ NoConn \in Live /\ NoConn \notin Whos(sq)
        /\ count' \in Nat /\ Up
    BY <1>1, <1>2, ReapTakes
  <1>4. /\ sq' \in Seq(Sqes) /\ Elems(sq') = Elems(sq) \cup {Accepting}
        /\ Whos(sq') = Whos(sq) \cup {NoConn} /\ Distinct(sq')
    <2>1. sq \in Seq(Sqes) /\ Accepting \in Sqes /\ Accepting.who = NoConn /\ Distinct(sq)
      BY <1>1, EntryTypes DEF TypeOK, PlaceInv, Accepting
    <2> QED
      BY <1>2, <1>3, <2>1, AppendWho
  <1>5. /\ OwnerInv' /\ OpenFds' = OpenFds \ {r} /\ \A g \in OpenFds' : owner'[g] = owner[g]
        /\ owner' \in [Fds -> Conns \cup {NoConn}]
        /\ phase' \in [Conns -> {"none", "queued", "open", "done"}]
    <2>1. CASE r = -1 /\ UNCHANGED <<owner, phase>>
      <3>1. OpenFds' = OpenFds /\ r \notin OpenFds
        BY <2>1, SocketsAssumption DEF OpenFds
      <3> QED
        BY <1>1, <1>2, <2>1, <3>1, SameOwner DEF SocketsTypeOK
    <2>2. CASE r \in OpenFds /\ CloseFd(r)
      <3>1. r \in Fds /\ owner[r] \in Conns
        BY <1>1, <2>2 DEF OpenFds, SocketsTypeOK
      <3> QED
        BY <1>1, <1>2, <2>2, <3>1, CloseOwner
    <2> QED
      BY <1>2, <2>1, <2>2
  <1>6. TypeOK'
    BY <1>1, <1>2, <1>3, <1>4, <1>5 DEF TypeOK, SocketsTypeOK
  <1>7. PlaceInv'
    <2>1. Live' = Live
      BY <1>2, LiveSame DEF Up
    <2>2. \A s \in Asked' : s.who # NoConn => s.op = conn'[s.who].type
      BY <1>1, <1>2, <1>4 DEF Asked, PlaceInv, Accepting
    <2> QED
      <3>1. Live' = (Live \ {NoConn}) \cup {NoConn} /\ {NoConn} \cap (Live \ {NoConn}) = {}
        BY <1>3, <2>1
      <3> QED
        BY <1>1, <1>2, <1>4, <2>2, <3>1, ReapPlaces
  <1>8. InfoInv'
    <2>1. Up' /\ pc' # "boot"
      BY <1>2, <1>3 DEF Up
    <2>2. \A c \in Conns : conn'[c].type = "freed" => conn'[c] = NoInfo
      BY <1>1, <1>2 DEF InfoInv
    <2>3. \A c \in Conns :
            conn'[c].type # "freed" => conn'[c].fd \in Fds /\ owner'[conn'[c].fd] = c
      <3> SUFFICES ASSUME NEW c \in Conns, conn[c].type # "freed"
                   PROVE  conn[c].fd \in Fds /\ owner'[conn[c].fd] = c
        BY <1>2
      <3>1. conn[c].fd \in Fds /\ owner[conn[c].fd] = c /\ conn[c].fd \in OpenFds
        BY <1>1, SocketsAssumption DEF InfoInv, OpenFds
      <3>2. r \in OpenFds => conn[owner[r]].type = "freed"
        BY <1>1, <1>2, <1>3, SocketsAssumption DEF InfoInv, OpenFds
      <3> QED
        BY <1>5, <3>1, <3>2
    <2>4. \A e \in Elems(cq') : e.who # NoConn
      BY <1>3
    <2>5. \A f \in OpenFds' : conn'[owner'[f]].fd = f
      BY <1>1, <1>2, <1>5, AnnouncedHead DEF InfoInv
    <2> QED
      BY <2>1, <2>2, <2>3, <2>4, <2>5 DEF InfoInv
  <1> QED
    BY <1>5, <1>6, <1>7, <1>8 DEF Inv

\* A new connection: its conn_info is in use, its read and the next accept
\* are prepared.
LEMMA TakesOnInv ==
    ASSUME Inv, Reap, cq # <<>>, NEW c \in Conns, TakesOn(c)
    PROVE  Inv'
  <1> DEFINE r == Head(cq).res
             i == [fd |-> r, type |-> "read", buf |-> <<>>]
  <1>1. TypeOK /\ SocketsTypeOK /\ OwnerInv /\ PlaceInv /\ InfoInv /\ conn \in [Conns -> Infos]
    BY DEF Inv, TypeOK
  <1>2. /\ Head(cq).who = NoConn /\ sq' = Append(Append(sq, Reading(c)), Accepting)
        /\ conn' = [conn EXCEPT ![c] = i] /\ conn[c].type = "freed"
        /\ r \in OpenFds /\ owner[r] = c
        /\ UNCHANGED <<listening, backlog, owner, phase, cl, rst, sent, taken, echo, got, pc, ring>>
    BY DEF TakesOn, Reap
  <1>3. /\ cq' \in Seq(Cqes) /\ Elems(cq') = {e \in Elems(cq) : e.who # NoConn}
        /\ Head(cq) \in Elems(cq) /\ NoConn \in Live /\ NoConn \notin Whos(sq)
        /\ count' \in Nat /\ Up
    BY <1>1, <1>2, ReapTakes
  <1>4. c \notin Live /\ c # NoConn
    BY <1>2, SocketsAssumption DEF Live
  <1>5. /\ sq' \in Seq(Sqes) /\ Elems(sq') = Elems(sq) \cup {Reading(c), Accepting}
        /\ Whos(sq') = Whos(sq) \cup {c, NoConn} /\ Distinct(sq')
    <2>1. /\ sq \in Seq(Sqes) /\ Distinct(sq) /\ c \notin Whos(sq)
          /\ Accepting \in Sqes /\ Accepting.who = NoConn
          /\ Reading(c) \in Sqes /\ Reading(c).who = c
      BY <1>1, <1>4, EntryTypes DEF TypeOK, PlaceInv, Accepting, Reading
    <2> DEFINE q == Append(sq, Reading(c))
    <2>2. /\ q \in Seq(Sqes) /\ Elems(q) = Elems(sq) \cup {Reading(c)}
          /\ Whos(q) = Whos(sq) \cup {c} /\ Distinct(q)
      BY <2>1, AppendWho
    <2>3. NoConn \notin Whos(q) /\ sq' = Append(q, Accepting)
      BY <1>2, <1>3, <1>4, <2>2
    <2> HIDE DEF q
    <2>4. /\ sq' \in Seq(Sqes) /\ Elems(sq') = Elems(q) \cup {Accepting}
          /\ Whos(sq') = Whos(q) \cup {NoConn} /\ Distinct(sq')
      BY <2>1, <2>2, <2>3, AppendWho
    <2> QED
      BY <2>2, <2>4
  <1>6. /\ i \in Infos /\ conn' \in [Conns -> Infos] /\ conn'[c] = i
        /\ \A d \in Conns \ {c} : conn'[d] = conn[d]
    <2>1. <<>> \in Seq(Byte) /\ r \in Fds
      BY <1>2 DEF OpenFds
    <2>2. i \in Infos
      BY <2>1 DEF Infos
    <2> QED
      BY <1>1, <1>2, <2>2
  <1> HIDE DEF i
  <1>7. i.fd = r /\ i.type = "read"
    BY DEF i
  <1>8. TypeOK'
    BY <1>1, <1>2, <1>3, <1>5, <1>6 DEF TypeOK, SocketsTypeOK
  <1>9. PlaceInv'
    <2>1. Live' = Live \cup {c}
      BY <1>2, <1>3, <1>6, <1>7 DEF Up, Live
    <2>2. Live' = (Live \ {NoConn}) \cup {c, NoConn}
      BY <1>3, <2>1
    <2>3. {c, NoConn} \cap (Live \ {NoConn}) = {}
      BY <1>4
    <2>4. \A s \in Asked' : s.who # NoConn => s.op = conn'[s.who].type
      <3> SUFFICES ASSUME NEW s \in Asked', s.who # NoConn
                   PROVE  s.op = conn'[s.who].type
        OBVIOUS
      <3>1. CASE s = Reading(c)
        BY <1>6, <1>7, <3>1 DEF Reading
      <3>2. CASE s \in Asked
        <4>1. s.who \in Live /\ s.op = conn[s.who].type
          <5>1. s.who \in Whos(sq) \cup Named(ring)
            BY <3>2, WhosNamed DEF Asked, Named
          <5> QED
            BY <1>1, <3>2, <5>1 DEF PlaceInv
        <4>2. s.who \in Conns \ {c}
          BY <1>4, <4>1 DEF Live
        <4> QED
          BY <1>6, <4>1, <4>2
      <3>3. s \in Asked \/ s = Reading(c) \/ s = Accepting
        BY <1>2, <1>5 DEF Asked
      <3> QED
        BY <3>1, <3>2, <3>3 DEF Accepting
    <2> QED
      BY <1>1, <1>2, <1>5, <2>2, <2>3, <2>4, ReapPlaces
  <1>10. OwnerInv'
    BY <1>1, <1>2, SameOwner
  <1>11. InfoInv'
    <2>1. Up' /\ pc' # "boot" /\ OpenFds' = OpenFds
      BY <1>2, <1>3 DEF Up, OpenFds
    <2>2. \A d \in Conns : conn'[d].type = "freed" => conn'[d] = NoInfo
      BY <1>1, <1>6, <1>7 DEF InfoInv
    <2>3. \A d \in Conns :
            conn'[d].type # "freed" => conn'[d].fd \in Fds /\ owner'[conn'[d].fd] = d
      BY <1>1, <1>2, <1>6, <1>7 DEF InfoInv, OpenFds
    <2>4. \A e \in Elems(cq') : e.who # NoConn
      BY <1>3
    <2>5. \A f \in OpenFds' : conn'[owner'[f]].fd = f
      <3> TAKE f \in OpenFds'
      <3>1. CASE f = r
        BY <1>2, <1>6, <1>7, <3>1
      <3>2. CASE f # r
        <4>1. owner[f] # c /\ owner[f] \in Conns
          BY <1>1, <1>2, <2>1, <3>2 DEF OwnerInv, OpenFds, SocketsTypeOK
        <4>2. ~Announced(f)
          BY <1>1, <1>2, <3>2, AnnouncedHead
        <4> QED
          BY <1>1, <1>2, <1>6, <2>1, <4>1, <4>2 DEF InfoInv
      <3> QED
        BY <3>1, <3>2
    <2> QED
      BY <2>1, <2>2, <2>3, <2>4, <2>5 DEF InfoInv
  <1> QED
    BY <1>8, <1>9, <1>10, <1>11 DEF Inv
\* The connection ends: its descriptor is closed and its conn_info freed.
LEMMA LetsGoInv ==
    ASSUME Inv, Reap, cq # <<>>, NEW c \in Conns, LetsGo(c)
    PROVE  /\ Inv'
           /\ phase[c] = "open" /\ phase' = [phase EXCEPT ![c] = "done"]
           /\ ~Announced(conn[c].fd) /\ owner[conn[c].fd] = c
           /\ OpenFds' = OpenFds \ {conn[c].fd}
           /\ \A g \in OpenFds' : owner'[g] = owner[g]
  <1> DEFINE f == conn[c].fd
  <1>1. /\ TypeOK /\ SocketsTypeOK /\ OwnerInv /\ PlaceInv /\ InfoInv
        /\ conn \in [Conns -> Infos] /\ sq \in Seq(Sqes)
    BY DEF Inv, TypeOK
  <1>2. /\ Head(cq).who = c /\ conn[c].type # "freed" /\ c # NoConn
        /\ CloseFd(f) /\ conn' = [conn EXCEPT ![c] = NoInfo] /\ sq' = sq
        /\ UNCHANGED <<listening, backlog, cl, rst, sent, taken, echo, got, pc, ring>>
    BY SocketsAssumption DEF LetsGo, Free, Reap
  <1>3. /\ cq' \in Seq(Cqes) /\ Elems(cq') = {e \in Elems(cq) : e.who # c}
        /\ c \in Live /\ c \notin Whos(sq) /\ c \notin Named(ring)
        /\ count' \in Nat /\ Up
    BY <1>1, <1>2, ReapTakes
  <1>4. f \in Fds /\ owner[f] = c /\ f \in OpenFds
    BY <1>1, <1>2 DEF InfoInv, OpenFds
  <1>5. /\ OwnerInv' /\ OpenFds' = OpenFds \ {f} /\ \A g \in OpenFds' : owner'[g] = owner[g]
        /\ owner' \in [Fds -> Conns \cup {NoConn}]
        /\ phase' \in [Conns -> {"none", "queued", "open", "done"}]
    BY <1>1, <1>2, <1>4, CloseOwner
  <1>6. /\ conn' \in [Conns -> Infos] /\ conn'[c] = NoInfo
        /\ \A d \in Conns \ {c} : conn'[d] = conn[d]
    BY <1>1, <1>2, EntryTypes
  <1>7. NoInfo.type = "freed" /\ NoInfo.fd \notin Fds
    BY ServerUringAssumption DEF NoInfo
  <1>8. TypeOK'
    BY <1>1, <1>2, <1>3, <1>5, <1>6 DEF TypeOK, SocketsTypeOK
  <1>9. PlaceInv'
    <2>1. Live' = (Live \ {c}) \cup {}
      BY <1>2, <1>3, <1>6, <1>7 DEF Up, Live
    <2>2. \A s \in Asked' : s.who # NoConn => s.op = conn'[s.who].type
      <3> SUFFICES ASSUME NEW s \in Asked, s.who # NoConn
                   PROVE  s.op = conn'[s.who].type
        BY <1>2 DEF Asked
      <3>1. s.who \in Live /\ s.who # c
        <4>1. s.who \in Whos(sq) \cup Named(ring)
          BY WhosNamed DEF Asked, Named
        <4> QED
          BY <1>1, <1>3, <4>1 DEF PlaceInv
      <3>2. s.who \in Conns \ {c}
        BY <3>1 DEF Live
      <3> QED
        BY <1>1, <1>6, <3>2 DEF PlaceInv
    <2>3. Distinct(sq') /\ Whos(sq') = Whos(sq) \cup {}
      BY <1>1, <1>2 DEF PlaceInv
    <2> QED
      BY <1>1, <1>2, <2>1, <2>2, <2>3, ReapPlaces
  <1>10. \A g \in OpenFds' : g # f /\ owner[g] # c /\ owner[g] \in Conns
    BY <1>1, <1>4, <1>5 DEF OwnerInv, OpenFds, SocketsTypeOK
  <1>11. \A e \in Elems(cq) : e.who = NoConn => e.res # f
    BY <1>1, <1>2, <1>4, SocketsAssumption DEF InfoInv
  <1>12. InfoInv'
    <2>1. Up' /\ pc' # "boot"
      BY <1>2, <1>3 DEF Up
    <2>2. \A d \in Conns : conn'[d].type = "freed" => conn'[d] = NoInfo
      BY <1>1, <1>6 DEF InfoInv
    <2>3. \A d \in Conns :
            conn'[d].type # "freed" => conn'[d].fd \in Fds /\ owner'[conn'[d].fd] = d
      <3> SUFFICES ASSUME NEW d \in Conns \ {c}, conn[d].type # "freed"
                   PROVE  conn[d].fd \in Fds /\ owner'[conn[d].fd] = d
        BY <1>6, <1>7
      <3>1. /\ conn[d].fd \in Fds /\ owner[conn[d].fd] = d /\ conn[d].fd # f
            /\ conn[d].fd \in OpenFds
        BY <1>1, <1>4, SocketsAssumption DEF InfoInv, OpenFds
      <3> QED
        BY <1>5, <3>1
    <2>4. \A e \in Elems(cq') :
            e.who = NoConn =>
                e.res = -1 \/ (e.res \in OpenFds' /\ conn'[owner'[e.res]].type = "freed")
      <3> SUFFICES ASSUME NEW e \in Elems(cq), e.who = NoConn, e.res # -1
                   PROVE  e.res \in OpenFds' /\ conn'[owner'[e.res]].type = "freed"
        BY <1>3
      <3>1. e.res \in OpenFds /\ conn[owner[e.res]].type = "freed"
        BY <1>1 DEF InfoInv
      <3>2. e.res \in OpenFds'
        BY <1>5, <1>11, <3>1
      <3> QED
        BY <1>5, <1>6, <1>10, <3>1, <3>2
    <2>5. \A g \in OpenFds' : Announced(g)' \/ conn'[owner'[g]].fd = g
      <3> TAKE g \in OpenFds'
      <3>1. Announced(g)' <=> Announced(g)
        BY <1>1, <1>2, AnnouncedHead
      <3>2. g \in OpenFds /\ owner'[g] = owner[g] /\ conn'[owner[g]] = conn[owner[g]]
        BY <1>5, <1>6, <1>10
      <3> QED
        BY <1>1, <3>1, <3>2 DEF InfoInv
    <2> QED
      BY <2>1, <2>2, <2>3, <2>4, <2>5 DEF InfoInv
  <1>13. phase[c] = "open" /\ phase' = [phase EXCEPT ![c] = "done"]
    BY <1>1, <1>2, <1>4 DEF OwnerInv, CloseFd
  <1>14. ~Announced(f)
    BY <1>11, AnnouncedElems
  <1> QED
    BY <1>4, <1>5, <1>8, <1>9, <1>12, <1>13, <1>14 DEF Inv

\* The connection goes on: its next operation is prepared.
LEMMA GoesOnInv ==
    ASSUME Inv, Reap, cq # <<>>, NEW c \in Conns, GoesOn(c)
    PROVE  Inv'
  <1> DEFINE t == Turn(conn[c].type)
             s == [op |-> t, who |-> c]
  <1>1. /\ TypeOK /\ SocketsTypeOK /\ OwnerInv /\ PlaceInv /\ InfoInv
        /\ conn \in [Conns -> Infos] /\ sq \in Seq(Sqes) /\ Distinct(sq)
    BY DEF Inv, TypeOK, PlaceInv
  <1>2. /\ Head(cq).who = c /\ conn[c].type # "freed" /\ c # NoConn
        /\ conn' = [conn EXCEPT ![c].type = t] /\ sq' = Append(sq, s)
        /\ UNCHANGED <<listening, backlog, owner, phase, cl, rst, sent, taken, echo, got, pc, ring>>
    BY SocketsAssumption DEF GoesOn, Reap
  <1>3. /\ cq' \in Seq(Cqes) /\ Elems(cq') = {e \in Elems(cq) : e.who # c}
        /\ c \in Live /\ c \notin Whos(sq) /\ c \notin Named(ring)
        /\ count' \in Nat /\ Up
    BY <1>1, <1>2, ReapTakes
  <1>4. t \in {"read", "write"} /\ s \in Sqes /\ s.who = c /\ s.op = t
    BY <1>2 DEF Turn, Sqes
  <1>5. /\ conn' \in [Conns -> Infos]
        /\ conn'[c].type = t /\ conn'[c].fd = conn[c].fd
        /\ \A d \in Conns \ {c} : conn'[d] = conn[d]
    BY <1>1, <1>2, <1>4 DEF Infos
  <1> HIDE DEF t, s
  <1>6. /\ sq' \in Seq(Sqes) /\ Elems(sq') = Elems(sq) \cup {s}
        /\ Whos(sq') = Whos(sq) \cup {c} /\ Distinct(sq')
    BY <1>1, <1>2, <1>3, <1>4, AppendWho
  <1>7. TypeOK'
    BY <1>1, <1>2, <1>3, <1>5, <1>6 DEF TypeOK, SocketsTypeOK
  <1>8. \A d \in Conns : /\ conn'[d].fd = conn[d].fd
                         /\ conn'[d].type = "freed" <=> conn[d].type = "freed"
    BY <1>2, <1>4, <1>5
  <1>9. PlaceInv'
    <2>1. Live' = Live
      BY <1>2, <1>8 DEF Up, Live
    <2>2. Live' = (Live \ {c}) \cup {c} /\ {c} \cap (Live \ {c}) = {}
      BY <1>3, <2>1
    <2>3. \A u \in Asked' : u.who # NoConn => u.op = conn'[u.who].type
      <3> SUFFICES ASSUME NEW u \in Asked', u.who # NoConn
                   PROVE  u.op = conn'[u.who].type
        OBVIOUS
      <3>1. CASE u = s
        BY <1>4, <1>5, <3>1
      <3>2. CASE u \in Asked
        <4>1. u.who \in Live /\ u.who # c
          <5>1. u.who \in Whos(sq) \cup Named(ring)
            BY <3>2, WhosNamed DEF Asked, Named
          <5> QED
            BY <1>1, <1>3, <5>1 DEF PlaceInv
        <4>2. u.who \in Conns \ {c}
          BY <4>1 DEF Live
        <4> QED
          BY <1>1, <1>5, <3>2, <4>2 DEF PlaceInv
      <3>3. u \in Asked \/ u = s
        BY <1>2, <1>6 DEF Asked
      <3> QED
        BY <3>1, <3>2, <3>3
    <2> QED
      BY <1>1, <1>2, <1>6, <2>2, <2>3, ReapPlaces
  <1>10. OwnerInv'
    BY <1>1, <1>2, SameOwner
  <1>11. InfoInv'
    <2>1. Up' /\ pc' # "boot" /\ OpenFds' = OpenFds
      BY <1>2, <1>3 DEF Up, OpenFds
    <2>2. \A d \in Conns : conn'[d].type = "freed" => conn'[d] = NoInfo
      BY <1>1, <1>2, <1>5, <1>8 DEF InfoInv
    <2>3. \A d \in Conns :
            conn'[d].type # "freed" => conn'[d].fd \in Fds /\ owner'[conn'[d].fd] = d
      BY <1>1, <1>2, <1>8 DEF InfoInv
    <2>4. \A e \in Elems(cq') :
            e.who = NoConn =>
                e.res = -1 \/ (e.res \in OpenFds' /\ conn'[owner'[e.res]].type = "freed")
      <3> SUFFICES ASSUME NEW e \in Elems(cq), e.who = NoConn, e.res # -1
                   PROVE  e.res \in OpenFds' /\ conn'[owner'[e.res]].type = "freed"
        BY <1>3
      <3>1. e.res \in OpenFds /\ conn[owner[e.res]].type = "freed" /\ owner[e.res] \in Conns
        BY <1>1 DEF InfoInv, OpenFds, SocketsTypeOK
      <3> QED
        BY <1>2, <1>8, <2>1, <3>1
    <2>5. \A g \in OpenFds' : Announced(g)' \/ conn'[owner'[g]].fd = g
      <3> TAKE g \in OpenFds'
      <3>1. Announced(g)' <=> Announced(g)
        BY <1>1, <1>2, AnnouncedHead
      <3>2. g \in OpenFds /\ owner[g] \in Conns
        BY <1>1, <2>1 DEF OpenFds, SocketsTypeOK
      <3> QED
        BY <1>1, <1>2, <1>8, <3>1, <3>2 DEF InfoInv
    <2> QED
      BY <2>1, <2>2, <2>3, <2>4, <2>5 DEF InfoInv
  <1> QED
    BY <1>7, <1>9, <1>10, <1>11 DEF Inv
\* The kernel completes a read or a write.
LEMMA DoneInv ==
    ASSUME Inv, NEW c \in Conns, NEW s \in ring, s.who = c, NEW r \in Int, Done(s, r),
           UNCHANGED <<backlog, owner, phase, listening, pc, count, sq>>,
           \A d \in Conns : conn'[d].type = conn[d].type /\ conn'[d].fd = conn[d].fd,
           \A d \in Conns \ {c} : conn'[d] = conn[d]
    PROVE  /\ OwnerInv' /\ PlaceInv' /\ InfoInv'
           /\ cq' \in Seq(Cqes) /\ ring' \subseteq Sqes
           /\ Elems(cq') = Elems(cq) \cup {[who |-> c, res |-> r]}
           /\ Named(Asked') = Named(Asked) \ {c}
           /\ \A f : Announced(f)' <=> Announced(f)
           /\ conn[c].type = s.op /\ conn[c].type # "freed" /\ c \in Named(Asked)
           /\ owner[conn[c].fd] = c /\ conn[c].fd \in OpenFds /\ ~Announced(conn[c].fd)
           /\ phase[c] = "open"
           /\ \A e \in Elems(cq) : e.who # c
  <1>1. TypeOK /\ SocketsTypeOK /\ OwnerInv /\ PlaceInv /\ InfoInv
    BY DEF Inv, TypeOK
  <1>2. /\ PlaceInv'
        /\ cq' \in Seq(Cqes) /\ ring' \subseteq Sqes
        /\ Elems(cq') = Elems(cq) \cup {[who |-> c, res |-> r]}
        /\ c \notin Whos(cq) /\ Named(Asked') = Named(Asked) \ {c}
    BY <1>1, DonePlaces
  <1>3. c # NoConn /\ conn[c].type = s.op /\ conn[c].type # "freed" /\ Up /\ c \in Named(Asked)
    <2>1. s \in Asked /\ c \in Named(ring) /\ c # NoConn
      BY SocketsAssumption DEF Asked, Named
    <2>2. c \in Live
      BY <1>1, <2>1 DEF PlaceInv
    <2> QED
      BY <1>1, <2>1, <2>2 DEF Live, PlaceInv, Named
  <1>4. \A f : Announced(f)' <=> Announced(f)
    <2> TAKE f
    <2>1. Announced(f) <=> \E e \in Elems(cq) : e.who = NoConn /\ e.res = f
      BY AnnouncedElems
    <2>2. Announced(f)' <=> \E e \in Elems(cq') : e.who = NoConn /\ e.res = f
      BY DEF Announced, Elems
    <2> QED
      BY <1>2, <1>3, <2>1, <2>2
  <1>5. OwnerInv' /\ OpenFds' = OpenFds
    BY <1>1, SameOwner DEF OpenFds
  <1>6. owner[conn[c].fd] = c /\ conn[c].fd \in OpenFds
    BY <1>1, <1>3, SocketsAssumption DEF InfoInv, OpenFds
  <1>7. ~Announced(conn[c].fd)
    BY <1>1, <1>3, <1>6, AnnouncedElems, SocketsAssumption DEF InfoInv, OpenFds
  <1>8. phase[c] = "open"
    BY <1>1, <1>6 DEF OwnerInv
  <1>9. InfoInv'
    <2>1. Up' /\ pc' # "boot"
      BY <1>3 DEF Up
    <2>2. \A d \in Conns : conn'[d].type = "freed" => conn'[d] = NoInfo
      BY <1>1, <1>3 DEF InfoInv
    <2>3. \A d \in Conns :
            conn'[d].type # "freed" => conn'[d].fd \in Fds /\ owner'[conn'[d].fd] = d
      BY <1>1 DEF InfoInv
    <2>4. \A e \in Elems(cq') :
            e.who = NoConn =>
                e.res = -1 \/ (e.res \in OpenFds' /\ conn'[owner'[e.res]].type = "freed")
      <3> SUFFICES ASSUME NEW e \in Elems(cq), e.who = NoConn, e.res # -1
                   PROVE  e.res \in OpenFds' /\ conn'[owner'[e.res]].type = "freed"
        BY <1>2, <1>3
      <3>1. e.res \in OpenFds /\ conn[owner[e.res]].type = "freed" /\ owner[e.res] \in Conns
        BY <1>1 DEF InfoInv, OpenFds, SocketsTypeOK
      <3> QED
        BY <1>5, <3>1
    <2>5. \A g \in OpenFds' : Announced(g)' \/ conn'[owner'[g]].fd = g
      <3> TAKE g \in OpenFds'
      <3>1. g \in OpenFds /\ owner[g] \in Conns
        BY <1>1, <1>5 DEF OpenFds, SocketsTypeOK
      <3> QED
        BY <1>1, <1>4, <3>1 DEF InfoInv
    <2> QED
      BY <2>1, <2>2, <2>3, <2>4, <2>5 DEF InfoInv
  <1>10. \A e \in Elems(cq) : e.who # c
    BY <1>2, WhosNamed DEF Named
  <1> QED
    BY <1>2, <1>3, <1>4, <1>5, <1>6, <1>7, <1>8, <1>9, <1>10

\* read() completes.
LEMMA KernelReadInv ==
    ASSUME Inv, NEW c \in Conns, KernelRead(c)
    PROVE  Inv'
  <1>1. /\ SocketsTypeOK /\ InfoInv /\ TypeOK /\ conn \in [Conns -> Infos]
        /\ Reading(c) \in ring /\ Reading(c).who = c
    BY DEF Inv, TypeOK, KernelRead, Reading
  <1>2. UNCHANGED <<listening, backlog, phase, owner, cl, rst, sent, echo, got, pc, count, sq>>
    BY DEF KernelRead
  <1>3. owner[conn[c].fd] = c
    <2>1. c \in Named(ring) /\ c # NoConn
      BY <1>1, SocketsAssumption DEF Named
    <2> QED
      BY <2>1 DEF Inv, PlaceInv, InfoInv, Live
  <1>4. PICK r \in Int :
          /\ Done(Reading(c), r)
          /\ conn' \in [Conns -> Infos] /\ taken' \in [Conns -> Nat]
          /\ \A d \in Conns : conn'[d].type = conn[d].type /\ conn'[d].fd = conn[d].fd
          /\ \A d \in Conns \ {c} : conn'[d] = conn[d]
    <2>1. CASE /\ Avail(c) > 0
               /\ conn' = [conn EXCEPT ![c].buf = ReadData(c)]
               /\ taken' = [taken EXCEPT ![c] = @ + ReadLen(c)]
               /\ Done(Reading(c), ReadLen(c))
      <3>1. ReadLen(c) \in Nat /\ taken[c] + ReadLen(c) \in Nat /\ taken[c] \in Nat
        BY <1>1, <2>1, ReadLenType, ConnParts
      <3>2. ReadData(c) \in Seq(Byte)
        BY <3>1, BytesType DEF ReadData
      <3>3. /\ conn' \in [Conns -> Infos]
            /\ conn'[c].type = conn[c].type /\ conn'[c].fd = conn[c].fd
            /\ \A d \in Conns \ {c} : conn'[d] = conn[d]
        BY <1>1, <2>1, <3>2 DEF Infos
      <3>4. taken' \in [Conns -> Nat]
        BY <1>1, <2>1, <3>1 DEF SocketsTypeOK
      <3> QED
        BY <2>1, <3>1, <3>3, <3>4
    <2>2. CASE Done(Reading(c), IF rst[c] THEN -1 ELSE 0) /\ UNCHANGED <<conn, taken>>
      <3> DEFINE r == IF rst[c] THEN -1 ELSE 0
      <3>1. r \in Int /\ Done(Reading(c), r)
        BY <2>2
      <3> HIDE DEF r
      <3> QED
        BY <1>1, <2>2, <3>1 DEF SocketsTypeOK
    <2> QED
      BY <1>3, <2>1, <2>2 DEF KernelRead
  <1>5. /\ OwnerInv' /\ PlaceInv' /\ InfoInv'
        /\ cq' \in Seq(Cqes) /\ ring' \subseteq Sqes
    BY <1>1, <1>2, <1>4, DoneInv
  <1>6. TypeOK'
    BY <1>1, <1>2, <1>4, <1>5 DEF TypeOK, SocketsTypeOK
  <1> QED
    BY <1>5, <1>6 DEF Inv

\* write() completes.
LEMMA KernelWriteInv ==
    ASSUME Inv, NEW c \in Conns, KernelWrite(c)
    PROVE  Inv'
  <1>1. /\ SocketsTypeOK /\ InfoInv /\ TypeOK /\ conn \in [Conns -> Infos]
        /\ Writing(c) \in ring /\ Writing(c).who = c
    BY DEF Inv, TypeOK, KernelWrite, Writing
  <1>2. UNCHANGED <<listening, backlog, phase, owner, cl, rst, sent, taken, got,
                    pc, count, conn, sq>>
    BY DEF KernelWrite
  <1>3. owner[conn[c].fd] = c /\ conn[c].buf \in Seq(Byte)
    <2>1. c \in Named(ring) /\ c # NoConn
      BY <1>1, SocketsAssumption DEF Named
    <2> QED
      BY <1>1, <2>1 DEF Inv, PlaceInv, InfoInv, Live, Infos
  <1>4. PICK r \in Int : Done(Writing(c), r) /\ echo' \in [Conns -> Seq(Byte)]
    <2> DEFINE w == conn[c].buf
    <2>1. CASE Write(c, w) /\ Done(Writing(c), WriteLen(c, w))
      <3>1. WriteLen(c, w) \in Nat /\ WriteLen(c, w) <= Len(w)
        BY <1>1, <1>3, <2>1, WriteLenSize DEF Write
      <3>2. SubSeq(w, 1, WriteLen(c, w)) \in Seq(Byte)
        BY <1>3, <3>1, SubSeqType
      <3>3. echo[c] \o SubSeq(w, 1, WriteLen(c, w)) \in Seq(Byte)
        BY <1>1, <3>2, ConnParts, ConcatType
      <3>4. echo' \in [Conns -> Seq(Byte)]
        BY <1>1, <2>1, <3>3 DEF Write, SocketsTypeOK
      <3> QED
        BY <2>1, <3>1, <3>4
    <2>2. CASE Done(Writing(c), -1) /\ UNCHANGED echo
      BY <1>1, <2>2 DEF SocketsTypeOK
    <2> QED
      BY <1>3, <2>1, <2>2 DEF KernelWrite
  <1>5. /\ OwnerInv' /\ PlaceInv' /\ InfoInv'
        /\ cq' \in Seq(Cqes) /\ ring' \subseteq Sqes
    BY <1>1, <1>2, <1>4, DoneInv
  <1>6. TypeOK'
    BY <1>1, <1>2, <1>4, <1>5 DEF TypeOK, SocketsTypeOK
  <1> QED
    BY <1>5, <1>6 DEF Inv

\* accept() completes.
LEMMA KernelAcceptInv ==
    ASSUME Inv, KernelAccept
    PROVE  Inv' /\ ServedPhase' = ServedPhase
  <1>1. /\ TypeOK /\ SocketsTypeOK /\ OwnerInv /\ PlaceInv /\ InfoInv
        /\ Accepting \in ring /\ Accepting.who = NoConn
        /\ UNCHANGED <<listening, cl, rst, sent, taken, echo, got, pc, count, conn, sq>>
    BY DEF Inv, TypeOK, KernelAccept, Accepting
  <1>2. NoConn \in Named(ring) /\ Up /\ Up' /\ pc' # "boot"
    <2>1. NoConn \in Named(ring)
      BY <1>1 DEF Named
    <2> QED
      BY <1>1, <2>1 DEF PlaceInv, Live, Up
  <1>3. \A e \in Elems(cq) : e.who # NoConn
    BY <1>1, <1>2, WhosNamed DEF PlaceInv, Named
  <1>4. \A f : ~Announced(f)
    BY <1>3, AnnouncedElems
  <1>5. \A f \in OpenFds : conn[owner[f]].fd = f
    BY <1>1, <1>4 DEF InfoInv
  <1>6. ASSUME NEW r \in Int, Done(Accepting, r)
        PROVE  /\ PlaceInv' /\ cq' \in Seq(Cqes) /\ ring' \subseteq Sqes
               /\ Elems(cq') = Elems(cq) \cup {[who |-> NoConn, res |-> r]}
               /\ \A f : Announced(f)' <=> f = r
    <2>1. /\ PlaceInv' /\ cq' \in Seq(Cqes) /\ ring' \subseteq Sqes
          /\ Elems(cq') = Elems(cq) \cup {[who |-> NoConn, res |-> r]}
      BY <1>1, <1>6, DonePlaces
    <2>2. \A f : Announced(f)' <=> \E e \in Elems(cq') : e.who = NoConn /\ e.res = f
      BY DEF Announced, Elems
    <2>3. \A e \in Elems(cq') : e.who = NoConn <=> e = [who |-> NoConn, res |-> r]
      BY <1>3, <2>1
    <2>4. [who |-> NoConn, res |-> r] \in Elems(cq')
      BY <2>1
    <2>5. \A f : Announced(f)' <=> f = r
      BY <2>2, <2>3, <2>4
    <2> QED
      BY <2>1, <2>5
  <1>7. ASSUME NEW f \in Fds, AcceptAs(f),
               owner' = [owner EXCEPT ![f] = Head(backlog)],
               phase' = [phase EXCEPT ![Head(backlog)] = "open"],
               Done(Accepting, f)
        PROVE  Inv' /\ ServedPhase' = ServedPhase
    <2> DEFINE h == Head(backlog)
    <2>1. /\ OwnerInv' /\ h \in Conns /\ phase[h] = "queued"
          /\ \A g \in OpenFds : owner[g] # h
          /\ backlog' \in Seq(Conns)
          /\ owner' \in [Fds -> Conns \cup {NoConn}]
          /\ phase' \in [Conns -> {"none", "queued", "open", "done"}]
      BY <1>1, <1>7, AcceptOwner
    <2>2. f \in Int /\ f \notin OpenFds /\ owner[f] = NoConn
      BY <1>7, SocketsAssumption DEF AcceptAs, FreeFds, OpenFds
    <2>3. /\ PlaceInv' /\ cq' \in Seq(Cqes) /\ ring' \subseteq Sqes
          /\ Elems(cq') = Elems(cq) \cup {[who |-> NoConn, res |-> f]}
          /\ \A g : Announced(g)' <=> g = f
      BY <1>6, <1>7, <2>2
    <2> HIDE DEF h
    <2>4. /\ OpenFds' = OpenFds \cup {f} /\ owner'[f] = h
          /\ \A g \in OpenFds : owner'[g] = owner[g]
      BY <1>1, <1>7, <2>1, <2>2, SocketsAssumption DEF OpenFds, SocketsTypeOK, h
    <2>5. TypeOK'
      BY <1>1, <2>1, <2>3 DEF TypeOK, SocketsTypeOK
    <2>6. \A c \in Conns : conn[c].type # "freed" =>
            conn[c].fd \in OpenFds /\ owner[conn[c].fd] = c
      BY <1>1, SocketsAssumption DEF InfoInv, OpenFds
    <2>7. conn[h].type = "freed"
      BY <2>1, <2>6
    <2>8. InfoInv'
      <3>1. \A c \in Conns :
              conn'[c].type # "freed" => conn'[c].fd \in Fds /\ owner'[conn'[c].fd] = c
        BY <1>1, <2>4, <2>6 DEF OpenFds
      <3>2. \A e \in Elems(cq') :
              e.who = NoConn =>
                  e.res = -1 \/ (e.res \in OpenFds' /\ conn'[owner'[e.res]].type = "freed")
        BY <1>1, <1>3, <2>3, <2>4, <2>7
      <3>3. \A g \in OpenFds' : Announced(g)' \/ conn'[owner'[g]].fd = g
        BY <1>1, <1>5, <2>3, <2>4
      <3> QED
        BY <1>1, <1>2, <3>1, <3>2, <3>3 DEF InfoInv
    <2>9. \A c \in Conns : ServedPhase'[c] = ServedPhase[c]
      <3> TAKE c \in Conns
      <3>1. ServedPhase[c] = phase[c]
        BY <1>4 DEF ServedPhase
      <3>2. (\E g \in OpenFds' : owner'[g] = c /\ Announced(g)') <=> c = h
        BY <2>3, <2>4
      <3>3. c # h => phase'[c] = phase[c]
        BY <1>1, <1>7 DEF SocketsTypeOK, h
      <3>4. ServedPhase'[c] = IF c = h THEN "queued" ELSE phase'[c]
        BY <3>2 DEF ServedPhase
      <3> QED
        BY <2>1, <3>1, <3>3, <3>4
    <2>10. ServedPhase' = ServedPhase
      <3>1. /\ ServedPhase' = [c \in Conns |-> ServedPhase'[c]]
            /\ ServedPhase = [c \in Conns |-> ServedPhase[c]]
        BY DEF ServedPhase
      <3> QED
        BY <2>9, <3>1
    <2> QED
      BY <2>1, <2>3, <2>5, <2>8, <2>10 DEF Inv
  <1>8. ASSUME Done(Accepting, -1), UNCHANGED <<backlog, phase, owner>>
        PROVE  Inv' /\ ServedPhase' = ServedPhase
    <2>1. /\ PlaceInv' /\ cq' \in Seq(Cqes) /\ ring' \subseteq Sqes
          /\ Elems(cq') = Elems(cq) \cup {[who |-> NoConn, res |-> -1]}
          /\ \A g : Announced(g)' <=> g = -1
      BY <1>6, <1>8
    <2>2. OwnerInv' /\ OpenFds' = OpenFds
      BY <1>1, <1>8, SameOwner DEF OpenFds
    <2>3. TypeOK'
      BY <1>1, <1>8, <2>1 DEF TypeOK, SocketsTypeOK
    <2>4. InfoInv'
      BY <1>1, <1>2, <1>3, <1>5, <1>8, <2>1, <2>2 DEF InfoInv
    <2>5. \A g \in OpenFds' : ~Announced(g)'
      BY <2>1, SocketsAssumption DEF OpenFds
    <2>6. ServedPhase' = phase' /\ ServedPhase = phase
      BY <1>1, <1>4, <1>8, <2>5 DEF ServedPhase, SocketsTypeOK
    <2> QED
      BY <1>8, <2>1, <2>2, <2>3, <2>4, <2>6 DEF Inv
  <1> QED
    BY <1>7, <1>8 DEF KernelAccept
\* make_listener() and the first accept, or the program ends.
LEMMA BootInv ==
    ASSUME Inv, UringBoot
    PROVE  Inv' /\ Elems(cq') = {} /\ OpenFds' = {}
  <1>1. /\ TypeOK /\ SocketsTypeOK /\ OwnerInv /\ PlaceInv /\ InfoInv
        /\ pc = "boot" /\ ~Up /\ OpenFds = {} /\ backlog = <<>>
        /\ UNCHANGED <<backlog, phase, owner, cl, rst, sent, taken, echo, got, count, conn, ring, cq>>
    BY DEF Inv, TypeOK, InfoInv, UringBoot, Up
  <1>2. /\ Whos(sq) = {} /\ Named(ring) = {} /\ Whos(cq) = {} /\ ring = {} /\ Elems(cq) = {}
        /\ \A c \in Conns : c # NoConn
    <2>1. Whos(sq) = {} /\ Named(ring) = {} /\ Whos(cq) = {}
      BY <1>1 DEF PlaceInv, Live
    <2> QED
      BY <2>1, WhosNamed, SocketsAssumption DEF Named
  <1>3. \A c \in Conns : conn[c].type = "freed"
    <2>1. \A c \in Conns : conn[c].type # "freed" => conn[c].fd \in OpenFds
      BY <1>1, SocketsAssumption DEF InfoInv, OpenFds
    <2> QED
      BY <1>1, <2>1
  <1>4. OwnerInv' /\ OpenFds' = {} /\ Elems(cq') = {}
    BY <1>1, <1>2, SameOwner DEF OpenFds
  <1>5. CASE pc' = "submit" /\ listening' = TRUE /\ sq' = <<Accepting>>
    <2>1. /\ sq' \in Seq(Sqes) /\ Whos(sq') = {NoConn} /\ Distinct(sq')
          /\ Elems(sq') = {Accepting}
      <3>1. <<Accepting>> = Append(<<>>, Accepting) /\ <<>> \in Seq(Sqes)
            /\ Accepting \in Sqes /\ Accepting.who = NoConn
        BY EntryTypes DEF Accepting
      <3> DEFINE q == <<>>
      <3>2. /\ sq' = Append(q, Accepting) /\ q \in Seq(Sqes)
            /\ Elems(q) = {} /\ Whos(q) = {} /\ Distinct(q)
        BY <1>5, <3>1, EmptyQueue
      <3> HIDE DEF q
      <3> QED
        BY <3>1, <3>2, AppendWho
    <2>2. TypeOK'
      BY <1>1, <1>5, <2>1 DEF TypeOK, SocketsTypeOK
    <2>3. Up' /\ Live' = {NoConn}
      BY <1>1, <1>3, <1>5 DEF Live, Up
    <2>4. PlaceInv'
      <3>1. Asked' = {Accepting}
        BY <1>1, <1>2, <2>1 DEF Asked
      <3> QED
        BY <1>1, <1>2, <1>5, <2>1, <2>3, <3>1 DEF PlaceInv, Named, Accepting
    <2>5. InfoInv'
      BY <1>1, <1>2, <1>3, <1>4, <1>5, <2>3 DEF InfoInv
    <2> QED
      BY <1>4, <2>2, <2>4, <2>5 DEF Inv
  <1>6. CASE pc' = "exit" /\ UNCHANGED <<listening, sq>>
    <2>1. TypeOK'
      BY <1>1, <1>6 DEF TypeOK, SocketsTypeOK
    <2>2. ~Up' /\ Live' = Live
      BY <1>1, <1>6 DEF Live, Up
    <2>3. PlaceInv'
      BY <1>1, <1>2, <1>6, <2>2 DEF PlaceInv, Asked
    <2>4. InfoInv'
      BY <1>1, <1>2, <1>3, <1>4, <1>6, <2>2 DEF InfoInv
    <2> QED
      BY <1>4, <2>1, <2>3, <2>4 DEF Inv
  <1> QED
    BY <1>5, <1>6 DEF UringBoot

\* The program is killed: the kernel cleans up.
LEMMA KillInv ==
    ASSUME Inv, UringKill
    PROVE  Inv' /\ Elems(cq') = {} /\ OpenFds' = {}
  <1>1. /\ TypeOK /\ SocketsTypeOK /\ ProcessExit
        /\ pc' = "exit" /\ sq' = <<>> /\ ring' = {} /\ cq' = <<>> /\ count' = 0
        /\ conn' = [c \in Conns |-> NoInfo]
    BY DEF Inv, TypeOK, UringKill
  <1>2. SocketsTypeOK' /\ OwnerInv' /\ OpenFds' = {}
    BY <1>1, ExitTypes
  <1>3. /\ Elems(sq') = {} /\ Whos(sq') = {} /\ Distinct(sq') /\ Named(ring') = {}
        /\ Elems(cq') = {} /\ Whos(cq') = {} /\ Distinct(cq')
        /\ sq' \in Seq(Sqes) /\ cq' \in Seq(Cqes) /\ ~Up' /\ Live' = {}
    BY <1>1, EmptyQueue DEF Named, Up, Live
  <1>4. TypeOK'
    BY <1>1, <1>2, <1>3, EntryTypes DEF TypeOK
  <1>5. PlaceInv'
    BY <1>1, <1>3 DEF PlaceInv, Asked
  <1>6. InfoInv'
    BY <1>1, <1>2, <1>3 DEF InfoInv, NoInfo
  <1> QED
    BY <1>2, <1>3, <1>4, <1>5, <1>6 DEF Inv

\* The loop takes a batch.
LEMMA WaitInv ==
    ASSUME Inv, UringWait
    PROVE  Inv'
  <1>1. /\ TypeOK /\ SocketsTypeOK /\ OwnerInv /\ PlaceInv /\ InfoInv
        /\ pc = "wait" /\ pc' = "reap" /\ count' = Lesser(Len(cq), MAX_EVENTS)
        /\ UNCHANGED <<listening, backlog, phase, owner, cl, rst, sent, taken, echo, got,
                       conn, sq, ring, cq>>
    BY DEF Inv, TypeOK, UringWait, sockVars
  <1>2. count' \in Nat /\ count' <= Len(cq') /\ Up /\ Up'
    <2>1. Len(cq) \in Nat /\ MAX_EVENTS \in Nat
      BY <1>1, ServerUringAssumption DEF TypeOK
    <2> QED
      BY <1>1, <2>1 DEF Lesser, Up
  <1>3. TypeOK'
    BY <1>1, <1>2 DEF TypeOK, SocketsTypeOK
  <1>4. PlaceInv'
    <2>1. Live' = Live
      BY <1>1, <1>2, LiveSame
    <2> QED
      BY <1>1, <1>2, <2>1 DEF PlaceInv, Asked
  <1>5. OwnerInv' /\ OpenFds' = OpenFds
    BY <1>1, SameOwner DEF OpenFds
  <1>6. InfoInv'
    BY <1>1, <1>2, <1>5 DEF InfoInv, Announced
  <1> QED
    BY <1>3, <1>4, <1>5, <1>6 DEF Inv

\* A step that leaves the connections and the completions alone.
LEMMA SameInfo ==
    ASSUME InfoInv, UNCHANGED <<owner, conn, cq>>, Up' = Up, pc' = "boot" => pc = "boot",
           pc = "boot" => listening' = listening /\ backlog' = backlog
    PROVE  InfoInv'
  <1>1. OpenFds' = OpenFds
    BY DEF OpenFds
  <1> QED
    BY <1>1 DEF InfoInv, Announced

\* The batch ends with io_uring_submit().
LEMMA SubmitInv ==
    ASSUME Inv, UringSubmit
    PROVE  Inv'
  <1>1. TypeOK /\ OwnerInv /\ PlaceInv /\ InfoInv
    BY DEF Inv
  <1>2. PlaceInv' /\ TypeOK'
    BY <1>1, SubmitPlaces
  <1>3. /\ UNCHANGED <<backlog, owner, phase, conn, cq>> /\ Up' = Up
        /\ pc' # "boot" /\ pc # "boot"
    BY DEF UringSubmit, sockVars, Up
  <1>4. OwnerInv' /\ InfoInv'
    BY <1>1, <1>3, SameOwner, SameInfo
  <1> QED
    BY <1>2, <1>4 DEF Inv

\* The clients and the network.
LEMMA NetworkInv ==
    ASSUME Inv, UringNetwork
    PROVE  Inv'
  <1>1. PICK c \in Conns :
           \/ Connect(c) \/ ClientSend(c) \/ ClientRecv(c)
           \/ ClientShut(c) \/ ClientClose(c) \/ ResetArrives(c)
    BY DEF UringNetwork
  <1>2. UNCHANGED <<pc, count, conn, sq, ring, cq>>
    BY DEF UringNetwork
  <1>3. TypeOK /\ SocketsTypeOK /\ OwnerInv /\ PlaceInv /\ InfoInv
    BY DEF Inv, TypeOK
  <1>4. SocketsTypeOK' /\ OwnerInv' /\ owner' = owner
    BY <1>1, <1>3, ClientTypes, ClientOwner
  <1>5. TypeOK'
    BY <1>2, <1>3, <1>4 DEF TypeOK
  <1>6. PlaceInv'
    BY <1>2, <1>3 DEF PlaceInv, Asked, Live, Up
  <1>7. pc = "boot" => listening' = listening /\ backlog' = backlog
    BY <1>1, <1>3 DEF InfoInv, Connect, ClientSend, ClientRecv, ClientShut, ClientClose,
       ResetArrives
  <1>8. InfoInv'
    BY <1>2, <1>3, <1>4, <1>7, SameInfo DEF Up
  <1> QED
    BY <1>4, <1>5, <1>6, <1>8 DEF Inv

\* Nothing happens.
LEMMA StutterInv ==
    ASSUME Inv, UNCHANGED uringVars
    PROVE  Inv'
  <1>1. TypeOK /\ OwnerInv /\ PlaceInv /\ InfoInv
    BY DEF Inv
  <1>2. TypeOK'
    BY <1>1 DEF TypeOK, SocketsTypeOK, uringVars, sockVars
  <1>3. OwnerInv'
    BY <1>1, SameOwner DEF uringVars, sockVars
  <1>4. PlaceInv'
    BY <1>1 DEF uringVars, PlaceInv, Asked, Live, Up
  <1>5. InfoInv'
    BY <1>1, SameInfo DEF uringVars, sockVars, Up
  <1> QED
    BY <1>2, <1>3, <1>4, <1>5 DEF Inv

\* The steps, with what a completion leads to spelled out.
LEMMA StepCases ==
    ASSUME Inv, Enough, [UringNext]_uringVars
    PROVE  \/ UringBoot \/ UringKill \/ UringNetwork \/ KernelAccept
           \/ \E c \in Conns : KernelRead(c) \/ KernelWrite(c)
           \/ UringWait \/ UringSubmit \/ UNCHANGED uringVars
           \/ Reap /\ cq # <<>> /\ TurnsAway
           \/ Reap /\ cq # <<>> /\ \E c \in Conns : TakesOn(c) \/ LetsGo(c) \/ GoesOn(c)
  BY ReapCases DEF UringNext, UringServer, UringKernel, ReapStep

\* The invariant is inductive.
LEMMA InvKept ==
    ASSUME Inv, Enough, [UringNext]_uringVars
    PROVE  Inv'
  BY StepCases, BootInv, KillInv, NetworkInv, KernelAcceptInv, KernelReadInv, KernelWriteInv,
     WaitInv, SubmitInv, StutterInv, TurnsAwayInv, TakesOnInv, LetsGoInv, GoesOnInv

-----------------------------------------------------------------------------
(* Every conn_info in use has one operation.                               *)

\* How many entries of a queue name w.
LEMMA CountWho ==
    ASSUME NEW S, NEW q \in Seq(S), Distinct(q), NEW w
    PROVE  Cardinality({i \in DOMAIN q : q[i].who = w}) = IF w \in Whos(q) THEN 1 ELSE 0
  <1> DEFINE A == {i \in DOMAIN q : q[i].who = w}
  <1>1. CASE w \in Whos(q)
    <2>1. PICK i \in DOMAIN q : q[i].who = w
      BY <1>1 DEF Whos
    <2>2. A = {i}
      BY <2>1 DEF Distinct
    <2> QED
      BY <1>1, <2>2, FS_Singleton
  <1>2. CASE w \notin Whos(q)
    <2>1. A = {}
      BY <1>2 DEF Whos
    <2> QED
      BY <1>2, <2>1, FS_EmptySet
  <1> QED
    BY <1>1, <1>2

\* How many entries of the ring name w.
LEMMA CountRing ==
    ASSUME PlaceInv, NEW w
    PROVE  Cardinality({s \in ring : s.who = w}) = IF w \in Named(ring) THEN 1 ELSE 0
  <1> DEFINE A == {s \in ring : s.who = w}
  <1>1. CASE w \in Named(ring)
    <2>1. PICK s \in ring : s.who = w
      BY <1>1 DEF Named
    <2>2. A = {s}
      BY <2>1 DEF PlaceInv
    <2> QED
      BY <1>1, <2>2, FS_Singleton
  <1>2. CASE w \notin Named(ring)
    <2>1. A = {}
      BY <1>2 DEF Named
    <2> QED
      BY <1>2, <2>1, FS_EmptySet
  <1> QED
    BY <1>1, <1>2

\* The invariant says what OneOperation says.
LEMMA InvOneOperation ==
    ASSUME Inv
    PROVE  OneOperation
  <1> SUFFICES ASSUME Up PROVE OneOperation
    BY DEF OneOperation
  <1>1. TypeOK /\ PlaceInv /\ InfoInv /\ sq \in Seq(Sqes) /\ cq \in Seq(Cqes)
    BY DEF Inv, TypeOK
  <1>2. ASSUME NEW w
        PROVE  Operations(w) = IF w \in Live THEN 1 ELSE 0
    <2>1. /\ Cardinality({i \in DOMAIN sq : sq[i].who = w}) = IF w \in Whos(sq) THEN 1 ELSE 0
          /\ Cardinality({i \in DOMAIN cq : cq[i].who = w}) = IF w \in Whos(cq) THEN 1 ELSE 0
          /\ Cardinality({s \in ring : s.who = w}) = IF w \in Named(ring) THEN 1 ELSE 0
      BY <1>1, CountWho, CountRing DEF PlaceInv
    <2>2. /\ w \in Live <=> (w \in Whos(sq) \/ w \in Named(ring) \/ w \in Whos(cq))
          /\ ~(w \in Whos(sq) /\ w \in Named(ring))
          /\ ~(w \in Whos(sq) /\ w \in Whos(cq))
          /\ ~(w \in Named(ring) /\ w \in Whos(cq))
      BY <1>1 DEF PlaceInv
    <2> QED
      BY <2>1, <2>2 DEF Operations
  <1>3. Operations(NoConn) = 1
    <2>1. NoConn \in Live
      BY DEF Live
    <2> QED
      BY <1>2, <2>1
  <1>4. \A c \in Conns : Operations(c) = IF conn[c].type = "freed" THEN 0 ELSE 1
    <2> TAKE c \in Conns
    <2>1. c \in Live <=> conn[c].type # "freed"
      BY SocketsAssumption DEF Live
    <2> QED
      BY <1>2, <2>1
  <1>5. \A c \in Conns : \A s \in ring \cup {sq[i] : i \in DOMAIN sq} :
           s.who = c => s.op = conn[c].type
    BY <1>1, SocketsAssumption DEF PlaceInv, Asked, Elems
  <1>6. \A f \in OpenFds : Announced(f) \/ conn[owner[f]].fd = f
    BY <1>1 DEF InfoInv
  <1> QED
    BY <1>3, <1>4, <1>5, <1>6 DEF OneOperation

(***************************************************************************)
(* Of every conn_info that is not freed there is one operation, prepared,  *)
(* in the kernel or completed, and of a freed one none: a completion       *)
(* (server_uring.c, the reap loop) always finds its memory, with the type  *)
(* of what was completed; and the accept is always underway.               *)
(***************************************************************************)
THEOREM OneOperationEach ==
    ASSUME Enough
    PROVE  UringSpec => []OneOperation
  <1>1. UringInit => Inv
    BY InvStarts
  <1>2. Inv /\ [UringNext]_uringVars => Inv'
    BY InvKept
  <1>3. Inv => OneOperation
    BY InvOneOperation
  <1> QED
    BY <1>1, <1>2, <1>3, PTL DEF UringSpec

-----------------------------------------------------------------------------
(* The streams.                                                            *)

\* A step that moves no byte.
LEMMA StreamsKept ==
    ASSUME StreamInv, UNCHANGED <<cl, rst, sent, taken, echo>>,
           \A c \in Conns : phase'[c] # "done" =>
                phase[c] # "done" /\ Held(c)' = Held(c),
           \A c \in Conns :
                conn'[c].type = "write" /\ c \in Named(Asked') => conn'[c].buf # <<>>,
           \A e \in Elems(cq') : e.who # NoConn =>
                e \in Elems(cq) /\ conn'[e.who] = conn[e.who]
    PROVE  StreamInv'
  <1>1. \A c \in Conns :
           phase'[c] # "done" /\ ~rst'[c] => Run(c, echo'[c], Held(c)', taken'[c], sent'[c])
    BY DEF StreamInv
  <1>2. \A e \in Elems(cq') : e.who # NoConn =>
          \/ e.res > 0 /\ (conn'[e.who].type = "read" => conn'[e.who].buf # <<>>)
          \/ e.res <= 0 /\ cl'[e.who] = "gone"
          \/ /\ e.res = 0 /\ conn'[e.who].type = "read"
             /\ cl'[e.who] = "shut" /\ taken'[e.who] = sent'[e.who]
    BY DEF StreamInv
  <1>3. GoneInv'
    BY DEF StreamInv, GoneInv
  <1> QED
    BY <1>1, <1>2, <1>3 DEF StreamInv

\* What is held for a connection depends on its own entries only.
LEMMA HeldSame ==
    ASSUME NEW c \in Conns, conn'[c] = conn[c],
           c \in Named(Asked') <=> c \in Named(Asked),
           \A e : e.who = c => (e \in Elems(cq') <=> e \in Elems(cq))
    PROVE  Held(c)' = Held(c)
  BY DEF Held

\* Nobody is owed more after a step that moves no byte.
LEMMA OwedSame ==
    ASSUME OwedInv, UNCHANGED <<sent, echo, got>>
    PROVE  OwedInv'
  BY DEF OwedInv

\* A step that leaves the queues' entries and the connections' records alone.
LEMMA QuietStreams ==
    ASSUME EchoInv, UNCHANGED <<cl, rst, sent, taken, echo, got, conn>>,
           Asked' = Asked, Elems(cq') = Elems(cq),
           \A c \in Conns : phase'[c] # "done" => phase[c] # "done"
    PROVE  EchoInv'
  <1>1. \A c \in Conns : Held(c)' = Held(c)
    BY HeldSame
  <1>2. StreamInv'
    BY <1>1, StreamsKept DEF EchoInv, StreamInv
  <1> QED
    BY <1>2, OwedSame DEF EchoInv

\* Before the start and after the end nothing is held.
LEMMA BootStreams ==
    ASSUME Inv, EchoInv, UringBoot
    PROVE  EchoInv'
  <1>1. /\ UNCHANGED <<phase, cl, rst, sent, taken, echo, got, conn, cq>>
        /\ InfoInv /\ ~Up
    BY DEF Inv, UringBoot, Up
  <1>2. \A c \in Conns : conn[c].type = "freed"
    BY <1>1, SocketsAssumption DEF InfoInv, OpenFds
  <1>3. \A c \in Conns : Held(c)' = <<>> /\ Held(c) = <<>>
    BY <1>1, <1>2 DEF Held
  <1>4. StreamInv'
    BY <1>1, <1>2, <1>3, StreamsKept DEF EchoInv, StreamInv
  <1> QED
    BY <1>1, <1>4, OwedSame DEF EchoInv

\* After a kill nothing is held either.
LEMMA KillStreams ==
    ASSUME Inv, EchoInv, UringKill
    PROVE  EchoInv'
  <1>1. /\ UNCHANGED <<cl, rst, sent, taken, echo, got>>
        /\ InfoInv /\ OwnerInv /\ Elems(cq') = {} /\ \A c \in Conns : conn'[c].type = "freed"
        /\ \A c \in Conns : phase'[c] # "done" => phase[c] = "none"
    BY KillInv DEF Inv, UringKill, ProcessExit, NoInfo
  <1>2. \A c \in Conns : phase[c] = "none" => conn[c].type = "freed"
    BY <1>1, InUse
  <1>3. \A c \in Conns : phase'[c] # "done" => Held(c)' = <<>> /\ Held(c) = <<>>
    BY <1>1, <1>2 DEF Held
  <1>4. StreamInv'
    BY <1>1, <1>3, StreamsKept DEF EchoInv
  <1> QED
    BY <1>1, <1>4, OwedSame DEF EchoInv

\* accept() completes: no bytes move.
LEMMA AcceptStreams ==
    ASSUME Inv, EchoInv, KernelAccept
    PROVE  EchoInv'
  <1>1. /\ TypeOK /\ PlaceInv /\ SocketsTypeOK /\ OwnerInv
        /\ Accepting \in ring /\ Accepting.who = NoConn
        /\ UNCHANGED <<listening, cl, rst, sent, taken, echo, got, pc, count, conn, sq>>
    BY DEF Inv, TypeOK, KernelAccept, Accepting
  <1>2. PICK r \in Int : Done(Accepting, r)
    BY SocketsAssumption DEF KernelAccept
  <1>3. /\ Elems(cq') = Elems(cq) \cup {[who |-> NoConn, res |-> r]}
        /\ Named(Asked') = Named(Asked) \ {NoConn}
    BY <1>1, <1>2, DonePlaces
  <1>4. \A c \in Conns : phase'[c] # "done" => phase[c] # "done"
    <2>1. CASE UNCHANGED phase
      BY <2>1
    <2>2. CASE \E f \in Fds : /\ AcceptAs(f)
                              /\ owner' = [owner EXCEPT ![f] = Head(backlog)]
                              /\ phase' = [phase EXCEPT ![Head(backlog)] = "open"]
      <3>1. Head(backlog) \in Conns /\ phase[Head(backlog)] = "queued"
        BY <1>1, <2>2, AcceptOwner
      <3> QED
        BY <1>1, <2>2, <3>1 DEF SocketsTypeOK
    <2> QED
      BY <2>1, <2>2 DEF KernelAccept
  <1>5. \A c \in Conns : Held(c)' = Held(c)
    <2> TAKE c \in Conns
    <2>1. c # NoConn
      BY SocketsAssumption
    <2>2. \A e : e.who = c => (e \in Elems(cq') <=> e \in Elems(cq))
      BY <1>3, <2>1
    <2> QED
      BY <1>1, <1>3, <2>1, <2>2, HeldSame
  <1>6. StreamInv'
    <2>1. \A c \in Conns :
             conn'[c].type = "write" /\ c \in Named(Asked') => conn'[c].buf # <<>>
      BY <1>1, <1>3 DEF EchoInv, StreamInv
    <2>2. \A e \in Elems(cq') : e.who # NoConn =>
             e \in Elems(cq) /\ conn'[e.who] = conn[e.who]
      BY <1>1, <1>3
    <2> QED
      BY <1>1, <1>4, <1>5, <2>1, <2>2, StreamsKept DEF EchoInv
  <1> QED
    BY <1>1, <1>6, OwedSame DEF EchoInv

\* A completion of the accept.
LEMMA TurnsAwayStreams ==
    ASSUME Inv, EchoInv, Reap, cq # <<>>, TurnsAway
    PROVE  EchoInv'
  <1>1. /\ TypeOK /\ SocketsTypeOK /\ PlaceInv /\ sq \in Seq(Sqes)
        /\ Head(cq).who = NoConn /\ sq' = Append(sq, Accepting) /\ conn' = conn
        /\ \/ UNCHANGED <<owner, phase>>
           \/ Head(cq).res \in OpenFds /\ CloseFd(Head(cq).res)
        /\ UNCHANGED <<cl, rst, sent, taken, echo, got, ring>>
    BY DEF Inv, TypeOK, TurnsAway, Reap
  <1>2. Elems(cq') = {e \in Elems(cq) : e.who # NoConn}
    BY <1>1, ReapTakes
  <1>3. Asked' = Asked \cup {Accepting}
    <2>1. Elems(sq') = Elems(sq) \cup {Accepting}
      BY <1>1, EntryTypes, AppendWho
    <2> QED
      BY <1>1, <2>1 DEF Asked
  <1>4. \A c \in Conns : phase'[c] # "done" => phase[c] # "done"
    BY <1>1 DEF CloseFd, SocketsTypeOK, OpenFds
  <1>5. \A c \in Conns : c \in Named(Asked') <=> c \in Named(Asked)
    BY <1>3, SocketsAssumption DEF Named, Accepting
  <1>6. \A c \in Conns : Held(c)' = Held(c)
    BY <1>1, <1>2, <1>5, HeldSame, SocketsAssumption
  <1>7. StreamInv'
    BY <1>1, <1>2, <1>4, <1>5, <1>6, StreamsKept DEF EchoInv, StreamInv
  <1> QED
    BY <1>1, <1>7, OwedSame DEF EchoInv

\* A new connection has no bytes yet.
LEMMA TakesOnStreams ==
    ASSUME Inv, EchoInv, Reap, cq # <<>>, NEW c \in Conns, TakesOn(c)
    PROVE  EchoInv'
  <1> DEFINE i == [fd |-> Head(cq).res, type |-> "read", buf |-> <<>>]
  <1>1. /\ TypeOK /\ SocketsTypeOK /\ PlaceInv /\ sq \in Seq(Sqes) /\ conn \in [Conns -> Infos]
        /\ Head(cq).who = NoConn /\ sq' = Append(Append(sq, Reading(c)), Accepting)
        /\ conn' = [conn EXCEPT ![c] = i] /\ conn[c].type = "freed"
        /\ UNCHANGED <<phase, cl, rst, sent, taken, echo, got, ring>>
    BY DEF Inv, TypeOK, TakesOn, Reap
  <1>2. Elems(cq') = {e \in Elems(cq) : e.who # NoConn}
    BY <1>1, ReapTakes
  <1>3. Asked' = Asked \cup {Reading(c), Accepting}
    <2> DEFINE q == Append(sq, Reading(c))
    <2>1. /\ q \in Seq(Sqes) /\ Elems(q) = Elems(sq) \cup {Reading(c)}
          /\ sq' = Append(q, Accepting)
      BY <1>1, EntryTypes, AppendWho
    <2> HIDE DEF q
    <2>2. Elems(sq') = Elems(q) \cup {Accepting}
      BY <2>1, EntryTypes, AppendWho
    <2> QED
      BY <1>1, <2>1, <2>2 DEF Asked
  <1>4. \A d \in Conns \ {c} : d \in Named(Asked') <=> d \in Named(Asked)
    BY <1>3, SocketsAssumption DEF Named, Accepting, Reading
  <1>5. conn'[c].type = "read" /\ \A d \in Conns \ {c} : conn'[d] = conn[d]
    BY <1>1
  <1>6. \A e \in Elems(cq) : e.who # c
    <2>1. c \notin Live
      BY <1>1, SocketsAssumption DEF Live
    <2> QED
      BY <1>1, <2>1, WhosNamed DEF PlaceInv, Named
  <1>7. \A d \in Conns : Held(d)' = Held(d)
    <2> TAKE d \in Conns
    <2>1. CASE d = c
      <3>1. Held(c) = <<>>
        BY <1>1 DEF Held
      <3>2. Held(c)' = <<>>
        BY <1>2, <1>5, <1>6 DEF Held
      <3> QED
        BY <2>1, <3>1, <3>2
    <2>2. CASE d # c
      BY <1>2, <1>4, <1>5, <2>2, HeldSame, SocketsAssumption
    <2> QED
      BY <2>1, <2>2
  <1>8. StreamInv'
    <2>1. \A d \in Conns :
             conn'[d].type = "write" /\ d \in Named(Asked') => conn'[d].buf # <<>>
      BY <1>4, <1>5 DEF EchoInv, StreamInv
    <2>2. \A e \in Elems(cq') : e.who # NoConn =>
             e \in Elems(cq) /\ conn'[e.who] = conn[e.who]
      <3> SUFFICES ASSUME NEW e \in Elems(cq), e.who # NoConn
                   PROVE  conn'[e.who] = conn[e.who]
        BY <1>2
      <3>1. e.who \in Conns \ {c}
        BY <1>1, <1>6, CompletionOf
      <3> QED
        BY <1>5, <3>1
    <2> QED
      BY <1>1, <1>7, <2>1, <2>2, StreamsKept DEF EchoInv
  <1> QED
    BY <1>1, <1>8, OwedSame DEF EchoInv

\* The end of a connection.
LEMMA LetsGoStreams ==
    ASSUME Inv, EchoInv, Reap, cq # <<>>, NEW c \in Conns, LetsGo(c)
    PROVE  EchoInv'
  <1>1. /\ TypeOK /\ SocketsTypeOK /\ PlaceInv /\ conn \in [Conns -> Infos]
        /\ Head(cq).who = c /\ sq' = sq /\ conn' = [conn EXCEPT ![c] = NoInfo]
        /\ UNCHANGED <<cl, rst, sent, taken, echo, got, ring>>
    BY DEF Inv, TypeOK, LetsGo, Free, Reap
  <1>2. Elems(cq') = {e \in Elems(cq) : e.who # c}
    BY <1>1, ReapTakes
  <1>3. phase' = [phase EXCEPT ![c] = "done"] /\ phase[c] = "open"
    BY LetsGoInv
  <1>4. /\ Asked' = Asked /\ conn'[c].type = "freed"
        /\ \A d \in Conns \ {c} : conn'[d] = conn[d]
    BY <1>1 DEF Asked, NoInfo
  <1>5. \A d \in Conns \ {c} : Held(d)' = Held(d)
    BY <1>2, <1>4, HeldSame
  <1>6. \A d \in Conns : phase'[d] # "done" => phase[d] # "done" /\ d # c
    BY <1>1, <1>3 DEF SocketsTypeOK
  <1>7. StreamInv'
    <2>1. \A d \in Conns :
             conn'[d].type = "write" /\ d \in Named(Asked') => conn'[d].buf # <<>>
      BY <1>4 DEF EchoInv, StreamInv
    <2>2. \A e \in Elems(cq') : e.who # NoConn =>
             e \in Elems(cq) /\ conn'[e.who] = conn[e.who]
      BY <1>1, <1>2, <1>4 DEF TypeOK, Elems, Cqes
    <2> QED
      BY <1>1, <1>5, <1>6, <2>1, <2>2, StreamsKept DEF EchoInv
  <1> QED
    BY <1>1, <1>7, OwedSame DEF EchoInv
\* The connection goes on: what was read is handed on to its write.
LEMMA GoesOnStreams ==
    ASSUME Inv, EchoInv, Reap, cq # <<>>, NEW c \in Conns, GoesOn(c)
    PROVE  EchoInv'
  <1> DEFINE t == Turn(conn[c].type)
             s == [op |-> t, who |-> c]
  <1>1. /\ TypeOK /\ SocketsTypeOK /\ PlaceInv /\ sq \in Seq(Sqes) /\ conn \in [Conns -> Infos]
        /\ Head(cq).who = c /\ Head(cq).res > 0 /\ conn[c].type # "freed" /\ c # NoConn
        /\ conn' = [conn EXCEPT ![c].type = t] /\ sq' = Append(sq, s)
        /\ UNCHANGED <<phase, cl, rst, sent, taken, echo, got, ring>>
    BY SocketsAssumption DEF Inv, TypeOK, GoesOn, Reap
  <1>2. /\ Elems(cq') = {e \in Elems(cq) : e.who # c}
        /\ Head(cq) \in Elems(cq) /\ c \notin Whos(sq) /\ c \notin Named(ring)
    BY <1>1, ReapTakes
  <1>3. /\ conn[c].type \in {"read", "write"}
        /\ t = IF conn[c].type = "read" THEN "write" ELSE "read"
        /\ s \in Sqes /\ s.who = c
    BY <1>1 DEF Turn, Infos, Sqes
  <1>4. /\ conn'[c].type = t /\ conn'[c].buf = conn[c].buf
        /\ \A d \in Conns \ {c} : conn'[d] = conn[d]
    BY <1>1, <1>3 DEF Infos
  <1> HIDE DEF t, s
  <1>5. Asked' = Asked \cup {s}
    <2>1. Elems(sq') = Elems(sq) \cup {s}
      BY <1>1, <1>3, AppendWho
    <2> QED
      BY <1>1, <2>1 DEF Asked
  <1>6. c \notin Named(Asked) /\ c \in Named(Asked')
    <2>1. Named(Asked) = Whos(sq) \cup Named(ring)
      BY WhosNamed DEF Named, Asked
    <2> QED
      BY <1>2, <1>3, <1>5, <2>1 DEF Named
  <1>7. \A d \in Conns \ {c} : d \in Named(Asked') <=> d \in Named(Asked)
    BY <1>3, <1>5 DEF Named
  <1>8. conn[c].type = "read" => conn[c].buf # <<>>
    <2>1. \A e \in Elems(cq) : e.who = c /\ e.res > 0 /\ conn[c].type = "read" =>
             conn[c].buf # <<>>
      BY <1>1, CompletionOf DEF EchoInv, StreamInv
    <2> QED
      BY <1>1, <1>2, <2>1
  <1>9. \A d \in Conns : Held(d)' = Held(d)
    <2> TAKE d \in Conns
    <2>1. CASE d = c /\ conn[c].type = "read"
      <3>1. Held(c) = conn[c].buf
        BY <1>1, <1>2, <2>1 DEF Held
      <3>2. Held(c)' = conn[c].buf
        BY <1>3, <1>4, <1>6, <2>1 DEF Held
      <3> QED
        BY <2>1, <3>1, <3>2
    <2>2. CASE d = c /\ conn[c].type = "write"
      <3>1. Held(c) = <<>>
        BY <1>6, <2>2 DEF Held
      <3>2. Held(c)' = <<>>
        BY <1>2, <1>3, <1>4, <2>2 DEF Held
      <3> QED
        BY <2>2, <3>1, <3>2
    <2>3. CASE d # c
      BY <1>2, <1>4, <1>7, <2>3, HeldSame
    <2> QED
      BY <1>3, <2>1, <2>2, <2>3
  <1>10. StreamInv'
    <2>1. \A d \in Conns :
             conn'[d].type = "write" /\ d \in Named(Asked') => conn'[d].buf # <<>>
      BY <1>3, <1>4, <1>7, <1>8 DEF EchoInv, StreamInv
    <2>2. \A e \in Elems(cq') : e.who # NoConn =>
             e \in Elems(cq) /\ conn'[e.who] = conn[e.who]
      <3> SUFFICES ASSUME NEW e \in Elems(cq), e.who # NoConn, e.who # c
                   PROVE  conn'[e.who] = conn[e.who]
        BY <1>2
      <3>1. e \in Cqes
        BY <1>1, ElemsType DEF TypeOK
      <3> QED
        BY <1>4, <3>1 DEF Cqes
    <2> QED
      BY <1>1, <1>9, <2>1, <2>2, StreamsKept DEF EchoInv
  <1> QED
    BY <1>1, <1>10, OwedSame DEF EchoInv

\* What the kernel's completion of c's read or write leaves to be shown.
LEMMA DoneStreams ==
    ASSUME Inv, StreamInv, NEW c \in Conns, NEW s \in ring, s.who = c, NEW r \in Int,
           Done(s, r), UNCHANGED <<backlog, owner, phase, listening, pc, count, sq, cl, rst, sent>>,
           \A d \in Conns : conn'[d].type = conn[d].type /\ conn'[d].fd = conn[d].fd,
           \A d \in Conns \ {c} :
              conn'[d] = conn[d] /\ taken'[d] = taken[d] /\ echo'[d] = echo[d],
           ~rst[c] => Run(c, echo'[c], Held(c)', taken'[c], sent[c]),
           \/ r > 0 /\ (conn[c].type = "read" => conn'[c].buf # <<>>)
           \/ r <= 0 /\ cl[c] = "gone"
           \/ r = 0 /\ conn[c].type = "read" /\ cl[c] = "shut" /\ taken'[c] = sent[c]
    PROVE  StreamInv'
  <1>1. /\ Elems(cq') = Elems(cq) \cup {[who |-> c, res |-> r]}
        /\ Named(Asked') = Named(Asked) \ {c}
        /\ \A e \in Elems(cq) : e.who # c
    BY DoneInv
  <1>2. \A d \in Conns \ {c} : Held(d)' = Held(d)
    BY <1>1, HeldSame
  <1>3. \A d \in Conns :
           phase'[d] # "done" /\ ~rst'[d] => Run(d, echo'[d], Held(d)', taken'[d], sent'[d])
    BY <1>2 DEF StreamInv
  <1>4. \A d \in Conns : conn'[d].type = "write" /\ d \in Named(Asked') => conn'[d].buf # <<>>
    BY <1>1 DEF StreamInv
  <1>5. \A e \in Elems(cq') : e.who # NoConn =>
          \/ e.res > 0 /\ (conn'[e.who].type = "read" => conn'[e.who].buf # <<>>)
          \/ e.res <= 0 /\ cl'[e.who] = "gone"
          \/ /\ e.res = 0 /\ conn'[e.who].type = "read"
             /\ cl'[e.who] = "shut" /\ taken'[e.who] = sent'[e.who]
    <2> SUFFICES ASSUME NEW e \in Elems(cq'), e.who # NoConn
                 PROVE
          \/ e.res > 0 /\ (conn'[e.who].type = "read" => conn'[e.who].buf # <<>>)
          \/ e.res <= 0 /\ cl[e.who] = "gone"
          \/ /\ e.res = 0 /\ conn'[e.who].type = "read"
             /\ cl[e.who] = "shut" /\ taken'[e.who] = sent[e.who]
      OBVIOUS
    <2>1. CASE e = [who |-> c, res |-> r]
      BY <2>1
    <2>2. CASE e \in Elems(cq)
      <3>1. e.who \in Conns \ {c}
        BY <1>1, <2>2, CompletionOf DEF Inv
      <3> QED
        BY <2>2, <3>1 DEF StreamInv
    <2> QED
      BY <1>1, <2>1, <2>2
  <1>6. GoneInv'
    BY DEF StreamInv, GoneInv
  <1> QED
    BY <1>3, <1>4, <1>5, <1>6 DEF StreamInv

\* read() completes with bytes that go on where the echo stops, or with the
\* end of the stream.
LEMMA KernelReadStreams ==
    ASSUME Inv, EchoInv, NEW c \in Conns, KernelRead(c)
    PROVE  EchoInv'
  <1>1. /\ SocketsTypeOK /\ PlaceInv /\ InfoInv /\ conn \in [Conns -> Infos]
        /\ Reading(c) \in ring /\ Reading(c).who = c /\ Reading(c).op = "read"
        /\ UNCHANGED <<listening, backlog, phase, owner, cl, rst, sent, echo, got, pc, count, sq>>
    BY DEF Inv, TypeOK, KernelRead, Reading
  <1>2. /\ conn[c].type = "read" /\ owner[conn[c].fd] = c /\ phase[c] = "open"
        /\ c \in Named(ring) /\ c # NoConn
    <2>1. c \in Named(ring) /\ c # NoConn
      BY <1>1, SocketsAssumption DEF Named
    <2>2. conn[c].type = "read"
      BY <1>1, <2>1 DEF PlaceInv, Asked
    <2> QED
      BY <2>1, <2>2, InUse DEF Inv
  <1>3. \A e \in Elems(cq) : e.who # c
    BY <1>1, <1>2, WhosNamed DEF PlaceInv, Named
  <1>4. Held(c) = <<>>
    BY <1>2, <1>3 DEF Held
  <1>5. ~rst[c] => Run(c, echo[c], <<>>, taken[c], sent[c])
    BY <1>2, <1>4 DEF EchoInv, StreamInv
  <1>6. sent[c] \in Nat /\ taken[c] \in Nat
    BY <1>1, ConnParts
  <1>7. CASE /\ Avail(c) > 0
             /\ conn' = [conn EXCEPT ![c].buf = ReadData(c)]
             /\ taken' = [taken EXCEPT ![c] = @ + ReadLen(c)]
             /\ Done(Reading(c), ReadLen(c))
    <2> DEFINE k == ReadLen(c)
    <2>1. k \in Nat \ {0} /\ taken[c] + k <= sent[c] /\ k \in Int /\ k > 0
      BY <1>1, <1>7, ReadLenType
    <2>2. /\ conn'[c].buf = Bytes(c, taken[c], k)
          /\ conn'[c].type = "read" /\ taken'[c] = taken[c] + k
          /\ \A d \in Conns : conn'[d].type = conn[d].type /\ conn'[d].fd = conn[d].fd
          /\ \A d \in Conns \ {c} : conn'[d] = conn[d] /\ taken'[d] = taken[d]
      BY <1>1, <1>2, <1>7 DEF ReadData, Infos, SocketsTypeOK
    <2>3. Done(Reading(c), k)
      BY <1>7
    <2> HIDE DEF k
    <2>4. Bytes(c, taken[c], k) # <<>>
      BY <1>6, <2>1, BytesType
    <2>5. [who |-> c, res |-> k] \in Elems(cq')
      BY <1>1, <2>1, <2>2, <2>3, DoneInv
    <2>6. Held(c)' = Bytes(c, taken[c], k)
      BY <2>1, <2>2, <2>5 DEF Held
    <2>7. ~rst[c] => Run(c, echo'[c], Held(c)', taken'[c], sent[c])
      BY <1>1, <1>5, <1>6, <2>1, <2>2, <2>6, ReadRun
    <2>8. StreamInv'
      BY <1>1, <2>1, <2>2, <2>3, <2>4, <2>7, DoneStreams DEF EchoInv
    <2> QED
      BY <1>1, <2>8, OwedSame DEF EchoInv
  <1>8. CASE /\ ReadEnds(c)
             /\ Done(Reading(c), IF rst[c] THEN -1 ELSE 0)
             /\ UNCHANGED <<conn, taken>>
    <2> DEFINE r == IF rst[c] THEN -1 ELSE 0
    <2>1. r \in Int /\ r <= 0 /\ (r # 0 => rst[c]) /\ Done(Reading(c), r)
      BY <1>8
    <2> HIDE DEF r
    <2>2. Elems(cq') = Elems(cq) \cup {[who |-> c, res |-> r]}
      BY <1>1, <1>8, <2>1, DoneInv
    <2>3. Held(c)' = <<>>
      BY <1>2, <1>3, <1>8, <2>1, <2>2 DEF Held
    <2>4. \/ r <= 0 /\ cl[c] = "gone"
          \/ r = 0 /\ conn[c].type = "read" /\ cl[c] = "shut" /\ taken'[c] = sent[c]
      <3>1. CASE rst[c]
        BY <2>1, <3>1 DEF EchoInv, StreamInv, GoneInv
      <3>2. CASE ~rst[c]
        <4>1. r = 0 /\ cl[c] \in {"shut", "gone"} /\ taken[c] = sent[c]
          BY <1>1, <1>6, <1>8, <2>1, <3>2, ConnParts DEF ReadEnds, Eof, Avail
        <4> QED
          BY <1>2, <1>8, <4>1
      <3> QED
        BY <3>1, <3>2
    <2>5. StreamInv'
      BY <1>1, <1>5, <1>8, <2>1, <2>3, <2>4, DoneStreams DEF EchoInv
    <2> QED
      BY <1>1, <2>5, OwedSame DEF EchoInv
  <1> QED
    BY <1>2, <1>7, <1>8 DEF KernelRead

\* What waits to be written fits the socket.
LEMMA HeldFits ==
    ASSUME SocketsTypeOK, OwedInv, AnswersFit, NEW c \in Conns, NEW w \in Seq(Byte),
           Run(c, echo[c], w, taken[c], sent[c])
    PROVE  WriteLen(c, w) = Len(w)
  <1>1. /\ sent[c] \in Nat /\ taken[c] \in Nat /\ got[c] \in Nat
        /\ Len(echo[c]) \in Nat /\ Len(w) \in Nat /\ SndCap \in Int /\ Ahead \in Int
    BY ConnParts, SocketsAssumption DEF Ahead
  <1>2. /\ taken[c] = Len(echo[c]) + Len(w) /\ taken[c] <= sent[c]
        /\ sent[c] - got[c] <= Ahead /\ Ahead <= SndCap
    BY DEF Run, OwedInv, AnswersFit
  <1>3. Len(w) <= SndCap - (Len(echo[c]) - got[c])
    BY <1>1, <1>2
  <1> QED
    BY <1>1, <1>3 DEF WriteLen, Lesser, Space, InFlight

\* write() completes with all there is, or fails because the client is gone.
LEMMA KernelWriteStreams ==
    ASSUME Inv, EchoInv, AnswersFit, NEW c \in Conns, KernelWrite(c)
    PROVE  EchoInv'
  <1> DEFINE w == conn[c].buf
  <1>1. /\ SocketsTypeOK /\ PlaceInv /\ InfoInv /\ conn \in [Conns -> Infos]
        /\ Writing(c) \in ring /\ Writing(c).who = c /\ Writing(c).op = "write"
        /\ UNCHANGED <<listening, backlog, phase, owner, cl, rst, sent, taken, got,
                       pc, count, conn, sq>>
        /\ OwedInv /\ w \in Seq(Byte)
    BY DEF Inv, TypeOK, KernelWrite, Writing, EchoInv, Infos
  <1>2. /\ conn[c].type = "write" /\ owner[conn[c].fd] = c /\ phase[c] = "open"
        /\ c \in Named(ring) /\ c \in Named(Asked) /\ c # NoConn
    <2>1. c \in Named(ring) /\ c \in Named(Asked) /\ c # NoConn
      BY <1>1, SocketsAssumption DEF Named, Asked
    <2>2. conn[c].type = "write"
      BY <1>1, <2>1 DEF PlaceInv, Asked
    <2> QED
      BY <2>1, <2>2, InUse DEF Inv
  <1>3. Held(c) = w /\ w # <<>>
    BY <1>2 DEF Held, EchoInv, StreamInv
  <1>4. ~rst[c] => Run(c, echo[c], w, taken[c], sent[c])
    BY <1>2, <1>3 DEF EchoInv, StreamInv
  <1> HIDE DEF w
  <1>5. ASSUME NEW r \in Int, Done(Writing(c), r)
        PROVE  Held(c)' = <<>>
    <2>1. Named(Asked') = Named(Asked) \ {c}
      BY <1>1, <1>5, DoneInv
    <2> QED
      BY <1>1, <1>2, <2>1 DEF Held
  <1>6. CASE Write(c, w) /\ Done(Writing(c), WriteLen(c, w))
    <2>1. Run(c, echo[c], w, taken[c], sent[c]) /\ ~rst[c] /\ Space(c) > 0
      BY <1>4, <1>6 DEF Write
    <2>2. WriteLen(c, w) = Len(w) /\ WriteLen(c, w) \in Int /\ WriteLen(c, w) > 0 /\ Len(w) \in Nat
      BY <1>1, <1>3, <2>1, HeldFits, WriteLenSize
    <2>3. /\ Run(c, echo'[c], SubSeq(w, Len(w) + 1, Len(w)), taken[c], sent[c])
          /\ Len(echo'[c]) = Len(echo[c]) + Len(w)
          /\ \A d \in Conns \ {c} : echo'[d] = echo[d]
      BY <1>1, <1>6, <2>1, <2>2, WriteSplits
    <2>4. SubSeq(w, Len(w) + 1, Len(w)) = <<>>
      BY <1>1, <2>2
    <2>5. Run(c, echo'[c], Held(c)', taken'[c], sent[c])
      BY <1>1, <1>5, <1>6, <2>2, <2>3, <2>4
    <2>6. StreamInv'
      BY <1>1, <1>2, <1>6, <2>2, <2>3, <2>5, DoneStreams DEF EchoInv
    <2>7. OwedInv'
      <3> SUFFICES ASSUME NEW d \in Conns PROVE got[d] <= Len(echo'[d])
        BY <1>1 DEF OwedInv
      <3>1. got[d] <= Len(echo[d]) /\ got[d] \in Nat /\ Len(echo[d]) \in Nat
        BY <1>1, ConnParts DEF OwedInv
      <3> QED
        BY <2>2, <2>3, <3>1
    <2> QED
      BY <2>6, <2>7 DEF EchoInv
  <1>7. CASE WriteFails(c) /\ Done(Writing(c), -1) /\ UNCHANGED echo
    <2>1. rst[c] /\ cl[c] = "gone" /\ -1 \in Int /\ -1 <= 0
      BY <1>7 DEF WriteFails, EchoInv, StreamInv, GoneInv
    <2>2. StreamInv'
      BY <1>1, <1>7, <2>1, DoneStreams DEF EchoInv
    <2> QED
      BY <1>1, <1>7, <2>2, OwedSame DEF EchoInv
  <1> QED
    BY <1>2, <1>6, <1>7 DEF KernelWrite, w
\* The clients and the network.
LEMMA NetworkStreams ==
    ASSUME Inv, EchoInv, UringNetwork
    PROVE  EchoInv'
  <1>1. PICK c \in Conns :
           \/ Connect(c) \/ ClientSend(c) \/ ClientRecv(c)
           \/ ClientShut(c) \/ ClientClose(c) \/ ResetArrives(c)
    BY DEF UringNetwork
  <1>2. UNCHANGED <<pc, count, conn, sq, ring, cq>>
    BY DEF UringNetwork
  <1>3. TypeOK /\ SocketsTypeOK /\ OwnerInv /\ GoneInv /\ StreamInv /\ OwedInv
    BY DEF Inv, TypeOK, EchoInv, StreamInv
  <1>4. /\ GoneInv' /\ UNCHANGED <<owner, taken, echo>>
        /\ \A d \in Conns : phase'[d] # "done" => phase[d] # "done"
        /\ \A d \in Conns : sent[d] <= sent'[d]
    BY <1>1, <1>3, ClientStreams
  <1>5. \A d \in Conns : sent'[d] \in Nat /\ sent[d] \in Nat /\ taken[d] \in Nat
    BY <1>1, <1>3, ClientTypes, ConnParts DEF SocketsTypeOK
  <1>6. \A d \in Conns : Held(d)' = Held(d)
    BY <1>2 DEF Held, Asked
  <1>7. \A d \in Conns : rst[d] => rst'[d]
    <2>1. CASE ClientClose(c)
      <3>1. cl[c] # "gone" /\ \E r \in BOOLEAN : rst' = [rst EXCEPT ![c] = r]
        BY <2>1 DEF ClientClose
      <3>2. ~rst[c]
        BY <1>3, <3>1 DEF GoneInv
      <3> QED
        BY <1>3, <3>1, <3>2 DEF SocketsTypeOK
    <2>2. CASE ResetArrives(c)
      BY <1>3, <2>2 DEF ResetArrives, SocketsTypeOK
    <2>3. CASE ~ClientClose(c) /\ ~ResetArrives(c)
      BY <1>1, <2>3 DEF Connect, ClientSend, ClientRecv, ClientShut
    <2> QED
      BY <2>1, <2>2, <2>3
  <1>8. \A d \in Conns :
           phase'[d] # "done" /\ ~rst'[d] => Run(d, echo'[d], Held(d)', taken'[d], sent'[d])
    <2> SUFFICES ASSUME NEW d \in Conns, phase'[d] # "done", ~rst'[d]
                 PROVE  Run(d, echo[d], Held(d), taken[d], sent'[d])
      BY <1>4, <1>6
    <2>1. Run(d, echo[d], Held(d), taken[d], sent[d])
      BY <1>3, <1>4, <1>7 DEF StreamInv
    <2> QED
      BY <1>4, <1>5, <2>1, LongerRun
  <1>9. \A d \in Conns : /\ cl[d] = "gone" => cl'[d] = "gone"
                         /\ cl[d] = "shut" => cl'[d] \in {"shut", "gone"} /\ sent'[d] = sent[d]
    <2> TAKE d \in Conns
    <2>1. CASE ClientSend(c)
      <3>1. cl' = cl /\ cl[c] = "up" /\ \E n : sent' = [sent EXCEPT ![c] = n]
        BY <2>1 DEF ClientSend
      <3> QED
        BY <1>3, <3>1 DEF SocketsTypeOK
    <2>2. CASE ClientShut(c)
      BY <1>3, <2>2 DEF ClientShut, SocketsTypeOK
    <2>3. CASE ClientClose(c)
      BY <1>3, <2>3 DEF ClientClose, SocketsTypeOK
    <2>4. CASE Connect(c) \/ ClientRecv(c) \/ ResetArrives(c)
      BY <2>4 DEF Connect, ClientRecv, ResetArrives
    <2> QED
      BY <1>1, <2>1, <2>2, <2>3, <2>4
  <1>10. \A e \in Elems(cq') : e.who # NoConn =>
          \/ e.res > 0 /\ (conn'[e.who].type = "read" => conn'[e.who].buf # <<>>)
          \/ e.res <= 0 /\ cl'[e.who] = "gone"
          \/ /\ e.res = 0 /\ conn'[e.who].type = "read"
             /\ cl'[e.who] = "shut" /\ taken'[e.who] = sent'[e.who]
    <2> SUFFICES ASSUME NEW e \in Elems(cq), e.who # NoConn
                 PROVE
          \/ e.res > 0 /\ (conn[e.who].type = "read" => conn[e.who].buf # <<>>)
          \/ e.res <= 0 /\ cl'[e.who] = "gone"
          \/ /\ e.res = 0 /\ conn[e.who].type = "read"
             /\ cl'[e.who] = "shut" /\ taken[e.who] = sent'[e.who]
      BY <1>2, <1>4
    <2>1. e.who \in Conns
      BY <1>3, CompletionOf
    <2>2. \/ e.res > 0 /\ (conn[e.who].type = "read" => conn[e.who].buf # <<>>)
          \/ e.res <= 0 /\ cl[e.who] = "gone"
          \/ /\ e.res = 0 /\ conn[e.who].type = "read"
             /\ cl[e.who] = "shut" /\ taken[e.who] = sent[e.who]
      BY <1>3 DEF StreamInv
    <2> QED
      BY <1>9, <2>1, <2>2
  <1>11. StreamInv'
    BY <1>2, <1>3, <1>4, <1>8, <1>10 DEF StreamInv, Asked
  <1>12. OwedInv'
    <2> SUFFICES ASSUME NEW d \in Conns
                 PROVE  got'[d] <= Len(echo[d]) /\ sent'[d] - got'[d] <= Ahead
      BY <1>4 DEF OwedInv
    <2>1. /\ got[d] \in Nat /\ sent[d] \in Nat /\ Len(echo[d]) \in Nat /\ Ahead \in Nat
          /\ got[d] <= Len(echo[d]) /\ sent[d] - got[d] <= Ahead
      BY <1>3, ConnParts, SocketsAssumption DEF OwedInv, Ahead
    <2>2. CASE ClientSend(c)
      <3>1. PICK n \in 1..(MaxBytes - sent[c]) :
               MaySend(c, n) /\ sent' = [sent EXCEPT ![c] = @ + n] /\ got' = got
        BY <2>2 DEF ClientSend
      <3>2. n \in Int /\ sent[c] \in Nat /\ got[c] \in Nat
        BY <1>3, ConnParts, SocketsAssumption
      <3>3. sent[c] + n - got[c] <= Ahead
        BY <3>1, <3>2, SocketsAssumption DEF MaySend, Ahead
      <3> QED
        BY <1>3, <2>1, <3>1, <3>2, <3>3 DEF SocketsTypeOK
    <2>3. CASE ClientRecv(c)
      <3>1. InFlight(c) > 0 /\ got' = [got EXCEPT ![c] = @ + 1] /\ sent' = sent
        BY <2>3 DEF ClientRecv
      <3>2. Len(echo[c]) \in Nat /\ got[c] \in Nat
        BY <1>3, ConnParts
      <3>3. got[c] + 1 <= Len(echo[c])
        BY <3>1, <3>2 DEF InFlight
      <3> QED
        BY <1>3, <2>1, <3>1, <3>3 DEF SocketsTypeOK
    <2>4. CASE ~ClientSend(c) /\ ~ClientRecv(c)
      BY <1>1, <2>1, <2>4 DEF Connect, ClientShut, ClientClose, ResetArrives
    <2> QED
      BY <2>2, <2>3, <2>4
  <1> QED
    BY <1>11, <1>12 DEF EchoInv

\* The stream invariant is inductive.
LEMMA EchoInvKept ==
    ASSUME Inv, Enough, EchoInv, AnswersFit, [UringNext]_uringVars
    PROVE  EchoInv'
  <1>1. CASE UringWait \/ UringSubmit \/ UNCHANGED uringVars
    <2>1. /\ UNCHANGED <<phase, cl, rst, sent, taken, echo, got, conn, cq>>
      BY <1>1 DEF UringWait, UringSubmit, uringVars, sockVars
    <2>2. Asked' = Asked
      <3>1. CASE UringSubmit
        BY <3>1, SubmitPlaces DEF Inv
      <3>2. CASE ~UringSubmit
        BY <1>1, <3>2 DEF UringWait, uringVars, Asked
      <3> QED
        BY <3>1, <3>2
    <2> QED
      BY <2>1, <2>2, QuietStreams
  <1> QED
    BY <1>1, StepCases, BootStreams, KillStreams, NetworkStreams, AcceptStreams,
       KernelReadStreams, KernelWriteStreams, TurnsAwayStreams, TakesOnStreams,
       LetsGoStreams, GoesOnStreams

-----------------------------------------------------------------------------
(* Each step is one of EchoService.                                        *)

EchoStep == [Echoer!Next]_(Echoer!echoVars)

\* Who is served: everyone who is open and whose accept is handled.
LEMMA ServedIs ==
    ASSUME NEW c \in Conns
    PROVE  /\ ServedPhase[c] = IF \E f \in OpenFds : owner[f] = c /\ Announced(f)
                               THEN "queued" ELSE phase[c]
           /\ ServedPhase'[c] = IF \E f \in OpenFds' : owner'[f] = c /\ Announced(f)'
                                THEN "queued" ELSE phase'[c]
  BY DEF ServedPhase

\* A step after which all are served as before.
LEMMA ServedMovesNot ==
    ASSUME \A d \in Conns : ServedPhase'[d] = ServedPhase[d]
    PROVE  ServedPhase' = ServedPhase
  <1>1. /\ ServedPhase' = [c \in Conns |-> ServedPhase'[c]]
        /\ ServedPhase = [c \in Conns |-> ServedPhase[c]]
    BY DEF ServedPhase
  <1> QED
    BY <1>1

\* And one after which all but one are.
LEMMA ServedMoves ==
    ASSUME NEW c \in Conns, NEW x, ServedPhase'[c] = x,
           \A d \in Conns \ {c} : ServedPhase'[d] = ServedPhase[d]
    PROVE  ServedPhase' = [ServedPhase EXCEPT ![c] = x]
  <1>1. /\ ServedPhase' = [d \in Conns |-> ServedPhase'[d]]
        /\ ServedPhase = [d \in Conns |-> ServedPhase[d]]
    BY DEF ServedPhase
  <1> QED
    BY <1>1

\* A step that moves no connection and announces nothing.
LEMMA ServedSame ==
    ASSUME UNCHANGED <<owner, phase>>, \A f : Announced(f)' <=> Announced(f)
    PROVE  ServedPhase' = ServedPhase
  BY DEF ServedPhase, OpenFds

\* A connection whose conn_info is in use is served.
LEMMA InUseServed ==
    ASSUME InfoInv, OwnerInv, NEW c \in Conns, conn[c].type # "freed"
    PROVE  ServedPhase[c] = "open"
  <1>1. conn[c].fd \in OpenFds /\ owner[conn[c].fd] = c /\ phase[c] = "open"
    BY InUse
  <1>2. \A f \in OpenFds : owner[f] = c => f = conn[c].fd
    BY <1>1 DEF OwnerInv
  <1>3. ~Announced(conn[c].fd)
    BY <1>1, AnnouncedElems, SocketsAssumption DEF InfoInv, OpenFds
  <1> QED
    BY <1>1, <1>2, <1>3, ServedIs

\* Steps in which the server reaches no connection.
LEMMA QuietEchoes ==
    ASSUME UNCHANGED <<listening, cl, sent, echo>>, ServedPhase' = ServedPhase
    PROVE  EchoStep
  BY DEF EchoStep, Echoer!echoVars

\* The start and the end.
LEMMA BootEchoes ==
    ASSUME Inv, UringBoot
    PROVE  EchoStep
  <1>1. OpenFds = {} /\ OpenFds' = {} /\ UNCHANGED <<phase, cl, sent, echo>>
        /\ (listening' = TRUE \/ listening' = listening)
    BY BootInv DEF Inv, InfoInv, UringBoot, Up
  <1>2. ServedPhase' = ServedPhase
    BY <1>1 DEF ServedPhase
  <1>3. CASE listening' = TRUE
    BY <1>1, <1>2, <1>3 DEF EchoStep, Echoer!Next, Echoer!Start
  <1> QED
    BY <1>1, <1>2, <1>3, QuietEchoes

\* A kill is a Shutdown.
LEMMA KillEchoes ==
    ASSUME Inv, UringKill
    PROVE  EchoStep
  <1>1. /\ ProcessExit /\ OpenFds' = {} /\ OwnerInv
    BY KillInv DEF Inv, UringKill
  <1>2. ServedPhase' = [c \in Conns |-> IF phase[c] = "none" THEN "none" ELSE "done"]
    BY <1>1 DEF ServedPhase, ProcessExit
  <1>3. \A c \in Conns : ServedPhase[c] = "none" <=> phase[c] = "none"
    BY <1>1, ServedIs DEF OwnerInv
  <1>4. ServedPhase' = [c \in Conns |-> IF ServedPhase[c] = "none" THEN "none" ELSE "done"]
    BY <1>2, <1>3
  <1> QED
    BY <1>1, <1>4 DEF ProcessExit, EchoStep, Echoer!Next, Echoer!Shutdown
\* The kernel's completion of a read or a write announces nobody.
LEMMA DoneAnnounces ==
    ASSUME Inv, NEW c \in Conns, KernelRead(c) \/ KernelWrite(c)
    PROVE  ServedPhase' = ServedPhase
  <1>1. PICK e : cq' = Append(cq, e) /\ e.who = c
    BY DEF KernelRead, KernelWrite, Done, Reading, Writing
  <1> DEFINE S == Cqes \cup {e}
  <1>2. cq \in Seq(S) /\ e \in S
    <2>1. cq \in Seq(Cqes)
      BY DEF Inv, TypeOK
    <2> QED
      BY <2>1
  <1> HIDE DEF S
  <1>3. Elems(cq') = Elems(cq) \cup {e} /\ e.who # NoConn
    BY <1>1, <1>2, AppendWho, SocketsAssumption
  <1>4. \A f : Announced(f)' <=> Announced(f)
    <2> TAKE f
    <2>1. Announced(f)' <=> \E d \in Elems(cq') : d.who = NoConn /\ d.res = f
      BY DEF Announced, Elems
    <2> QED
      BY <1>3, <2>1, AnnouncedElems
  <1>5. UNCHANGED <<owner, phase>>
    BY DEF KernelRead, KernelWrite
  <1> QED
    BY <1>4, <1>5, ServedSame

\* read() is not seen in EchoService, write() is its echo.
LEMMA KernelEchoes ==
    ASSUME Inv, EchoInv, NEW c \in Conns, KernelRead(c) \/ KernelWrite(c)
    PROVE  EchoStep
  <1>1. ServedPhase' = ServedPhase
    BY DoneAnnounces
  <1>2. CASE KernelRead(c)
    BY <1>1, <1>2, QuietEchoes DEF KernelRead
  <1>3. CASE KernelWrite(c)
    <2> DEFINE w == conn[c].buf
    <2>1. /\ SocketsTypeOK /\ PlaceInv /\ InfoInv /\ OwnerInv /\ conn \in [Conns -> Infos]
          /\ Writing(c) \in Asked /\ Writing(c).who = c /\ Writing(c).op = "write"
          /\ c \in Named(Asked) /\ c # NoConn
          /\ UNCHANGED <<listening, cl, sent>>
      BY <1>3, SocketsAssumption DEF Inv, TypeOK, KernelWrite, Writing, Asked, Named
    <2>2. conn[c].type = "write"
      BY <2>1 DEF PlaceInv
    <2>3. owner[conn[c].fd] = c /\ phase[c] = "open" /\ ServedPhase[c] = "open"
      BY <2>1, <2>2, InUse, InUseServed
    <2>4. Held(c) = w /\ w # <<>> /\ w \in Seq(Byte)
      BY <2>1, <2>2 DEF Held, EchoInv, StreamInv, Infos
    <2> HIDE DEF w
    <2>5. CASE Write(c, w)
      <3>1. Run(c, echo[c], w, taken[c], sent[c])
        BY <2>3, <2>4, <2>5 DEF Write, EchoInv, StreamInv
      <3>2. /\ Len(echo'[c]) \in (Len(echo[c]) + 1)..sent[c]
            /\ echo' = [echo EXCEPT ![c] = [k \in 1..Len(echo'[c]) |-> <<c, k>>]]
        BY <2>1, <2>4, <2>5, <3>1, RunGrows
      <3> QED
        BY <1>1, <2>1, <2>3, <3>2 DEF Echoer!Echo, Echoer!Next, EchoStep
    <2>6. CASE UNCHANGED echo
      BY <1>1, <2>1, <2>6, QuietEchoes
    <2> QED
      BY <1>3, <2>3, <2>5, <2>6 DEF KernelWrite, w
  <1> QED
    BY <1>2, <1>3

\* The completion of an accept admits its client, or turns it away.
LEMMA TurnsAwayEchoes ==
    ASSUME Inv, Reap, cq # <<>>, TurnsAway
    PROVE  EchoStep
  <1> DEFINE r == Head(cq).res
  <1>1. /\ TypeOK /\ SocketsTypeOK /\ OwnerInv /\ PlaceInv
        /\ Head(cq).who = NoConn
        /\ UNCHANGED <<listening, backlog, cl, sent, echo>>
        /\ \/ r = -1 /\ UNCHANGED <<owner, phase>>
           \/ r \in OpenFds /\ CloseFd(r)
    BY DEF Inv, TypeOK, TurnsAway, Reap
  <1>2. \A f : (Announced(f) <=> r = f) /\ ~Announced(f)'
    BY <1>1, AnnouncedHead
  <1>3. \A d \in Conns : ServedPhase'[d] = phase'[d]
    BY <1>2, ServedIs
  <1>4. CASE r = -1 /\ UNCHANGED <<owner, phase>>
    <2>1. \A d \in Conns : ServedPhase[d] = phase[d]
      BY <1>2, <1>4, ServedIs, SocketsAssumption DEF OpenFds
    <2> QED
      BY <1>1, <1>3, <1>4, <2>1, ServedMovesNot, QuietEchoes
  <1>5. CASE r \in OpenFds /\ CloseFd(r)
    <2> DEFINE c == owner[r]
    <2>1. c \in Conns /\ phase' = [phase EXCEPT ![c] = "done"]
      BY <1>1, <1>5 DEF OpenFds, SocketsTypeOK, CloseFd
    <2>2. ServedPhase[c] = "queued"
      BY <1>2, <1>5, <2>1, ServedIs
    <2>3. \A d \in Conns \ {c} : ServedPhase[d] = phase[d]
      BY <1>2, ServedIs
    <2> HIDE DEF c
    <2>4. ServedPhase'[c] = "done" /\ \A d \in Conns \ {c} : ServedPhase'[d] = ServedPhase[d]
      BY <1>1, <1>3, <2>1, <2>3 DEF SocketsTypeOK
    <2>5. ServedPhase' = [ServedPhase EXCEPT ![c] = "done"]
      BY <2>1, <2>4, ServedMoves
    <2> QED
      BY <1>1, <2>1, <2>2, <2>5 DEF Echoer!Admit, Echoer!Next, EchoStep
  <1> QED
    BY <1>1, <1>4, <1>5

\* A new connection is admitted.
LEMMA TakesOnEchoes ==
    ASSUME Inv, Reap, cq # <<>>, NEW c \in Conns, TakesOn(c)
    PROVE  EchoStep
  <1> DEFINE r == Head(cq).res
  <1>1. /\ TypeOK /\ SocketsTypeOK /\ OwnerInv /\ PlaceInv
        /\ Head(cq).who = NoConn /\ r \in OpenFds /\ owner[r] = c
        /\ UNCHANGED <<listening, cl, sent, echo, owner, phase>>
    BY DEF Inv, TypeOK, TakesOn, Reap
  <1>2. \A f : (Announced(f) <=> r = f) /\ ~Announced(f)'
    BY <1>1, AnnouncedHead
  <1>3. ServedPhase[c] = "queued" /\ phase[c] = "open"
    BY <1>1, <1>2, ServedIs DEF OwnerInv
  <1>4. ServedPhase'[c] = "open" /\ \A d \in Conns \ {c} : ServedPhase'[d] = ServedPhase[d]
    BY <1>1, <1>2, <1>3, ServedIs
  <1>5. ServedPhase' = [ServedPhase EXCEPT ![c] = "open"]
    BY <1>4, ServedMoves
  <1> QED
    BY <1>1, <1>3, <1>5 DEF Echoer!Admit, Echoer!Next, EchoStep

\* The server hangs up when the client is gone or fully answered.
LEMMA LetsGoEchoes ==
    ASSUME Inv, EchoInv, Reap, cq # <<>>, NEW c \in Conns, LetsGo(c)
    PROVE  EchoStep
  <1>1. /\ TypeOK /\ SocketsTypeOK /\ OwnerInv /\ PlaceInv /\ InfoInv /\ GoneInv
        /\ Head(cq).who = c /\ Head(cq).res <= 0 /\ conn[c].type # "freed" /\ c # NoConn
        /\ UNCHANGED <<listening, cl, sent, echo>>
    BY SocketsAssumption DEF Inv, TypeOK, LetsGo, Reap, EchoInv, StreamInv
  <1>2. /\ phase[c] = "open" /\ phase' = [phase EXCEPT ![c] = "done"]
        /\ OpenFds' = OpenFds \ {conn[c].fd} /\ owner[conn[c].fd] = c
        /\ ~Announced(conn[c].fd)
        /\ \A g \in OpenFds' : owner'[g] = owner[g]
    BY LetsGoInv
  <1>3. ServedPhase[c] = "open"
    BY <1>1, InUseServed
  <1>4. \A f : Announced(f)' <=> Announced(f)
    BY <1>1, AnnouncedHead
  <1>5. \A f \in OpenFds : owner[f] = c => f = conn[c].fd
    BY <1>1, <1>2, InUse DEF OwnerInv
  <1>6. ServedPhase'[c] = "done" /\ \A d \in Conns \ {c} : ServedPhase'[d] = ServedPhase[d]
    <2>1. ServedPhase'[c] = phase'[c]
      BY <1>2, <1>5, ServedIs
    <2>2. ASSUME NEW d \in Conns \ {c} PROVE ServedPhase'[d] = ServedPhase[d]
      <3>1. (\E f \in OpenFds' : owner'[f] = d /\ Announced(f)')
                <=> (\E f \in OpenFds : owner[f] = d /\ Announced(f))
        BY <1>2, <1>4
      <3>2. phase'[d] = phase[d]
        BY <1>1, <1>2 DEF SocketsTypeOK
      <3> QED
        BY <3>1, <3>2, ServedIs
    <2> QED
      BY <1>1, <1>2, <2>1, <2>2 DEF SocketsTypeOK
  <1>7. ServedPhase' = [ServedPhase EXCEPT ![c] = "done"]
    BY <1>6, ServedMoves
  <1>8. cl[c] = "gone" \/ (cl[c] = "shut" /\ Len(echo[c]) = sent[c])
    <2>1. /\ Head(cq) \in Elems(cq) /\ Head(cq).res \in Int
          /\ \A e \in Elems(cq) : e.who = c => e = Head(cq)
      BY <1>1, ReapTakes DEF Cqes
    <2>2. CASE cl[c] # "gone"
      <3>1. /\ conn[c].type = "read" /\ cl[c] = "shut" /\ taken[c] = sent[c]
        BY <1>1, <2>1, <2>2 DEF EchoInv, StreamInv
      <3>2. Held(c) = <<>>
        BY <1>1, <2>1, <3>1 DEF Held
      <3>3. Run(c, echo[c], <<>>, taken[c], sent[c])
        BY <1>1, <1>2, <2>2, <3>2 DEF EchoInv, StreamInv, GoneInv
      <3>4. taken[c] = Len(echo[c]) + Len(<<>>) /\ Len(<<>>) = 0 /\ Len(echo[c]) \in Nat
        BY <1>1, <3>3, ConnParts DEF Run
      <3> QED
        BY <3>1, <3>4
    <2> QED
      BY <2>2
  <1> QED
    BY <1>1, <1>3, <1>7, <1>8 DEF Echoer!Hangup, Echoer!Next, EchoStep

\* What the loop does in between is not seen.
LEMMA GoesOnEchoes ==
    ASSUME Inv, Reap, cq # <<>>, NEW c \in Conns, GoesOn(c)
    PROVE  EchoStep
  <1>1. /\ TypeOK /\ PlaceInv /\ Head(cq).who # NoConn
        /\ UNCHANGED <<listening, cl, sent, echo, owner, phase>>
    BY SocketsAssumption DEF Inv, GoesOn, Reap
  <1>2. ServedPhase' = ServedPhase
    BY <1>1, AnnouncedHead, ServedSame
  <1> QED
    BY <1>1, <1>2, QuietEchoes

\* The clients are EchoService's clients.
LEMMA NetworkEchoes ==
    ASSUME Inv, UringNetwork
    PROVE  EchoStep
  <1>1. PICK c \in Conns :
           \/ Connect(c) \/ ClientSend(c) \/ ClientRecv(c)
           \/ ClientShut(c) \/ ClientClose(c) \/ ResetArrives(c)
    BY DEF UringNetwork
  <1>2. /\ SocketsTypeOK /\ OwnerInv /\ cq' = cq
    BY DEF Inv, TypeOK, UringNetwork
  <1>3. owner' = owner /\ OpenFds' = OpenFds /\ \A f : Announced(f)' <=> Announced(f)
    BY <1>1, <1>2, ClientOwner DEF OpenFds, Announced
  <1>4. \A d \in Conns : /\ phase'[d] = phase[d] => ServedPhase'[d] = ServedPhase[d]
                         /\ phase[d] # "open" => ServedPhase[d] = phase[d]
                         /\ phase[d] # "open" => ServedPhase'[d] = phase'[d]
    BY <1>2, <1>3, ServedIs DEF OwnerInv
  <1>5. CASE Connect(c)
    <2>1. /\ listening /\ phase[c] = "none" /\ phase' = [phase EXCEPT ![c] = "queued"]
          /\ UNCHANGED <<listening, cl, sent, echo>>
      BY <1>5 DEF Connect
    <2>2. ServedPhase[c] = "none" /\ ServedPhase'[c] = "queued"
      BY <1>2, <1>4, <2>1 DEF SocketsTypeOK
    <2>3. \A d \in Conns \ {c} : ServedPhase'[d] = ServedPhase[d]
      BY <1>2, <1>4, <2>1 DEF SocketsTypeOK
    <2>4. ServedPhase' = [ServedPhase EXCEPT ![c] = "queued"]
      BY <2>2, <2>3, ServedMoves
    <2> QED
      BY <2>1, <2>2, <2>4 DEF Echoer!Arrive, Echoer!Next, EchoStep
  <1>6. CASE ~Connect(c)
    <2>1. ServedPhase' = ServedPhase /\ UNCHANGED <<listening, echo>>
      <3>1. UNCHANGED <<listening, phase, echo>>
        BY <1>1, <1>6 DEF ClientSend, ClientRecv, ClientShut, ClientClose, ResetArrives
      <3> QED
        BY <1>3, <3>1, ServedSame
    <2>2. Connected(c) => ServedPhase[c] \in {"queued", "open"}
      BY ServedIs DEF Connected
    <2>3. CASE ClientSend(c)
      <3>1. PICK n \in 1..(MaxBytes - sent[c]) : sent' = [sent EXCEPT ![c] = @ + n]
        BY <2>3 DEF ClientSend
      <3>2. sent'[c] > sent[c] /\ sent' = [sent EXCEPT ![c] = sent'[c]]
        BY <1>2, <3>1 DEF SocketsTypeOK
      <3>3. Connected(c) /\ cl[c] = "up" /\ cl' = cl
        BY <2>3 DEF ClientSend
      <3> QED
        BY <2>1, <2>2, <3>2, <3>3 DEF Echoer!Send, Echoer!Next, EchoStep
    <2>4. CASE ClientRecv(c) \/ ResetArrives(c)
      BY <2>1, <2>4, QuietEchoes DEF ClientRecv, ResetArrives
    <2>5. CASE ClientShut(c) \/ ClientClose(c)
      <3>1. /\ Connected(c) /\ sent' = sent
            /\ \/ cl[c] = "up" /\ cl' = [cl EXCEPT ![c] = "shut"]
               \/ cl[c] # "gone" /\ cl' = [cl EXCEPT ![c] = "gone"]
        BY <2>5 DEF ClientShut, ClientClose, MayLeave
      <3> QED
        BY <2>1, <2>2, <3>1 DEF Echoer!Leave, Echoer!Next, EchoStep
    <2> QED
      BY <1>1, <1>6, <2>3, <2>4, <2>5
  <1> QED
    BY <1>5, <1>6

\* Every step is one of EchoService or not seen there.
LEMMA StepEchoes ==
    ASSUME Inv, Enough, EchoInv, [UringNext]_uringVars
    PROVE  EchoStep
  <1>1. CASE UringWait \/ UringSubmit \/ UNCHANGED uringVars
    <2>1. UNCHANGED <<listening, cl, sent, echo, owner, phase, cq>>
      BY <1>1 DEF UringWait, UringSubmit, uringVars, sockVars
    <2>2. ServedPhase' = ServedPhase
      BY <2>1 DEF ServedPhase, OpenFds, Announced
    <2> QED
      BY <2>1, <2>2, QuietEchoes
  <1>2. CASE KernelAccept
    BY <1>2, KernelAcceptInv, QuietEchoes DEF KernelAccept
  <1> QED
    BY <1>1, <1>2, StepCases, BootEchoes, KillEchoes, NetworkEchoes, KernelEchoes,
       TurnsAwayEchoes, TakesOnEchoes, LetsGoEchoes, GoesOnEchoes

(***************************************************************************)
(* The baseline io_uring server implements EchoService, for clients that   *)
(* half-close or do not, stay or leave at any time: it hangs up only on a  *)
(* client that is gone or fully answered, and what it echoes is the        *)
(* beginning of what was sent.  The answers have to fit the socket, for    *)
(* server_uring.c follows a short write with the next read.                *)
(***************************************************************************)
THEOREM UringImplementsEcho ==
    ASSUME Enough, AnswersFit
    PROVE  UringSpec => ImplementsEcho
  <1>1. UringInit => Inv /\ EchoInv /\ Echoer!Init
    BY InvStarts
  <1>2. Inv /\ EchoInv /\ [UringNext]_uringVars =>
            Inv' /\ EchoInv' /\ [Echoer!Next]_(Echoer!echoVars)
    BY InvKept, EchoInvKept, StepEchoes DEF EchoStep
  <1> QED
    BY <1>1, <1>2, PTL DEF UringSpec, ImplementsEcho, Echoer!Spec
=============================================================================
