--------------------------- MODULE FiguresProofs ---------------------------
(***************************************************************************)
(* Proofs about where the figures of the reports come from: the load       *)
(* generators, the calibration and the search for the crossover.           *)
(*                                                                         *)
(*   RequestsAreOutstanding   Spec => []OneOutstanding                     *)
(*   ErrorsAreExact           Spec => []ErrorsExact                        *)
(*   PercentilesAreOrdered    Spec => []PercentilesOrdered                 *)
(*   ClientsWaitForAnswers    LoadSpec => []ClosedLoop                     *)
(*   TotalsAreExact           LoadSpec => []TotalExact                     *)
(*   ReadersAlwaysAgree       CalSpec => ReadersAgree                      *)
(*   CrossoverIsExact         CrossSpec => []CrossoverExact                *)
(*                                                                         *)
(* for every number of connections, clients, buckets, servers and levels,  *)
(* every size of a request and all measured values.                        *)
(***************************************************************************)
EXTENDS Loadgen, AsyncLoad, Calibration, Crossover, SumTheorems

-----------------------------------------------------------------------------
(* The worker of loadgen.c.                                                *)

WorkerTypes ==
    /\ pc \in {"connect", "loop", "wait", "next", "send", "recv", "report", "done"}
    /\ cur \in 1..(NumConns + 1)
    /\ batch \subseteq C \X {"OUT", "IN", "ERR"}
    /\ fd \in [C -> {"zero", "open", "failed", "left"}]
    /\ state \in [C -> {1, 2}]
    /\ send_offset \in [C -> Nat] /\ recv_offset \in [C -> Nat]
    /\ wrote \in [C -> Nat] /\ echoed \in [C -> Nat] /\ read \in [C -> Nat]
    /\ errors \in Nat /\ mismatches \in Nat

\* The connection in hand is open and where its event says it is.  Whatever
\* is still in the batch is about other connections, all of them open.
HandInv ==
    /\ pc \in {"send", "recv"} =>
          /\ cur \in C
          /\ fd[cur] = "open"
          /\ state[cur] = IF pc = "send" THEN 1 ELSE 2
    /\ \A e \in batch : fd[e[1]] = "open" /\ (pc \in {"send", "recv"} => e[1] # cur)
    /\ \A e, d \in batch : e[1] = d[1] => e = d
    /\ pc \notin {"next", "send", "recv"} => batch = {}

\* calloc() leaves a descriptor zero until it is opened; nothing is closed
\* for good before the report.
FdsInv ==
    /\ pc = "connect" => \A c \in C : c >= cur => fd[c] = "zero"
    /\ pc # "done" => \A c \in C : fd[c] # "left"

\* What is outstanding on a connection, and the offsets of its request.
Outstanding(c) == IF state[c] = 2 THEN PAYLOAD_LEN - recv_offset[c] ELSE send_offset[c]

RequestOf(c) ==
    /\ state[c] = 1 => recv_offset[c] = 0 /\ send_offset[c] < PAYLOAD_LEN
    /\ state[c] = 2 => send_offset[c] = 0 /\ recv_offset[c] <= PAYLOAD_LEN
    /\ fd[c] \in {"zero", "open"} => wrote[c] - read[c] = Outstanding(c)
RequestInv == \A c \in C : RequestOf(c)

Tried == IF pc = "connect" THEN {c \in C : c < cur} ELSE C
Lost == {c \in Tried : fd[c] \in {"failed", "zero"}}

WorkerInv == WorkerTypes /\ HandInv /\ FdsInv /\ RequestInv

-----------------------------------------------------------------------------
\* The worker is not told of a connection that is not open, and of none twice.
LEMMA ReadyOnce ==
    /\ Ready \subseteq C \X {"OUT", "IN", "ERR"}
    /\ \A e \in Ready : fd[e[1]] = "open"
    /\ \A e, d \in Ready : e[1] = d[1] => e = d
  <1>1. \A e \in Ready : /\ e \in C \X {"OUT", "IN", "ERR"}
                         /\ e[2] \in Revents(e[1])
    BY DEF Ready, Revents
  <1>2. \A e \in Ready : fd[e[1]] = "open"
    BY <1>1 DEF Revents
  <1>3. \A c \in C : \A r, q \in Revents(c) : r = q
    BY DEF Revents
  <1>4. \A e, d \in Ready : e[1] = d[1] => e = d
    <2> SUFFICES ASSUME NEW e \in Ready, NEW d \in Ready, e[1] = d[1] PROVE e = d
      OBVIOUS
    <2>1. e = <<e[1], e[2]>> /\ d = <<d[1], d[2]>> /\ e[1] \in C
      BY <1>1
    <2>2. e[2] = d[2]
      BY <1>1, <1>3, <2>1
    <2> QED
      BY <2>1, <2>2
  <1> QED
    BY <1>1, <1>2, <1>4

\* Initially nothing is open and nothing is outstanding.
LEMMA WorkerStart == Init => WorkerInv /\ errors = Cardinality(Lost) + mismatches
  <1> SUFFICES ASSUME Init PROVE WorkerInv /\ errors = Cardinality(Lost) + mismatches
    OBVIOUS
  <1> USE LoadgenAssumption
  <1>1. WorkerTypes
    BY DEF Init, WorkerTypes
  <1>2. HandInv /\ FdsInv
    BY DEF Init, HandInv, FdsInv
  <1>3. RequestInv
    BY DEF Init, RequestInv, RequestOf, Outstanding
  <1>4. Lost = {}
    BY DEF Init, Lost, Tried, C
  <1>5. errors = Cardinality(Lost) + mismatches
    BY <1>4, FS_EmptySet DEF Init
  <1> QED
    BY <1>1, <1>2, <1>3, <1>5 DEF WorkerInv

\* The counters change one connection at a time, by natural numbers.
Counters == <<state, send_offset, recv_offset, wrote, echoed, read>>

CounterTypes ==
    /\ state \in [C -> {1, 2}]
    /\ send_offset \in [C -> Nat] /\ recv_offset \in [C -> Nat]
    /\ wrote \in [C -> Nat] /\ echoed \in [C -> Nat] /\ read \in [C -> Nat]

\* No step leaves the types of the per-connection counters.
LEMMA CountersStep ==
    ASSUME CounterTypes, HandInv, [Next]_vars
    PROVE  CounterTypes'
  <1> USE LoadgenAssumption DEF CounterTypes
  <1>1. CASE UNCHANGED Counters
    BY <1>1 DEF Counters
  <1>2. CASE SendSome
    <2>1. cur \in C /\ send_offset[cur] \in Nat
      BY <1>2 DEF SendSome, HandInv
    <2>2. PICK n \in 1..(PAYLOAD_LEN - send_offset[cur]) :
             /\ wrote' = [wrote EXCEPT ![cur] = @ + n]
             /\ \/ /\ state' = [state EXCEPT ![cur] = 2]
                   /\ send_offset' = [send_offset EXCEPT ![cur] = 0]
                   /\ recv_offset' = [recv_offset EXCEPT ![cur] = 0]
                \/ /\ send_offset' = [send_offset EXCEPT ![cur] = @ + n]
                   /\ UNCHANGED <<state, recv_offset>>
      BY <1>2 DEF SendSome
    <2>3. n \in Nat
      BY <2>1, <2>2
    <2>4. UNCHANGED <<echoed, read>>
      BY <1>2 DEF SendSome
    <2> QED
      BY <2>1, <2>2, <2>3, <2>4
  <1>3. CASE RecvSome
    <2>1. cur \in C /\ Pending(cur) > 0 /\ recv_offset[cur] < PAYLOAD_LEN
      BY <1>3 DEF RecvSome, HandInv
    <2>2. PICK n : /\ n = IF PAYLOAD_LEN - recv_offset[cur] <= Pending(cur)
                          THEN PAYLOAD_LEN - recv_offset[cur] ELSE Pending(cur)
                   /\ read' = [read EXCEPT ![cur] = @ + n]
                   /\ recv_offset' = [recv_offset EXCEPT ![cur] = @ + n]
      BY <1>3 DEF RecvSome
    <2>3. n \in Nat
      <3>1. Pending(cur) \in Int /\ recv_offset[cur] \in Nat
        BY <2>1 DEF Pending
      <3> QED
        BY <2>1, <2>2, <3>1
    <2>4. UNCHANGED <<state, send_offset, wrote, echoed>>
      BY <1>3 DEF RecvSome
    <2> QED
      BY <2>1, <2>2, <2>3, <2>4
  <1>4. CASE Complete
    <2>1. cur \in C
      BY <1>4 DEF Complete, HandInv
    <2>2. PICK n \in Nat :
             /\ state' = state \/ state' = [state EXCEPT ![cur] = 1]
             /\ send_offset' = send_offset \/ send_offset' = [send_offset EXCEPT ![cur] = n]
             /\ wrote' = wrote \/ wrote' = [wrote EXCEPT ![cur] = @ + n]
      <3>1. CASE peer[cur] = "reset"
        BY <1>4, <3>1 DEF Complete
      <3>2. CASE UNCHANGED <<fd, state, send_offset, interest>>
        BY <1>4, <3>2 DEF Complete
      <3>3. CASE peer[cur] # "reset" /\ ~UNCHANGED <<fd, state, send_offset, interest>>
        BY <1>4, <3>3 DEF Complete
      <3> QED
        BY <3>1, <3>2, <3>3
    <2>3. recv_offset' = [recv_offset EXCEPT ![cur] = 0] /\ UNCHANGED <<echoed, read>>
      BY <1>4 DEF Complete
    <2> QED
      BY <2>1, <2>2, <2>3
  <1>5. ASSUME NEW c \in C, EchoByte(c) PROVE CounterTypes'
    <2>1. echoed' = [echoed EXCEPT ![c] = @ + 1]
      BY <1>5 DEF EchoByte
    <2>2. UNCHANGED <<state, send_offset, recv_offset, wrote, read>>
      BY <1>5 DEF EchoByte, connVars
    <2> QED
      BY <2>1, <2>2
  <1>6. ASSUME NEW c \in C, PeerLeaves(c) PROVE UNCHANGED Counters
    BY <1>6 DEF PeerLeaves, Counters, connVars
  <1>7. ConnectOne \/ AllConnected \/ LoopTest \/ EpollWait \/ Dispatch \/ EndBatch
        \/ SendStops \/ RecvStops \/ Report \/ Tick \/ Signal \/ UNCHANGED vars
        => UNCHANGED Counters
    BY DEF ConnectOne, AllConnected, LoopTest, EpollWait, Dispatch, EndBatch, SendStops,
           RecvStops, Report, Tick, Signal, vars, connVars, netVars, Counters
  <1> QED
    BY <1>1, <1>2, <1>3, <1>4, <1>5, <1>6, <1>7 DEF Next, Worker

\* Every failure is counted.
FdTypes ==
    /\ fd \in [C -> {"zero", "open", "failed", "left"}]
    /\ errors \in Nat /\ mismatches \in Nat

\* No step leaves the types of the descriptors and of the counts of failures.
LEMMA FdsStep ==
    ASSUME FdTypes, WorkerTypes, HandInv, [Next]_vars
    PROVE  FdTypes'
  <1> USE DEF FdTypes
  <1>1. CASE UNCHANGED <<fd, errors, mismatches>>
    BY <1>1
  <1>2. CASE ConnectOne
    BY <1>2 DEF ConnectOne
  <1>3. ASSUME NEW c \in C, Fail(c), UNCHANGED mismatches PROVE FdTypes'
    BY <1>3 DEF Fail
  <1>4. CASE Dispatch
    <2>1. PICK e \in batch :
             IF e[2] = "ERR" THEN Fail(e[1]) ELSE UNCHANGED <<fd, errors>>
      BY <1>4 DEF Dispatch
    <2>2. e[1] \in C
      BY DEF WorkerTypes
    <2>3. UNCHANGED mismatches
      BY <1>4 DEF Dispatch
    <2> QED
      BY <1>1, <1>3, <2>1, <2>2, <2>3
  <1>5. CASE SendStops \/ RecvStops
    <2>1. cur \in C
      BY <1>5 DEF SendStops, RecvStops, HandInv
    <2>2. UNCHANGED mismatches /\ (Fail(cur) \/ UNCHANGED <<fd, errors>>)
      BY <1>5 DEF SendStops, RecvStops
    <2> QED
      BY <1>1, <1>3, <2>1, <2>2
  <1>6. CASE Complete
    <2>1. PICK bad \in {0, 1} : mismatches' = mismatches + bad
      <3>1. mismatches \in Nat /\ (mismatches' = mismatches \/ mismatches' = mismatches + 1)
        BY <1>6 DEF Complete, Verify
      <3> QED
        BY <3>1
    <2>2. mismatches \in Nat /\ errors \in Nat /\ mismatches' - mismatches = bad
      BY <2>1
    <2>3. /\ errors' = errors + bad \/ errors' = errors + bad + 1
          /\ fd' = fd \/ fd' = [fd EXCEPT ![cur] = "failed"]
      BY <1>6, <2>2 DEF Complete
    <2>4. errors' \in Nat /\ mismatches' \in Nat
      BY <2>1, <2>2, <2>3
    <2> QED
      BY <2>3, <2>4
  <1>7. CASE Report
    BY <1>7 DEF Report, statVars
  <1>8. ASSUME NEW c \in C, EchoByte(c) \/ PeerLeaves(c)
        PROVE  UNCHANGED <<fd, errors, mismatches>>
    BY <1>8 DEF EchoByte, PeerLeaves, connVars, statVars
  <1>9. AllConnected \/ LoopTest \/ EpollWait \/ EndBatch \/ SendSome \/ RecvSome
        \/ Tick \/ Signal \/ UNCHANGED vars
        => UNCHANGED <<fd, errors, mismatches>>
    BY DEF AllConnected, LoopTest, EpollWait, EndBatch, SendSome, RecvSome, Tick, Signal,
           vars, connVars, statVars
  <1> QED
    BY <1>1, <1>2, <1>4, <1>5, <1>6, <1>7, <1>8, <1>9 DEF Next, Worker

\* Types of the worker.
LEMMA TypesStep ==
    ASSUME WorkerTypes, HandInv, [Next]_vars
    PROVE  WorkerTypes'
  <1> USE LoadgenAssumption
  <1>1. CounterTypes' /\ FdTypes'
    BY CountersStep, FdsStep DEF WorkerTypes, CounterTypes, FdTypes
  <1>2. /\ pc' \in {"connect", "loop", "wait", "next", "send", "recv", "report", "done"}
        /\ cur' \in 1..(NumConns + 1)
        /\ batch' \subseteq C \X {"OUT", "IN", "ERR"}
    <2>0. CASE ConnectOne
      BY <2>0 DEF ConnectOne, WorkerTypes, C
    <2>1. CASE AllConnected \/ LoopTest \/ EndBatch
      BY <2>1 DEF AllConnected, LoopTest, EndBatch, WorkerTypes
    <2>2. CASE EpollWait
      BY <2>2, ReadyOnce DEF EpollWait, WorkerTypes
    <2>3. CASE Dispatch
      <3>1. PICK e \in batch : /\ batch' = batch \ {e} /\ cur' = e[1]
                               /\ pc' \in {"send", "recv", "next"}
        BY <2>3 DEF Dispatch
      <3>2. e[1] \in 1..NumConns
        BY DEF WorkerTypes, C
      <3> QED
        BY <3>1, <3>2 DEF WorkerTypes
    <2>4. CASE SendSome \/ SendStops \/ RecvSome \/ RecvStops \/ Complete \/ Report
      BY <2>4 DEF SendSome, SendStops, RecvSome, RecvStops, Complete, Report, ctlVars,
                  WorkerTypes
    <2>5. CASE Tick \/ Signal \/ UNCHANGED vars
      BY <2>5 DEF Tick, Signal, vars, ctlVars, WorkerTypes
    <2>6. ASSUME NEW c \in C, EchoByte(c) \/ PeerLeaves(c)
          PROVE  UNCHANGED <<pc, cur, batch>>
      BY <2>6 DEF EchoByte, PeerLeaves, ctlVars
    <2> QED
      BY <2>0, <2>1, <2>2, <2>3, <2>4, <2>5, <2>6 DEF Next, Worker, WorkerTypes
  <1> QED
    BY <1>1, <1>2 DEF WorkerTypes, CounterTypes, FdTypes

\* The batch is about open connections only, and never about the one in hand.
LEMMA HandStep ==
    ASSUME WorkerTypes, HandInv, [Next]_vars
    PROVE  HandInv'
  <1>1. CASE UNCHANGED <<pc, cur, batch, fd, state>>
    BY <1>1 DEF HandInv
  <1>2. CASE ConnectOne \/ AllConnected \/ LoopTest \/ EndBatch \/ Report
    BY <1>2 DEF ConnectOne, AllConnected, LoopTest, EndBatch, Report, HandInv
  <1>3. CASE EpollWait
    <2>1. batch' \subseteq Ready /\ pc' = "next" /\ UNCHANGED <<fd, state, cur>>
      BY <1>3 DEF EpollWait, connVars
    <2> QED
      BY <2>1, ReadyOnce DEF HandInv
  <1>4. CASE Dispatch
    <2>1. PICK e \in batch :
             /\ batch' = batch \ {e} /\ cur' = e[1]
             /\ IF e[2] = "ERR" THEN Fail(e[1]) ELSE UNCHANGED fd
             /\ pc' \in {"send", "recv"} => e[2] # "ERR"
             /\ pc' = "send" => state[e[1]] = 1
             /\ pc' = "recv" => state[e[1]] = 2
             /\ pc' \in {"send", "recv", "next"}
      BY <1>4 DEF Dispatch
    <2>2. state' = state /\ e[1] \in C /\ fd[e[1]] = "open"
      BY <1>4 DEF Dispatch, HandInv, WorkerTypes
    <2>3. \A d \in batch' : d \in batch /\ d[1] # e[1]
      BY <2>1 DEF HandInv
    <2>4. \A d \in batch' : fd'[d[1]] = "open" /\ d[1] # cur'
      BY <2>1, <2>2, <2>3 DEF HandInv, Fail, WorkerTypes
    <2>5. pc' \in {"send", "recv"} => fd'[cur'] = "open"
      BY <2>1, <2>2
    <2> QED
      BY <2>1, <2>2, <2>3, <2>4, <2>5 DEF HandInv
  <1>5. CASE SendSome
    <2>1. /\ pc = "send" /\ cur \in C /\ UNCHANGED <<cur, batch, fd>>
          /\ pc' = "next" \/ UNCHANGED <<pc, state>>
      BY <1>5 DEF SendSome, HandInv
    <2> QED
      BY <2>1 DEF HandInv
  <1>6. CASE SendStops \/ RecvStops \/ Complete
    <2>1. /\ pc \in {"send", "recv"} /\ pc' = "next" /\ UNCHANGED <<cur, batch>>
          /\ fd' = fd \/ fd' = [fd EXCEPT ![cur] = "failed"]
      BY <1>6 DEF SendStops, RecvStops, Complete, Fail
    <2>2. \A e \in batch : fd'[e[1]] = "open"
      BY <2>1 DEF HandInv, WorkerTypes
    <2> QED
      BY <2>1, <2>2 DEF HandInv
  <1>7. CASE Signal
    BY <1>7 DEF Signal, HandInv, connVars
  <1>8. ASSUME NEW c \in C, EchoByte(c) \/ PeerLeaves(c)
        PROVE  UNCHANGED <<pc, cur, batch, fd, state>>
    BY <1>8 DEF EchoByte, PeerLeaves, ctlVars, connVars
  <1>9. RecvSome \/ Tick \/ UNCHANGED vars => UNCHANGED <<pc, cur, batch, fd, state>>
    BY DEF RecvSome, Tick, vars, ctlVars, connVars
  <1> QED
    BY <1>1, <1>2, <1>3, <1>4, <1>5, <1>6, <1>7, <1>8, <1>9 DEF Next, Worker

\* Descriptors before they are opened and until the report.
LEMMA FdsInvStep ==
    ASSUME WorkerTypes, HandInv, FdsInv, [Next]_vars
    PROVE  FdsInv'
  <1>1. CASE UNCHANGED <<pc, cur, fd>>
    BY <1>1 DEF FdsInv
  <1>2. CASE ConnectOne
    <2>1. /\ pc' = "connect" /\ cur' = cur + 1 /\ cur \in Nat
          /\ \E r \in {"open", "zero", "failed"} : fd' = [fd EXCEPT ![cur] = r]
      BY <1>2 DEF ConnectOne, WorkerTypes
    <2>2. \A c \in C : c \in Int /\ (c >= cur + 1 => c # cur /\ c >= cur)
      BY <2>1 DEF C
    <2>3. \A c \in C : fd'[c] # "left" /\ (c >= cur' => fd'[c] = "zero")
      BY <1>2, <2>1, <2>2 DEF FdsInv, WorkerTypes, ConnectOne
    <2> QED
      BY <2>3 DEF FdsInv
  <1>3. CASE /\ pc # "done" /\ pc' # "connect"
             /\ fd' = fd \/ \E c \in C : fd' = [fd EXCEPT ![c] = "failed"]
    BY <1>3 DEF FdsInv, WorkerTypes
  <1>4. CASE Dispatch
    <2>1. PICK e \in batch :
             /\ IF e[2] = "ERR" THEN Fail(e[1]) ELSE UNCHANGED fd
             /\ pc' # "connect"
      BY <1>4 DEF Dispatch
    <2>2. e[1] \in C /\ pc = "next"
      BY <1>4 DEF WorkerTypes, Dispatch
    <2> QED
      BY <1>3, <2>1, <2>2 DEF Fail
  <1>5. CASE SendStops \/ RecvStops \/ Complete
    <2>1. /\ pc \in {"send", "recv"} /\ pc' = "next"
          /\ fd' = fd \/ fd' = [fd EXCEPT ![cur] = "failed"]
      BY <1>5 DEF SendStops, RecvStops, Complete, Fail
    <2> QED
      BY <1>3, <2>1 DEF HandInv
  <1>6. CASE AllConnected \/ LoopTest \/ EpollWait \/ EndBatch \/ SendSome
    <2>1. pc # "done" /\ pc' # "connect" /\ fd' = fd
      BY <1>6 DEF AllConnected, LoopTest, EpollWait, EndBatch, SendSome, connVars
    <2> QED
      BY <1>3, <2>1
  <1>7. CASE Report
    BY <1>7 DEF Report, FdsInv
  <1>8. CASE Signal
    <2>1. UNCHANGED <<cur, fd>> /\ (pc' = pc \/ (pc = "wait" /\ pc' = "loop"))
      BY <1>8 DEF Signal, connVars
    <2> QED
      BY <1>1, <1>3, <2>1
  <1>9. ASSUME NEW c \in C, EchoByte(c) \/ PeerLeaves(c) PROVE UNCHANGED <<pc, cur, fd>>
    BY <1>9 DEF EchoByte, PeerLeaves, ctlVars, connVars
  <1>10. RecvSome \/ Tick \/ UNCHANGED vars => UNCHANGED <<pc, cur, fd>>
    BY DEF RecvSome, Tick, vars, ctlVars, connVars
  <1> QED
    BY <1>1, <1>2, <1>4, <1>5, <1>6, <1>7, <1>8, <1>9, <1>10 DEF Next, Worker

\* A step keeps the account of each connection it leaves alone.
LEMMA RequestKept ==
    ASSUME NEW c \in C, RequestOf(c), state'[c] = state[c],
           send_offset'[c] = send_offset[c], recv_offset'[c] = recv_offset[c],
           wrote'[c] = wrote[c], read'[c] = read[c],
           fd'[c] = fd[c] \/ fd'[c] \notin {"zero", "open"} \/ fd[c] \in {"zero", "open"}
    PROVE  RequestOf(c)'
  BY DEF RequestOf, Outstanding

\* One request at a time, from its first byte to the last of its answer.
LEMMA RequestStep ==
    ASSUME WorkerTypes, HandInv, FdsInv, RequestInv, [Next]_vars
    PROVE  RequestInv'
  <1> USE LoadgenAssumption
  <1> SUFFICES ASSUME NEW c \in C PROVE RequestOf(c)'
    BY DEF RequestInv
  <1>1. /\ RequestOf(c) /\ state[c] \in {1, 2} /\ send_offset[c] \in Nat /\ recv_offset[c] \in Nat
        /\ wrote[c] \in Nat /\ read[c] \in Nat
    BY DEF RequestInv, WorkerTypes
  <1>2. CASE /\ UNCHANGED <<state, send_offset, recv_offset, wrote, read>>
             /\ fd'[c] = fd[c] \/ fd'[c] \notin {"zero", "open"} \/ fd[c] \in {"zero", "open"}
    BY <1>1, <1>2, RequestKept
  <1>3. CASE SendSome
    <2>1. cur \in C /\ fd[cur] = "open" /\ state[cur] = 1 /\ fd' = fd /\ read' = read
      BY <1>3 DEF SendSome, HandInv
    <2>2. PICK n \in 1..(PAYLOAD_LEN - send_offset[cur]) :
             /\ wrote' = [wrote EXCEPT ![cur] = @ + n]
             /\ IF n = PAYLOAD_LEN - send_offset[cur]
                  THEN /\ state' = [state EXCEPT ![cur] = 2]
                       /\ send_offset' = [send_offset EXCEPT ![cur] = 0]
                       /\ recv_offset' = [recv_offset EXCEPT ![cur] = 0]
                  ELSE /\ send_offset' = [send_offset EXCEPT ![cur] = @ + n]
                       /\ UNCHANGED <<state, recv_offset>>
      BY <1>3 DEF SendSome
    <2>3. CASE c # cur
      BY <1>1, <2>1, <2>2, <2>3, RequestKept DEF WorkerTypes
    <2>4. CASE c = cur
      <3>1. /\ wrote'[c] = wrote[c] + n
            /\ IF n = PAYLOAD_LEN - send_offset[c]
                 THEN state'[c] = 2 /\ send_offset'[c] = 0 /\ recv_offset'[c] = 0
                 ELSE /\ send_offset'[c] = send_offset[c] + n
                      /\ state'[c] = 1 /\ recv_offset'[c] = recv_offset[c]
        BY <2>1, <2>2, <2>4 DEF WorkerTypes
      <3>2. /\ send_offset[c] < PAYLOAD_LEN /\ recv_offset[c] = 0
            /\ wrote[c] - read[c] = send_offset[c] /\ read'[c] = read[c]
        BY <1>1, <2>1, <2>4 DEF RequestOf, Outstanding
      <3>3. n \in Nat /\ n >= 1 /\ n <= PAYLOAD_LEN - send_offset[c]
        BY <1>1, <2>2, <2>4
      <3>4. CASE n = PAYLOAD_LEN - send_offset[c]
        BY <1>1, <3>1, <3>2, <3>3, <3>4 DEF RequestOf, Outstanding
      <3>5. CASE n # PAYLOAD_LEN - send_offset[c]
        BY <1>1, <3>1, <3>2, <3>3, <3>5 DEF RequestOf, Outstanding
      <3> QED
        BY <3>4, <3>5
    <2> QED
      BY <2>3, <2>4
  <1>4. CASE RecvSome
    <2>1. /\ cur \in C /\ state[cur] = 2 /\ Pending(cur) > 0
          /\ UNCHANGED <<fd, state, send_offset, wrote>>
      BY <1>4 DEF RecvSome, HandInv
    <2>2. PICK n : /\ n = IF PAYLOAD_LEN - recv_offset[cur] <= Pending(cur)
                          THEN PAYLOAD_LEN - recv_offset[cur] ELSE Pending(cur)
                   /\ read' = [read EXCEPT ![cur] = @ + n]
                   /\ recv_offset' = [recv_offset EXCEPT ![cur] = @ + n]
      BY <1>4 DEF RecvSome
    <2>3. CASE c # cur
      BY <1>1, <2>1, <2>2, <2>3, RequestKept DEF WorkerTypes
    <2>4. CASE c = cur
      <3>1. read'[c] = read[c] + n /\ recv_offset'[c] = recv_offset[c] + n
        BY <2>1, <2>2, <2>4 DEF WorkerTypes
      <3>2. Pending(c) \in Int
        BY <1>1 DEF Pending, WorkerTypes
      <3>3. n \in Int /\ n <= PAYLOAD_LEN - recv_offset[c]
        BY <1>1, <2>2, <2>4, <3>2
      <3> QED
        BY <1>1, <2>1, <2>4, <3>1, <3>3 DEF RequestOf, Outstanding
    <2> QED
      BY <2>3, <2>4
  <1>5. CASE Complete
    <2>1. cur \in C /\ fd[cur] = "open" /\ state[cur] = 2 /\ recv_offset[cur] = PAYLOAD_LEN
      BY <1>5 DEF Complete, HandInv
    <2>2. recv_offset' = [recv_offset EXCEPT ![cur] = 0] /\ read' = read
      BY <1>5 DEF Complete
    <2>3. \/ /\ fd' = [fd EXCEPT ![cur] = "failed"]
             /\ state' = [state EXCEPT ![cur] = 1]
             /\ UNCHANGED <<wrote, send_offset>>
          \/ /\ wrote' = [wrote EXCEPT ![cur] = @ + PAYLOAD_LEN]
             /\ UNCHANGED <<fd, state, send_offset>>
          \/ /\ \E n \in 0..(PAYLOAD_LEN - 1) :
                   /\ wrote' = [wrote EXCEPT ![cur] = @ + n]
                   /\ send_offset' = [send_offset EXCEPT ![cur] = n]
             /\ state' = [state EXCEPT ![cur] = 1]
             /\ UNCHANGED fd
      BY <1>5 DEF Complete
    <2>4. CASE c # cur
      BY <1>1, <2>1, <2>2, <2>3, <2>4, RequestKept DEF WorkerTypes
    <2>5. CASE c = cur
      <3>1. wrote[c] = read[c] /\ send_offset[c] = 0 /\ recv_offset'[c] = 0 /\ read'[c] = read[c]
        BY <1>1, <2>1, <2>2, <2>5 DEF RequestOf, Outstanding, WorkerTypes
      <3>2. \/ fd'[c] = "failed" /\ state'[c] = 1 /\ send_offset'[c] = 0
            \/ wrote'[c] = wrote[c] + PAYLOAD_LEN /\ state'[c] = 2 /\ send_offset'[c] = 0
            \/ \E n \in 0..(PAYLOAD_LEN - 1) :
                  wrote'[c] = wrote[c] + n /\ send_offset'[c] = n /\ state'[c] = 1
        BY <2>1, <2>3, <2>5, <3>1 DEF WorkerTypes
      <3> QED
        BY <1>1, <3>1, <3>2 DEF RequestOf, Outstanding
    <2> QED
      BY <2>4, <2>5
  <1>6. CASE ConnectOne
    <2>1. /\ cur \in C /\ pc = "connect"
          /\ UNCHANGED <<state, send_offset, recv_offset, wrote, read>>
          /\ \E r \in {"open", "zero", "failed"} : fd' = [fd EXCEPT ![cur] = r]
      BY <1>6 DEF ConnectOne, netVars
    <2>2. fd[cur] = "zero"
      BY <2>1 DEF FdsInv, C
    <2> QED
      BY <1>2, <2>1, <2>2 DEF WorkerTypes
  <1>7. CASE Dispatch \/ SendStops \/ RecvStops
    <2>1. /\ UNCHANGED <<state, send_offset, recv_offset, wrote, read>>
          /\ fd' = fd \/ \E d \in C : fd' = [fd EXCEPT ![d] = "failed"]
      <3>1. CASE Dispatch
        <4>1. PICK e \in batch : IF e[2] = "ERR" THEN Fail(e[1]) ELSE UNCHANGED <<fd, errors>>
          BY <3>1 DEF Dispatch
        <4>2. e[1] \in C
          BY DEF WorkerTypes
        <4> QED
          BY <3>1, <4>1, <4>2 DEF Dispatch, Fail, netVars
      <3>2. CASE SendStops \/ RecvStops
        BY <3>2 DEF SendStops, RecvStops, Fail, HandInv, netVars
      <3> QED
        BY <1>7, <3>1, <3>2
    <2> QED
      BY <1>2, <2>1 DEF WorkerTypes
  <1>8. CASE Report
    <2>1. /\ UNCHANGED <<state, send_offset, recv_offset, wrote, read>>
          /\ fd'[c] \in {"failed", "left"}
      BY <1>8 DEF Report, netVars
    <2> QED
      BY <1>2, <2>1
  <1>9. ASSUME NEW d \in C, EchoByte(d) \/ PeerLeaves(d)
        PROVE  UNCHANGED <<state, send_offset, recv_offset, wrote, read, fd>>
    BY <1>9 DEF EchoByte, PeerLeaves, connVars
  <1>10. AllConnected \/ LoopTest \/ EpollWait \/ EndBatch \/ Tick \/ Signal \/ UNCHANGED vars
         => UNCHANGED <<state, send_offset, recv_offset, wrote, read, fd>>
    BY DEF AllConnected, LoopTest, EpollWait, EndBatch, Tick, Signal, vars, connVars, netVars
  <1> QED
    BY <1>2, <1>3, <1>4, <1>5, <1>6, <1>7, <1>8, <1>9, <1>10 DEF Next, Worker

\* Only finitely many connections can be lost.
LEMMA LostFinite == IsFiniteSet(Lost) /\ Cardinality(Lost) \in Nat
  <1>1. IsFiniteSet(C)
    BY FS_Interval, LoadgenAssumption DEF C
  <1>2. Lost \subseteq C
    BY DEF Lost, Tried
  <1> QED
    BY <1>1, <1>2, FS_Subset, FS_CardinalityType

\* A connection that fails is one more that is lost.
LEMMA OneMoreLost ==
    ASSUME NEW c \in C, c \notin Lost, Lost' = Lost \cup {c}
    PROVE  Cardinality(Lost') = Cardinality(Lost) + 1
  BY LostFinite, FS_AddElement

\* Each step that loses a connection or sees a wrong answer counts it.
LEMMA ErrorsStep ==
    ASSUME WorkerTypes, HandInv, FdsInv, ErrorsExact, [Next]_vars
    PROVE  ErrorsExact'
  <1> USE LoadgenAssumption
  <1>1. pc # "done" => /\ errors = Cardinality(Lost) + mismatches
                       /\ errors \in Nat /\ mismatches \in Nat /\ Cardinality(Lost) \in Nat
    BY LostFinite DEF ErrorsExact, Lost, Tried, WorkerTypes
  <1> SUFFICES pc' # "done" => errors' = Cardinality(Lost') + mismatches'
    BY DEF ErrorsExact, Lost, Tried
  <1>2. CASE /\ UNCHANGED <<fd, errors, mismatches>>
             /\ pc' # "done" => pc # "done" /\ Tried' = Tried
    BY <1>1, <1>2 DEF Lost
  <1>3. CASE ConnectOne
    <2>1. pc = "connect" /\ pc' = "connect" /\ cur \in C /\ cur' = cur + 1
          /\ mismatches' = mismatches
      BY <1>3 DEF ConnectOne
    <2>2. Tried' = Tried \cup {cur} /\ cur \notin Tried
      BY <2>1 DEF Tried, C
    <2>3. CASE fd' = [fd EXCEPT ![cur] = "open"] /\ errors' = errors
      <3>1. Lost' = Lost
        BY <2>1, <2>2, <2>3 DEF Lost, Tried, WorkerTypes
      <3> QED
        BY <1>1, <2>1, <2>3, <3>1
    <2>4. CASE (\E r \in {"zero", "failed"} : fd' = [fd EXCEPT ![cur] = r]) /\ errors' = errors + 1
      <3>1. Lost' = Lost \cup {cur} /\ cur \notin Lost
        BY <2>1, <2>2, <2>4 DEF Lost, Tried, WorkerTypes
      <3>2. Cardinality(Lost') = Cardinality(Lost) + 1
        BY <2>1, <3>1, OneMoreLost
      <3> QED
        BY <1>1, <2>1, <2>4, <3>2
    <2> QED
      BY <1>3, <2>3, <2>4 DEF ConnectOne
  <1>4. ASSUME NEW c \in C, NEW bad \in {0, 1}, pc \in {"next", "send", "recv"},
               pc' \in {"next", "send", "recv"}, fd[c] = "open",
               fd' = [fd EXCEPT ![c] = "failed"],
               errors' = errors + bad + 1, mismatches' = mismatches + bad
        PROVE  errors' = Cardinality(Lost') + mismatches'
    <2>1. Lost' = Lost \cup {c} /\ c \notin Lost
      BY <1>4 DEF Lost, Tried, WorkerTypes
    <2>2. Cardinality(Lost') = Cardinality(Lost) + 1
      BY <1>4, <2>1, OneMoreLost
    <2> QED
      BY <1>1, <1>4, <2>2
  <1>5. CASE Dispatch
    <2>1. PICK e \in batch :
             /\ IF e[2] = "ERR" THEN Fail(e[1]) ELSE UNCHANGED <<fd, errors>>
             /\ pc' \in {"send", "recv", "next"}
      BY <1>5 DEF Dispatch
    <2>2. e[1] \in C /\ fd[e[1]] = "open" /\ pc = "next" /\ mismatches' = mismatches
      BY <1>5 DEF Dispatch, WorkerTypes, HandInv
    <2>3. CASE e[2] = "ERR"
      <3>1. /\ fd' = [fd EXCEPT ![e[1]] = "failed"]
            /\ errors' = errors + 0 + 1 /\ mismatches' = mismatches + 0
        BY <1>1, <2>1, <2>2, <2>3 DEF Fail
      <3> QED
        BY <1>4, <2>1, <2>2, <3>1
    <2>4. CASE e[2] # "ERR"
      BY <1>2, <2>1, <2>2, <2>4 DEF Tried
    <2> QED
      BY <2>3, <2>4
  <1>6. CASE SendStops \/ RecvStops
    <2>1. /\ pc \in {"send", "recv"} /\ pc' = "next" /\ mismatches' = mismatches
          /\ Fail(cur) \/ UNCHANGED <<fd, errors>>
      BY <1>6 DEF SendStops, RecvStops
    <2>2. cur \in C /\ fd[cur] = "open"
      BY <2>1 DEF HandInv
    <2>3. CASE Fail(cur)
      <3>1. /\ fd' = [fd EXCEPT ![cur] = "failed"]
            /\ errors' = errors + 0 + 1 /\ mismatches' = mismatches + 0
        BY <1>1, <2>1, <2>3 DEF Fail
      <3> QED
        BY <1>4, <2>1, <2>2, <3>1
    <2> QED
      BY <1>2, <2>1, <2>3 DEF Tried
  <1>7. CASE Complete
    <2>1. pc = "recv" /\ pc' = "next" /\ cur \in C /\ fd[cur] = "open"
      BY <1>7 DEF Complete, HandInv
    <2>2. PICK bad \in {0, 1} : mismatches' = mismatches + bad
      <3>1. mismatches' = mismatches \/ mismatches' = mismatches + 1
        BY <1>7 DEF Complete, Verify
      <3> QED
        BY <1>1, <2>1, <3>1
    <2>3. mismatches' - mismatches = bad
      BY <1>1, <2>1, <2>2
    <2>4. \/ fd' = [fd EXCEPT ![cur] = "failed"] /\ errors' = errors + bad + 1
          \/ fd' = fd /\ errors' = errors + bad
      BY <1>7, <2>3 DEF Complete
    <2>5. CASE fd' = fd /\ errors' = errors + bad
      <3>1. Lost' = Lost
        BY <2>1, <2>5 DEF Lost, Tried
      <3> QED
        BY <1>1, <2>1, <2>2, <2>5, <3>1
    <2> QED
      BY <1>4, <2>1, <2>2, <2>4, <2>5
  <1>8. CASE AllConnected
    <2>1. cur = NumConns + 1 /\ pc = "connect" /\ pc' = "loop"
      BY <1>8 DEF AllConnected, WorkerTypes, C
    <2>2. Tried' = Tried
      BY <2>1 DEF Tried, C
    <2> QED
      BY <1>2, <1>8, <2>1, <2>2 DEF AllConnected, connVars, statVars
  <1>9. CASE Report
    BY <1>9 DEF Report
  <1>10. CASE LoopTest \/ EpollWait \/ EndBatch \/ SendSome \/ RecvSome
    <2>1. /\ pc \notin {"connect", "done"} /\ pc' # "connect"
          /\ UNCHANGED <<fd, errors, mismatches>>
      BY <1>10 DEF LoopTest, EpollWait, EndBatch, SendSome, RecvSome, ctlVars, connVars, statVars
    <2> QED
      BY <1>2, <2>1 DEF Tried
  <1>11. CASE Signal
    <2>1. /\ pc' = pc \/ (pc = "wait" /\ pc' = "loop")
          /\ UNCHANGED <<cur, fd, errors, mismatches>>
      BY <1>11 DEF Signal, connVars, statVars
    <2> QED
      BY <1>2, <2>1 DEF Tried
  <1>12. CASE UNCHANGED <<pc, cur, fd, errors, mismatches>>
    BY <1>2, <1>12 DEF Tried
  <1>13. ASSUME NEW c \in C, EchoByte(c) \/ PeerLeaves(c)
         PROVE  UNCHANGED <<pc, cur, fd, errors, mismatches>>
    BY <1>13 DEF EchoByte, PeerLeaves, ctlVars, connVars, statVars
  <1>14. Tick \/ UNCHANGED vars => UNCHANGED <<pc, cur, fd, errors, mismatches>>
    BY DEF Tick, vars, ctlVars, connVars, statVars
  <1> QED
    BY <1>3, <1>5, <1>6, <1>7, <1>8, <1>9, <1>10, <1>11, <1>12, <1>13, <1>14 DEF Next, Worker

-----------------------------------------------------------------------------
\* The worker's invariant.
LEMMA WorkerInvariance == Spec => [](WorkerInv /\ ErrorsExact)
  <1>1. Init => WorkerInv /\ ErrorsExact
    BY WorkerStart DEF ErrorsExact, Lost, Tried
  <1>2. WorkerInv /\ ErrorsExact /\ [Next]_vars => (WorkerInv /\ ErrorsExact)'
    BY TypesStep, HandStep, FdsInvStep, RequestStep, ErrorsStep DEF WorkerInv
  <1> QED
    BY <1>1, <1>2, PTL DEF Spec

\* The load of loadgen.c is closed-loop, however the server cuts its answers
\* to pieces and whenever it closes: the bytes outstanding on a connection are
\* those of the one request in progress.
THEOREM RequestsAreOutstanding == Spec => []OneOutstanding
  <1>1. WorkerInv => OneOutstanding
    BY DEF WorkerInv, RequestInv, RequestOf, Outstanding, OneOutstanding
  <1> QED
    BY <1>1, WorkerInvariance, PTL

\* The error count that decides about a trial is exact: every connection that
\* was lost and every answer that differed, once.
THEOREM ErrorsAreExact == Spec => []ErrorsExact
  BY WorkerInvariance, PTL

-----------------------------------------------------------------------------
(* The asyncio clients.                                                    *)

CoroutineTypes ==
    /\ prog \in LoadNames /\ mpc \in Nat \ {0} /\ stop \in BOOLEAN
    /\ st \in [Workers -> {"unborn", "connect", "requests", "idle", "close", "done"}]
    /\ sent \in [Workers -> Nat] /\ count \in [Workers -> Nat]
    /\ owed \in [Workers -> Nat] /\ inbuf \in [Workers -> Nat]

\* The active clients are created by one step of the main coroutine.
UnbornInv == (\E k \in DOMAIN Code[prog].main : k >= mpc /\ Code[prog].main[k] = "active")
                => \A w \in Active : st[w] = "unborn"

\* A client that waits for an answer has exactly one request outstanding, and
\* one that has not connected has sent nothing that is not counted.
AnswerOf(w) ==
    /\ st[w] \in {"unborn", "connect"} => sent[w] = count[w]
    /\ st[w] = "requests" => sent[w] = count[w] + 1
    /\ sent[w] = count[w] \/ sent[w] = count[w] + 1
    /\ w \notin split => owed[w] + inbuf[w] = IF sent[w] = count[w] THEN 0 ELSE Size

ClientInv == CoroutineTypes /\ UnbornInv /\ \A w \in Workers : AnswerOf(w)

\* No script has two steps that create the active clients.
LEMMA ActiveOnce ==
    ASSUME NEW l \in LoadNames, NEW j \in DOMAIN Code[l].main, NEW k \in DOMAIN Code[l].main,
           Code[l].main[j] = "active", Code[l].main[k] = "active"
    PROVE  j = k
  BY DEF LoadNames, Code, run_async_load_generator, run_standard_load, run_idle_active_load,
         run_idle_active_test, load_worker_main, establish_conns

\* A client keeps its account when its counters are left alone and it does
\* not go back to where it has sent nothing, or on to where it has.
LEMMA AnswerKept ==
    ASSUME NEW w \in Workers, AnswerOf(w),
           sent'[w] = sent[w], count'[w] = count[w], owed'[w] = owed[w], inbuf'[w] = inbuf[w],
           w \in split => w \in split',
           st'[w] \in {"unborn", "connect", "requests"} =>
                st'[w] = st[w] \/ (st[w] = "unborn" /\ st'[w] = "connect")
    PROVE  AnswerOf(w)'
  BY DEF AnswerOf

\* The main coroutine moves clients on, but takes no part in their requests.
LEMMA MainKeeps ==
    ASSUME ClientInv, MainStep
    PROVE  ClientInv'
  <1> USE AsyncLoadAssumption
  <1>1. CoroutineTypes /\ UNCHANGED <<prog, sent, owed, inbuf, count, split>>
    BY DEF ClientInv, MainStep, SpawnIdle, IdleSpawned, Settle, SpawnActive, TimeIsUp,
           Gather, Cancel, MainGoesOn, net
  <1>2. /\ mpc' = mpc \/ mpc' = mpc + 1
        /\ stop' = stop \/ stop' = TRUE
    BY DEF MainStep, SpawnIdle, IdleSpawned, Settle, SpawnActive, TimeIsUp, Gather, Cancel,
           MainGoesOn
  <1>3. mpc' \in Nat \ {0} /\ stop' \in BOOLEAN /\ mpc' >= mpc
    <2>1. mpc' \in Nat \ {0} /\ mpc' >= mpc
      BY <1>1, <1>2 DEF CoroutineTypes
    <2>2. stop' \in BOOLEAN
      BY <1>1, <1>2, Zenon DEF CoroutineTypes
    <2> QED
      BY <2>1, <2>2
  <1>4. CASE SpawnActive
    <2>1. /\ mpc \in DOMAIN Code[prog].main /\ Code[prog].main[mpc] = "active"
          /\ mpc' = mpc + 1
      <3>1. mpc <= Len(Code[prog].main) /\ Code[prog].main[mpc] = "active" /\ mpc' = mpc + 1
        BY <1>4 DEF SpawnActive, MainAt, MainGoesOn
      <3>2. DOMAIN Code[prog].main = 1..Len(Code[prog].main)
        BY <1>1 DEF CoroutineTypes, LoadNames, Code, run_async_load_generator,
           run_standard_load, run_idle_active_load, run_idle_active_test, load_worker_main,
           establish_conns
      <3>3. Len(Code[prog].main) \in Nat
        BY <1>1 DEF CoroutineTypes, LoadNames, Code, run_async_load_generator,
           run_standard_load, run_idle_active_load, run_idle_active_test, load_worker_main,
           establish_conns
      <3> QED
        BY <1>1, <3>1, <3>2, <3>3 DEF CoroutineTypes
    <2>2. \A w \in Active : st[w] = "unborn"
      BY <1>1, <2>1 DEF ClientInv, UnbornInv, CoroutineTypes
    <2>3. st' = [w \in Workers |-> IF w \in Active THEN "connect" ELSE st[w]]
      BY <1>4 DEF SpawnActive
    <2>4. CoroutineTypes'
      <3>1. st' \in [Workers -> {"unborn", "connect", "requests", "idle", "close", "done"}]
        BY <1>1, <2>3 DEF CoroutineTypes
      <3> QED
        BY <1>1, <1>2, <1>3, <3>1 DEF CoroutineTypes
    <2>5. UnbornInv'
      <3>1. ~\E k \in DOMAIN Code[prog].main : k >= mpc + 1 /\ Code[prog].main[k] = "active"
        BY <1>1, <2>1, ActiveOnce DEF CoroutineTypes
      <3> QED
        BY <1>1, <2>1, <3>1 DEF UnbornInv
    <2>6. ASSUME NEW w \in Workers PROVE AnswerOf(w)'
      BY <1>1, <2>2, <2>3, AnswerKept DEF ClientInv
    <2> QED
      BY <2>4, <2>5, <2>6 DEF ClientInv
  <1>5. CASE ~SpawnActive
    <2>1. \A w \in Workers :
             \/ st'[w] = st[w]
             \/ st[w] = "unborn" /\ st'[w] = "connect" /\ w \in Idle
             \/ st[w] # "unborn" /\ st'[w] = "done"
      BY <1>1, <1>5 DEF MainStep, SpawnIdle, IdleSpawned, Settle, TimeIsUp, Gather, Cancel,
                        Unborn, CoroutineTypes
    <2>2. st' \in [Workers -> {"unborn", "connect", "requests", "idle", "close", "done"}]
      BY <1>1, <1>5 DEF MainStep, SpawnIdle, IdleSpawned, Settle, TimeIsUp, Gather, Cancel,
                        Unborn, CoroutineTypes
    <2>3. CoroutineTypes'
      BY <1>1, <1>3, <2>2 DEF CoroutineTypes
    <2>4. \A w \in Active : w \in Workers /\ w \notin Idle
      BY DEF Active, Idle, Workers
    <2>5. UnbornInv'
      <3> SUFFICES ASSUME NEW k \in DOMAIN Code[prog].main, k >= mpc',
                          Code[prog].main[k] = "active", NEW w \in Active
                   PROVE  st'[w] = "unborn"
        BY <1>1 DEF UnbornInv
      <3>1. k \in Int
        BY <1>1 DEF CoroutineTypes, LoadNames, Code, run_async_load_generator,
           run_standard_load, run_idle_active_load, run_idle_active_test, load_worker_main,
           establish_conns
      <3>2. k >= mpc
        BY <1>1, <1>3, <3>1 DEF CoroutineTypes
      <3>3. st[w] = "unborn"
        BY <3>2 DEF ClientInv, UnbornInv
      <3> QED
        BY <2>1, <2>4, <3>3
    <2>6. ASSUME NEW w \in Workers PROVE AnswerOf(w)'
      BY <1>1, <2>1, AnswerKept DEF ClientInv
    <2> QED
      BY <2>3, <2>5, <2>6 DEF ClientInv
  <1> QED
    BY <1>4, <1>5

\* The head of the loop: one more request, or none.
LEMMA NextRequest ==
    ASSUME CoroutineTypes, NEW w \in Workers, RequestOrClose(w)
    PROVE  /\ st' \in [Workers -> {"unborn", "connect", "requests", "idle", "close", "done"}]
           /\ sent' \in [Workers -> Nat] /\ owed' \in [Workers -> Nat]
           /\ \/ st'[w] = "close" /\ sent'[w] = sent[w] /\ owed'[w] = owed[w]
              \/ st'[w] = "requests" /\ sent'[w] = sent[w] + 1 /\ owed'[w] = owed[w] + Size
           /\ \A v \in Workers \ {w} :
                 st'[v] = st[v] /\ sent'[v] = sent[v] /\ owed'[v] = owed[v]
  BY AsyncLoadAssumption DEF CoroutineTypes, RequestOrClose

\* A client, and the server's part in its connection.
LEMMA ClientKeeps ==
    ASSUME ClientInv, NEW w \in Workers, WorkerStep(w) \/ Deliver(w) \/ ServerCloses(w)
    PROVE  ClientInv'
  <1> USE AsyncLoadAssumption
  <1>1. /\ CoroutineTypes /\ AnswerOf(w) /\ UNCHANGED <<prog, mpc, stop>>
        /\ st[w] \notin {"unborn", "done"} \/ Deliver(w) \/ ServerCloses(w)
    BY DEF ClientInv, WorkerStep, Deliver, ServerCloses, Connected, ConnectFails, Read,
           ReadEnds, IdleEnds, Close
  <1>2. ASSUME st' \in [Workers -> {"unborn", "connect", "requests", "idle", "close", "done"}],
               sent' \in [Workers -> Nat], count' \in [Workers -> Nat],
               owed' \in [Workers -> Nat], inbuf' \in [Workers -> Nat],
               AnswerOf(w)', split \subseteq split', st[w] = "unborn" => st'[w] = "unborn",
               \A v \in Workers \ {w} : /\ st'[v] = st[v] /\ sent'[v] = sent[v]
                                        /\ count'[v] = count[v] /\ owed'[v] = owed[v]
                                        /\ inbuf'[v] = inbuf[v]
        PROVE  ClientInv'
    <2>1. CoroutineTypes'
      BY <1>1, <1>2 DEF CoroutineTypes
    <2>2. Active \subseteq Workers
      BY DEF Workers
    <2>3. UnbornInv'
      BY <1>1, <1>2, <2>2 DEF ClientInv, UnbornInv
    <2>4. \A v \in Workers \ {w} : AnswerOf(v)'
      BY <1>2, AnswerKept DEF ClientInv
    <2> QED
      BY <1>2, <2>1, <2>3, <2>4 DEF ClientInv
  <1>3. CASE Connected(w)
    <2>1. /\ st[w] = "connect" /\ UNCHANGED <<inbuf, count, split>>
          /\ \/ RequestOrClose(w)
             \/ /\ \E x \in {"close", "idle"} : st' = [st EXCEPT ![w] = x]
                /\ UNCHANGED <<sent, owed>>
      BY <1>3 DEF Connected
    <2>2. CASE RequestOrClose(w)
      <3>1. AnswerOf(w)'
        BY <1>1, <2>1, <2>2, NextRequest DEF AnswerOf, CoroutineTypes
      <3> QED
        BY <1>1, <1>2, <2>1, <2>2, <3>1, NextRequest DEF CoroutineTypes
    <2>3. CASE /\ \E x \in {"close", "idle"} : st' = [st EXCEPT ![w] = x]
               /\ UNCHANGED <<sent, owed>>
      <3>1. AnswerOf(w)'
        BY <1>1, <2>1, <2>3 DEF AnswerOf, CoroutineTypes
      <3> QED
        BY <1>1, <1>2, <2>1, <2>3, <3>1 DEF CoroutineTypes
    <2> QED
      BY <2>1, <2>2, <2>3
  <1>4. CASE Read(w)
    <2>1. /\ st[w] = "requests" /\ RequestOrClose(w)
          /\ inbuf' = [inbuf EXCEPT ![w] = 0] /\ count' = [count EXCEPT ![w] = @ + 1]
          /\ split' = IF inbuf[w] < Size THEN split \cup {w} ELSE split
      BY <1>4 DEF Read
    <2>2. sent[w] = count[w] + 1 /\ inbuf'[w] = 0 /\ count'[w] = count[w] + 1
      BY <1>1, <2>1 DEF AnswerOf, CoroutineTypes
    <2>3. w \notin split' => owed[w] = 0
      BY <1>1, <2>1, <2>2 DEF AnswerOf, CoroutineTypes
    <2>4. AnswerOf(w)'
      <3>1. \/ st'[w] = "close" /\ sent'[w] = sent[w] /\ owed'[w] = owed[w]
            \/ st'[w] = "requests" /\ sent'[w] = sent[w] + 1 /\ owed'[w] = owed[w] + Size
        BY <1>1, <2>1, NextRequest
      <3>2. sent[w] \in Nat /\ count[w] \in Nat
        BY <1>1 DEF CoroutineTypes
      <3> QED
        BY <2>2, <2>3, <3>1, <3>2 DEF AnswerOf
    <2>5. /\ inbuf' \in [Workers -> Nat] /\ count' \in [Workers -> Nat]
          /\ \A v \in Workers \ {w} : count'[v] = count[v] /\ inbuf'[v] = inbuf[v]
      BY <1>1, <2>1 DEF CoroutineTypes
    <2> QED
      BY <1>1, <1>2, <2>1, <2>4, <2>5, NextRequest
  <1>5. CASE ConnectFails(w) \/ ReadEnds(w) \/ IdleEnds(w) \/ Close(w)
    <2>1. /\ \E x \in {"close", "done"} : st' = [st EXCEPT ![w] = x]
          /\ UNCHANGED <<sent, count, owed, inbuf, split>> /\ st[w] # "unborn"
      BY <1>5 DEF ConnectFails, ReadEnds, IdleEnds, Close, net
    <2>2. AnswerOf(w)'
      BY <1>1, <2>1 DEF AnswerOf, CoroutineTypes
    <2> QED
      BY <1>1, <1>2, <2>1, <2>2 DEF CoroutineTypes
  <1>6. CASE Deliver(w)
    <2>1. PICK n \in 1..owed[w] : /\ owed' = [owed EXCEPT ![w] = @ - n]
                                  /\ inbuf' = [inbuf EXCEPT ![w] = @ + n]
      BY <1>6 DEF Deliver
    <2>2. UNCHANGED <<st, sent, count, split>>
      BY <1>6 DEF Deliver
    <2>3. /\ n \in Nat /\ n <= owed[w] /\ owed[w] \in Nat /\ inbuf[w] \in Nat
          /\ owed'[w] = owed[w] - n /\ inbuf'[w] = inbuf[w] + n
      BY <1>1, <2>1 DEF CoroutineTypes
    <2>4. AnswerOf(w)'
      BY <1>1, <2>2, <2>3 DEF AnswerOf
    <2> QED
      BY <1>1, <1>2, <2>1, <2>2, <2>3, <2>4 DEF CoroutineTypes
  <1>7. CASE ServerCloses(w)
    <2>1. UNCHANGED <<st, sent, count, owed, inbuf, split>>
      BY <1>7 DEF ServerCloses
    <2> QED
      BY <1>1, <1>2, <2>1, AnswerKept DEF CoroutineTypes
  <1> QED
    BY <1>3, <1>4, <1>5, <1>6, <1>7 DEF WorkerStep

\* The invariant of the clients.
LEMMA ClientInvariance == LoadSpec => []ClientInv
  <1> USE AsyncLoadAssumption
  <1>1. LoadInit => ClientInv
    <2> SUFFICES ASSUME LoadInit PROVE ClientInv
      OBVIOUS
    <2>1. prog \in LoadNames /\ mpc \in Nat \ {0}
      BY DEF LoadInit, AsyncLoadAssumption
    <2>2. sent \in [Workers -> Nat] /\ owed = sent /\ inbuf = sent /\ count = sent
      BY DEF LoadInit
    <2>3. st \in [Workers -> {"unborn", "connect", "requests", "idle", "close", "done"}]
      BY DEF LoadInit
    <2>4. stop \in BOOLEAN
      BY DEF LoadInit
    <2>5. CoroutineTypes
      BY <2>1, <2>2, <2>3, <2>4 DEF CoroutineTypes
    <2>6. UnbornInv
      BY DEF LoadInit, UnbornInv, Workers
    <2>7. \A w \in Workers : AnswerOf(w)
      BY DEF LoadInit, AnswerOf
    <2> QED
      BY <2>5, <2>6, <2>7 DEF ClientInv
  <1>2. ClientInv /\ [LoadNext]_loadVars => ClientInv'
    <2>1. ASSUME ClientInv, UNCHANGED loadVars PROVE ClientInv'
      BY <2>1 DEF ClientInv, CoroutineTypes, UnbornInv, AnswerOf, loadVars
    <2> QED
      BY <2>1, MainKeeps, ClientKeeps DEF LoadNext
  <1> QED
    BY <1>1, <1>2, PTL DEF LoadSpec

(***************************************************************************)
(* The asyncio generators are closed-loop as well: a client has at most    *)
(* one request outstanding, and as long as no answer came to it in pieces  *)
(* it has counted exactly the answers that it has taken in whole.          *)
(***************************************************************************)
THEOREM ClientsWaitForAnswers == LoadSpec => []ClosedLoop
  <1> USE AsyncLoadAssumption
  <1>1. ClientInv => ClosedLoop
    <2> SUFFICES ASSUME ClientInv, NEW w \in Active
                 PROVE  /\ sent[w] - count[w] \in {0, 1}
                        /\ w \notin split => owed[w] + inbuf[w] = Size * (sent[w] - count[w])
      BY DEF ClosedLoop
    <2>1. AnswerOf(w) /\ sent[w] \in Nat /\ count[w] \in Nat
      BY DEF ClientInv, CoroutineTypes, Workers
    <2>2. CASE sent[w] = count[w]
      <3>1. sent[w] - count[w] = 0 /\ Size * 0 = 0
        BY <2>1, <2>2
      <3> QED
        BY <2>1, <2>2, <3>1 DEF AnswerOf
    <2>3. CASE sent[w] = count[w] + 1
      <3>1. sent[w] - count[w] = 1 /\ Size * 1 = Size /\ sent[w] # count[w]
        BY <2>1, <2>3
      <3> QED
        BY <2>1, <2>3, <3>1 DEF AnswerOf
    <2> QED
      BY <2>1, <2>2, <2>3 DEF AnswerOf
  <1> QED
    BY <1>1, ClientInvariance, PTL

-----------------------------------------------------------------------------
(* The histogram of loadgen.c and its percentiles.                         *)

Buckets == 0..(HISTOGRAM_BUCKETS - 1)

\* Every request that was counted is in a bucket or beyond them, and until
\* the report there are no percentiles.
HistogramInv ==
    /\ histogram \in [Buckets -> Nat]
    /\ completed_requests \in Nat /\ overflow_latencies \in Nat
    /\ completed_requests = SumOf(histogram, Buckets) + overflow_latencies
    /\ pc # "done" => p50 = 0 /\ p99 = 0 /\ p999 = 0

\* The buckets are finitely many, and there is a last one.
LEMMA BucketsFinite ==
    IsFiniteSet(Buckets) /\ Buckets \subseteq Nat /\ HISTOGRAM_BUCKETS - 1 \in Buckets
  BY LoadgenAssumption, FS_Interval DEF Buckets

\* The sum when one bucket changes.
LEMMA BucketChange ==
    ASSUME NEW b \in Buckets, histogram \in [Buckets -> Nat], histogram' \in [Buckets -> Nat],
           histogram' = [histogram EXCEPT ![b] = histogram'[b]]
    PROVE  SumOf(histogram', Buckets) + histogram[b] = SumOf(histogram, Buckets) + histogram'[b]
  <1>1. IsFiniteSet(Buckets)
    BY BucketsFinite
  <1> QED
    BY <1>1, SumChange

\* A request is counted once, in the bucket of its latency or as overflow.
LEMMA CountKeeps ==
    ASSUME HistogramInv, Verify
    PROVE  /\ histogram' \in [Buckets -> Nat]
           /\ completed_requests' \in Nat /\ overflow_latencies' \in Nat
           /\ completed_requests' = SumOf(histogram', Buckets) + overflow_latencies'
  <1>0. SumOf(histogram, Buckets) \in Nat
    BY BucketsFinite, SumType DEF HistogramInv
  <1>1. CASE UNCHANGED <<completed_requests, histogram, overflow_latencies>>
    BY <1>1 DEF HistogramInv
  <1>2. ASSUME NEW lat \in 0..LatMax, completed_requests' = completed_requests + 1,
               lat < HISTOGRAM_BUCKETS,
               histogram' = [histogram EXCEPT ![lat] = @ + 1], UNCHANGED overflow_latencies
        PROVE  /\ histogram' \in [Buckets -> Nat]
               /\ completed_requests' \in Nat /\ overflow_latencies' \in Nat
               /\ completed_requests' = SumOf(histogram', Buckets) + overflow_latencies'
    <2>1. lat \in Buckets
      BY <1>2, LoadgenAssumption DEF Buckets
    <2>2. /\ histogram' \in [Buckets -> Nat] /\ histogram'[lat] = histogram[lat] + 1
          /\ \A b \in Buckets \ {lat} : histogram[b] = histogram'[b]
      BY <1>2, <2>1 DEF HistogramInv
    <2>3. SumOf(histogram', Buckets) + histogram[lat] = SumOf(histogram, Buckets) + histogram'[lat]
      <3>1. histogram \in [Buckets -> Nat]
        BY DEF HistogramInv
      <3>2. histogram' = [histogram EXCEPT ![lat] = histogram'[lat]]
        BY <1>2, <2>2, <3>1
      <3> QED
        BY <2>1, <2>2, <3>1, <3>2, BucketChange
    <2>4. SumOf(histogram', Buckets) \in Nat /\ histogram[lat] \in Nat
      BY <2>1, <2>2, BucketsFinite, SumType DEF HistogramInv
    <2>5. SumOf(histogram', Buckets) = SumOf(histogram, Buckets) + 1
      BY <1>0, <2>2, <2>3, <2>4
    <2> QED
      BY <1>0, <1>2, <2>2, <2>4, <2>5 DEF HistogramInv
  <1>3. CASE /\ completed_requests' = completed_requests + 1 /\ UNCHANGED histogram
             /\ overflow_latencies' = overflow_latencies + 1
    BY <1>0, <1>3 DEF HistogramInv
  <1> QED
    BY <1>1, <1>2, <1>3 DEF Verify, Count

\* What a later quantile has reached an earlier one has, and the whole count
\* is reached in the last bucket.
LEMMA ReachedOrder ==
    ASSUME HistogramInv, NEW m \in Nat, NEW n \in Nat, m <= n,
           n <= completed_requests, overflow_latencies = 0
    PROVE  /\ Reached(m) \subseteq Nat /\ Reached(n) \subseteq Reached(m) /\ Reached(n) # {}
  <1>1. DOMAIN histogram = Buckets
    BY DEF HistogramInv
  <1>2. \A b \in Buckets : Upto(b) \in Nat
    <2> TAKE b \in Buckets
    <2>1. 0..b \subseteq Buckets /\ IsFiniteSet(0..b)
      BY LoadgenAssumption, FS_Interval DEF Buckets
    <2>2. SumOf(histogram, 0..b) \in Nat
      BY <2>1, SumType DEF HistogramInv
    <2> QED
      BY <2>2 DEF Upto, SumOf
  <1>3. Upto(HISTOGRAM_BUCKETS - 1) = completed_requests
    <2>1. Upto(HISTOGRAM_BUCKETS - 1) = SumOf(histogram, Buckets)
      BY DEF Upto, SumOf, Buckets
    <2>2. SumOf(histogram, Buckets) \in Nat
      BY BucketsFinite, SumType DEF HistogramInv
    <2> QED
      BY <2>1, <2>2 DEF HistogramInv
  <1>4. Reached(n) \subseteq Reached(m)
    <2> SUFFICES ASSUME NEW b \in Buckets, Upto(b) >= n PROVE Upto(b) >= m
      BY <1>1 DEF Reached
    <2>1. Upto(b) \in Nat
      BY <1>2
    <2> QED
      BY <2>1
  <1>5. HISTOGRAM_BUCKETS - 1 \in Reached(n)
    BY <1>1, <1>3, BucketsFinite DEF Reached, HistogramInv
  <1> QED
    BY <1>1, <1>4, <1>5, BucketsFinite DEF Reached

\* The report of main() orders the percentiles.
LEMMA ReportOrders ==
    ASSUME HistogramInv, pc # "done", Report
    PROVE  PercentilesOrdered'
  <1> SUFFICES ASSUME overflow_latencies = 0 PROVE p50' <= p99' /\ p99' <= p999'
    BY DEF Report, statVars, PercentilesOrdered
  <1>1. CASE completed_requests = 0
    BY <1>1 DEF Report, HistogramInv, outVars
  <1>2. CASE completed_requests # 0
    <2> DEFINE a == (completed_requests * 50) \div 100
               b == (completed_requests * 99) \div 100
               c == (completed_requests * 999) \div 1000
    <2>1. completed_requests \in Nat
      BY DEF HistogramInv
    <2>2. a \in Nat /\ b \in Nat /\ c \in Nat /\ a <= b /\ b <= c /\ c <= completed_requests
      BY <2>1
    <2>3. /\ p50' = (IF Reached(a) = {} THEN 0 ELSE Min(Reached(a)))
          /\ p99' = (IF Reached(b) = {} THEN 0 ELSE Min(Reached(b)))
          /\ p999' = (IF Reached(c) = {} THEN 0 ELSE Min(Reached(c)))
      BY <1>2 DEF Report, Quantile
    <2> HIDE DEF a, b, c
    <2>4. Reached(b) \in SUBSET Reached(a) /\ Reached(a) \in SUBSET Nat
      BY <2>1, <2>2, ReachedOrder
    <2>5. Reached(c) \in SUBSET Reached(b) /\ Reached(b) \in SUBSET Nat /\ Reached(c) # {}
      BY <2>2, ReachedOrder
    <2>6. Min(Reached(a)) <= Min(Reached(b))
      BY <2>4, <2>5, MinOfPart
    <2>7. Min(Reached(b)) <= Min(Reached(c))
      BY <2>5, MinOfPart
    <2> QED
      BY <2>3, <2>4, <2>5, <2>6, <2>7
  <1> QED
    BY <1>1, <1>2

\* Only Complete counts, and only Report writes the percentiles.
LEMMA HistogramStep ==
    ASSUME HistogramInv, PercentilesOrdered, [Next]_vars
    PROVE  (HistogramInv /\ PercentilesOrdered)'
  <1>1. CASE /\ UNCHANGED <<completed_requests, histogram, overflow_latencies, p50, p99, p999>>
             /\ pc' # "done" => pc # "done"
    BY <1>1 DEF HistogramInv, PercentilesOrdered
  <1>2. CASE Complete
    <2>1. Verify /\ pc = "recv" /\ UNCHANGED <<p50, p99, p999>>
      BY <1>2 DEF Complete, outVars
    <2>2. HistogramInv'
      BY <2>1, CountKeeps DEF HistogramInv
    <2> QED
      BY <2>1, <2>2 DEF HistogramInv, PercentilesOrdered
  <1>3. CASE Report
    <2>1. pc = "report" /\ pc' = "done"
          /\ UNCHANGED <<completed_requests, histogram, overflow_latencies>>
      BY <1>3 DEF Report, statVars
    <2>2. HistogramInv'
      BY <2>1 DEF HistogramInv
    <2> QED
      BY <1>3, <2>1, <2>2, ReportOrders
  <1>4. CASE UNCHANGED vars \/ Signal \/ Tick \/ (\E c \in C : EchoByte(c) \/ PeerLeaves(c))
    BY <1>1, <1>4 DEF vars, Signal, Tick, EchoByte, PeerLeaves, ctlVars, connVars, statVars, outVars
  <1>5. CASE ConnectOne \/ AllConnected \/ LoopTest \/ EpollWait \/ Dispatch \/ EndBatch
    BY <1>1, <1>5 DEF ConnectOne, AllConnected, LoopTest, EpollWait, Dispatch, EndBatch,
                      ctlVars, statVars, outVars
  <1>6. CASE SendSome \/ SendStops \/ RecvSome \/ RecvStops
    BY <1>1, <1>6 DEF SendSome, SendStops, RecvSome, RecvStops, ctlVars, statVars, outVars
  <1> QED
    BY <1>2, <1>3, <1>4, <1>5, <1>6 DEF Next, Worker

\* The percentiles of the report rise with their rank, when no latency lies
\* beyond the histogram: for every number of buckets and all latencies.
THEOREM PercentilesAreOrdered == Spec => []PercentilesOrdered
  <1>1. Init => HistogramInv /\ PercentilesOrdered
    <2> SUFFICES ASSUME Init PROVE HistogramInv /\ PercentilesOrdered
      OBVIOUS
    <2>1. histogram = [b \in Buckets |-> 0]
      BY DEF Init, Buckets
    <2>2. SumOf(histogram, Buckets) = 0
      <3>1. Pile(histogram, Buckets) = {}
        BY <2>1 DEF Pile
      <3> QED
        BY <2>1, <3>1, BucketsFinite, SumIsPile, FS_EmptySet
    <2> QED
      BY <2>1, <2>2 DEF Init, HistogramInv, PercentilesOrdered
  <1>2. HistogramInv /\ PercentilesOrdered /\ [Next]_vars => (HistogramInv /\ PercentilesOrdered)'
    BY HistogramStep
  <1> QED
    BY <1>1, <1>2, PTL DEF Spec

-----------------------------------------------------------------------------
(* The sum that the report of the asyncio load generators gives.           *)

\* A client that has not connected has counted nothing, and one that is on
\* its way out has counted all its answers, unless the server closed first.
TallyOf(w) ==
    /\ st[w] \in {"unborn", "connect"} => count[w] = 0
    /\ st[w] = "idle" => sent[w] = count[w]
    /\ st[w] \in {"close", "done"} /\ w \notin gone => sent[w] = count[w]

\* What the report holds of a client.
Paid(w) == IF st[w] = "done" THEN count[w] ELSE 0
Tally == [w \in Active |-> Paid(w)]

\* After the gathering no active client is under way.
GatheredInv ==
    (\E k \in DOMAIN Code[prog].main : k < mpc /\ Code[prog].main[k] = "gather_active")
        => Over(Active)

TotalInv ==
    /\ \A w \in Workers : TallyOf(w)
    /\ GatheredInv
    /\ total = SumOf(Tally, Active)
    /\ prog # "load_worker" => lats = total

-----------------------------------------------------------------------------
\* The main coroutines that measure, and the coroutines of clients.
LEMMA MainPrograms ==
    ASSUME NEW l \in LoadNames, l # "exp3"
    PROVE  \/ Code[l].main = <<"active", "sleep", "gather_active">>
           \/ Code[l].main = <<"idle", "settle", "active", "sleep", "gather_active", "gather_idle">>
  BY DEF LoadNames, Code, run_async_load_generator, run_standard_load, run_idle_active_load,
         run_idle_active_test, load_worker_main, establish_conns

\* ... those of the active clients, ...
LEMMA ActivePrograms ==
    ASSUME NEW l \in LoadNames
    PROVE  \/ Code[l].active = <<"connect", "requests", "close", "total", "latencies">>
           \/ Code[l].active = <<"connect", "requests", "close", "total">> /\ l = "load_worker"
           \/ Code[l].active = <<>> /\ l = "exp3"
  BY DEF LoadNames, Code, run_async_load_generator, run_standard_load, run_idle_active_load,
         run_idle_active_test, load_worker_main, establish_conns, None,
         async_client_worker, async_active_worker, active_worker, worker

\* ... and those of the idle ones.
LEMMA IdlePrograms ==
    ASSUME NEW l \in LoadNames
    PROVE  Code[l].idle \in {<<>>, <<"connect", "idle", "close">>}
  BY DEF LoadNames, Code, run_async_load_generator, run_standard_load, run_idle_active_load,
         run_idle_active_test, load_worker_main, establish_conns, None,
         async_idle_worker, idle_worker, exp3_idle_worker

\* Clients are gathered after they were created, and a main coroutine that
\* measures returns after it has gathered them.
LEMMA GatherLast ==
    ASSUME NEW l \in LoadNames, l # "exp3"
    PROVE  /\ DOMAIN Code[l].main = 1..Len(Code[l].main) /\ Len(Code[l].main) \in Nat
           /\ \A j, k \in DOMAIN Code[l].main :
                 Code[l].main[j] = "active" /\ Code[l].main[k] = "gather_active" => j < k
           /\ \E k \in DOMAIN Code[l].main : Code[l].main[k] = "gather_active"
           /\ \A k \in DOMAIN Code[l].main : Code[l].main[k] # "cancel"
  <1>1. CASE Code[l].main = <<"active", "sleep", "gather_active">>
    <2>1. /\ DOMAIN Code[l].main = 1..3 /\ Len(Code[l].main) = 3
          /\ Code[l].main[3] = "gather_active"
      BY <1>1
    <2>2. \A k \in 1..3 : k = 1 \/ k = 2 \/ k = 3
      OBVIOUS
    <2>3. Code[l].main[1] = "active" /\ Code[l].main[2] = "sleep"
      BY <1>1
    <2> QED
      BY <2>1, <2>2, <2>3
  <1>2. CASE Code[l].main = <<"idle", "settle", "active", "sleep", "gather_active", "gather_idle">>
    <2>1. /\ DOMAIN Code[l].main = 1..6 /\ Len(Code[l].main) = 6
          /\ Code[l].main[5] = "gather_active"
      BY <1>2
    <2>2. \A k \in 1..6 : k = 1 \/ k = 2 \/ k = 3 \/ k = 4 \/ k = 5 \/ k = 6
      OBVIOUS
    <2>3. /\ Code[l].main[1] = "idle" /\ Code[l].main[2] = "settle" /\ Code[l].main[3] = "active"
          /\ Code[l].main[4] = "sleep" /\ Code[l].main[6] = "gather_idle"
      BY <1>2
    <2> QED
      BY <2>1, <2>2, <2>3
  <1> QED
    BY <1>1, <1>2, MainPrograms

\* Every active client adds its count; idle ones add nothing.  The scripts but
\* one add the latencies as well.
LEMMA ClientPrograms ==
    ASSUME prog \in LoadNames
    PROVE  /\ prog # "exp3" => \A w \in Active : Does(w, "total") /\ Does(w, "requests")
           /\ \A w \in Idle : ~Does(w, "total")
           /\ prog # "load_worker" =>
                 \A w \in Workers : Does(w, "total") <=> Does(w, "latencies")
  <1>1. ASSUME NEW w \in Active
        PROVE  /\ prog # "exp3" => Does(w, "total") /\ Does(w, "requests")
               /\ prog # "load_worker" => (Does(w, "total") <=> Does(w, "latencies"))
    <2>1. Routine(w) = Code[prog].active
      BY AsyncLoadAssumption DEF Routine, Active, Idle
    <2>2. CASE Code[prog].active = <<"connect", "requests", "close", "total", "latencies">>
      <3>1. /\ DOMAIN Routine(w) = 1..5 /\ Routine(w)[2] = "requests"
            /\ Routine(w)[4] = "total" /\ Routine(w)[5] = "latencies"
        BY <2>1, <2>2
      <3>2. 2 \in 1..5 /\ 4 \in 1..5 /\ 5 \in 1..5
        OBVIOUS
      <3> QED
        BY <3>1, <3>2 DEF Does
    <2>3. CASE /\ Code[prog].active = <<"connect", "requests", "close", "total">>
               /\ prog = "load_worker"
      <3>1. DOMAIN Routine(w) = 1..4 /\ Routine(w)[2] = "requests" /\ Routine(w)[4] = "total"
        BY <2>1, <2>3
      <3>2. 2 \in 1..4 /\ 4 \in 1..4
        OBVIOUS
      <3> QED
        BY <2>3, <3>1, <3>2 DEF Does
    <2>4. CASE Code[prog].active = <<>> /\ prog = "exp3"
      BY <2>1, <2>4 DEF Does
    <2> QED
      BY <2>2, <2>3, <2>4, ActivePrograms
  <1>2. ASSUME NEW w \in Idle
        PROVE  ~Does(w, "total") /\ ~Does(w, "latencies")
    <2>1. Routine(w) \in {<<>>, <<"connect", "idle", "close">>}
      BY IdlePrograms DEF Routine
    <2> QED
      BY <2>1 DEF Does
  <1> QED
    BY <1>1, <1>2 DEF Workers

\* The active clients are finitely many of the workers.
LEMMA ActiveFinite == IsFiniteSet(Active) /\ Active \subseteq Workers
  BY AsyncLoadAssumption, FS_Interval DEF Active, Workers

-----------------------------------------------------------------------------
\* The sum is about what the coroutines hold, whoever moves.
LEMMA TallyKept ==
    ASSUME \A w \in Active : Paid(w)' = Paid(w)
    PROVE  Tally' = Tally
  BY DEF Tally

\* The main coroutine creates clients and waits for them.
LEMMA MainTotals ==
    ASSUME ClientInv, TotalInv, prog # "exp3", MainStep
    PROVE  TotalInv'
  <1>1. /\ CoroutineTypes /\ UNCHANGED <<prog, sent, gone, count, total, lats>>
        /\ mpc' = mpc \/ mpc' = mpc + 1
    BY DEF ClientInv, MainStep, SpawnIdle, IdleSpawned, Settle, SpawnActive, TimeIsUp,
           Gather, Cancel, MainGoesOn, net, stats
  <1>2. /\ DOMAIN Code[prog].main = 1..Len(Code[prog].main) /\ Len(Code[prog].main) \in Nat
        /\ \A j, k \in DOMAIN Code[prog].main :
              Code[prog].main[j] = "active" /\ Code[prog].main[k] = "gather_active" => j < k
        /\ \A k \in DOMAIN Code[prog].main : Code[prog].main[k] # "cancel"
    BY <1>1, GatherLast DEF CoroutineTypes
  <1>3. mpc \in Nat \ {0} /\ (mpc <= Len(Code[prog].main) => mpc \in DOMAIN Code[prog].main)
    BY <1>1, <1>2 DEF CoroutineTypes
  <1>4. ~Cancel
    BY <1>2, <1>3 DEF Cancel, MainAt
  <1>5. \A w \in Workers : st'[w] = st[w] \/ (st[w] = "unborn" /\ st'[w] = "connect")
    <2>1. CASE SpawnActive
      <3>1. Code[prog].main[mpc] = "active" /\ mpc \in DOMAIN Code[prog].main
        BY <1>3, <2>1 DEF SpawnActive, MainAt
      <3>2. \A w \in Active : st[w] = "unborn"
        BY <1>3, <3>1 DEF ClientInv, UnbornInv
      <3> QED
        BY <2>1, <3>2 DEF SpawnActive
    <2>2. CASE SpawnIdle
      BY <2>2 DEF SpawnIdle, Unborn
    <2>3. CASE IdleSpawned \/ Settle \/ TimeIsUp \/ Gather
      BY <2>3 DEF IdleSpawned, Settle, TimeIsUp, Gather
    <2> QED
      BY <1>4, <2>1, <2>2, <2>3 DEF MainStep
  <1>6. \A w \in Workers : TallyOf(w)'
    BY <1>1, <1>5 DEF TotalInv, TallyOf
  <1>7. Tally' = Tally
    <2>1. \A w \in Active : Paid(w)' = Paid(w)
      BY <1>1, <1>5, ActiveFinite DEF Paid
    <2> QED
      BY <2>1, TallyKept
  <1>8. GatheredInv'
    <2> SUFFICES ASSUME NEW k \in DOMAIN Code[prog].main, k < mpc',
                        Code[prog].main[k] = "gather_active"
                 PROVE  Over(Active)'
      BY <1>1 DEF GatheredInv
    <2>0. k \in Nat
      BY <1>2
    <2>1. ASSUME k < mpc PROVE Over(Active)'
      <3>1. Over(Active)
        BY <2>1 DEF TotalInv, GatheredInv
      <3>2. ~SpawnActive
        <4> SUFFICES ASSUME SpawnActive PROVE FALSE
          OBVIOUS
        <4>1. Code[prog].main[mpc] = "active" /\ mpc \in DOMAIN Code[prog].main
          BY <1>3 DEF SpawnActive, MainAt
        <4>2. mpc < k
          BY <1>2, <4>1
        <4> QED
          BY <1>3, <2>0, <2>1, <4>2
      <3>3. \A w \in Active : st'[w] = st[w]
        <4>1. SpawnIdle \/ IdleSpawned \/ Settle \/ TimeIsUp \/ Gather
          BY <1>4, <3>2 DEF MainStep
        <4>2. \A w \in Active : w \in Workers /\ w \notin Idle
          BY AsyncLoadAssumption DEF Active, Idle, Workers
        <4> QED
          BY <4>1, <4>2 DEF SpawnIdle, IdleSpawned, Settle, TimeIsUp, Gather, Unborn
      <3> QED
        BY <3>1, <3>3 DEF Over
    <2>2. ASSUME k = mpc, mpc' = mpc + 1 PROVE Over(Active)'
      <3>1. Code[prog].main[mpc] = "gather_active"
        BY <2>2
      <3>2. Gather
        BY <1>4, <2>2, <3>1 DEF MainStep, SpawnIdle, IdleSpawned, Settle, SpawnActive, TimeIsUp,
                                MainAt
      <3>3. Over(Active) /\ st' = st
        BY <3>1, <3>2 DEF Gather, MainAt
      <3> QED
        BY <3>3 DEF Over
    <2> QED
      BY <1>1, <1>3, <2>0, <2>1, <2>2
  <1>9. /\ total' = SumOf(Tally', Active)
        /\ prog' # "load_worker" => lats' = total'
    BY <1>1, <1>7 DEF TotalInv
  <1> QED
    BY <1>6, <1>8, <1>9 DEF TotalInv

\* Coroutines that are over stay so, and one is over after the gathering.
LEMMA GatheredKept ==
    ASSUME ClientInv, GatheredInv, NEW w \in Workers, UNCHANGED <<prog, mpc>>,
           \A v \in Workers \ {w} : st'[v] = st[v],
           st[w] \in {"done", "unborn"} => st'[w] = st[w]
    PROVE  GatheredInv'
  <1>1. Over(Active) => Over(Active)'
    BY ActiveFinite DEF Over
  <1> QED
    BY <1>1 DEF GatheredInv

\* One coroutine ends with its count in the total, or goes on.
LEMMA ClientTotals ==
    ASSUME ClientInv, TotalInv, prog # "exp3", NEW w \in Workers,
           WorkerStep(w) \/ Deliver(w) \/ ServerCloses(w)
    PROVE  TotalInv'
  <1>1. /\ CoroutineTypes /\ TallyOf(w) /\ AnswerOf(w) /\ UNCHANGED <<prog, mpc>>
    BY DEF ClientInv, TotalInv, WorkerStep, Deliver, ServerCloses, Connected, ConnectFails,
           Read, ReadEnds, IdleEnds, Close
  <1>2. ASSUME TallyOf(w)', UNCHANGED <<total, lats>>, gone \subseteq gone',
               \A v \in Workers \ {w} :
                  st'[v] = st[v] /\ sent'[v] = sent[v] /\ count'[v] = count[v],
               st[w] \in {"done", "unborn"} => st'[w] = st[w],
               Paid(w)' = Paid(w)
        PROVE  TotalInv'
    <2>1. \A v \in Workers \ {w} : TallyOf(v)'
      BY <1>2 DEF TotalInv, TallyOf
    <2>2. GatheredInv'
      BY <1>1, <1>2, GatheredKept DEF TotalInv
    <2>3. Tally' = Tally
      <3>1. \A v \in Active : Paid(v)' = Paid(v)
        BY <1>2, ActiveFinite DEF Paid
      <3> QED
        BY <3>1, TallyKept
    <2> QED
      BY <1>1, <1>2, <2>1, <2>2, <2>3 DEF TotalInv
  <1>3. CASE Connected(w)
    <2>1. /\ st[w] = "connect" /\ UNCHANGED <<gone, count, total, lats>>
          /\ \/ RequestOrClose(w)
             \/ /\ \E x \in {"close", "idle"} : st' = [st EXCEPT ![w] = x]
                /\ UNCHANGED <<sent, owed>>
      BY <1>3 DEF Connected, stats
    <2>2. sent[w] = count[w] /\ count[w] = 0
      BY <1>1, <2>1 DEF TallyOf, AnswerOf
    <2>3. /\ (st'[w] \in {"close", "idle"} /\ sent'[w] = sent[w]) \/ st'[w] = "requests"
          /\ \A v \in Workers \ {w} : st'[v] = st[v] /\ sent'[v] = sent[v]
      BY <1>1, <2>1, NextRequest DEF CoroutineTypes
    <2>4. TallyOf(w)' /\ Paid(w)' = Paid(w)
      BY <2>1, <2>2, <2>3 DEF TallyOf, Paid
    <2> QED
      BY <1>2, <2>1, <2>3, <2>4
  <1>4. CASE Read(w)
    <2>1. /\ st[w] = "requests" /\ RequestOrClose(w)
          /\ count' = [count EXCEPT ![w] = @ + 1] /\ UNCHANGED <<gone, total, lats>>
      BY <1>4 DEF Read, stats
    <2>2. sent[w] = count[w] + 1 /\ count'[w] = count[w] + 1
          /\ \A v \in Workers \ {w} : count'[v] = count[v]
      BY <1>1, <2>1 DEF AnswerOf, CoroutineTypes
    <2>3. /\ (st'[w] = "close" /\ sent'[w] = sent[w]) \/ st'[w] = "requests"
          /\ \A v \in Workers \ {w} : st'[v] = st[v] /\ sent'[v] = sent[v]
      BY <1>1, <2>1, NextRequest
    <2>4. TallyOf(w)' /\ Paid(w)' = Paid(w)
      BY <2>1, <2>2, <2>3 DEF TallyOf, Paid
    <2> QED
      BY <1>2, <2>1, <2>2, <2>3, <2>4
  <1>5. CASE ConnectFails(w) \/ ReadEnds(w) \/ IdleEnds(w)
    <2>1. /\ UNCHANGED <<sent, count, gone, total, lats>>
          /\ \/ st[w] = "connect" /\ st' = [st EXCEPT ![w] = "done"]
             \/ st[w] = "requests" /\ w \in gone /\ st' = [st EXCEPT ![w] = "close"]
             \/ st[w] = "idle" /\ st' = [st EXCEPT ![w] = "close"]
      BY <1>5 DEF ConnectFails, ReadEnds, IdleEnds, net, stats
    <2>2. /\ \A v \in Workers \ {w} : st'[v] = st[v]
          /\ st'[w] \in {"close", "done"}
          /\ st'[w] = "done" => st[w] = "connect"
          /\ st'[w] = "close" => st[w] = "idle" \/ w \in gone
      BY <1>1, <2>1 DEF CoroutineTypes
    <2>3. st[w] = "connect" => sent[w] = count[w] /\ count[w] = 0
      BY <1>1 DEF TallyOf, AnswerOf
    <2>4. TallyOf(w)' /\ Paid(w)' = Paid(w)
      BY <1>1, <2>1, <2>2, <2>3 DEF TallyOf, Paid
    <2> QED
      BY <1>2, <2>1, <2>2, <2>4
  <1>6. CASE Deliver(w) \/ ServerCloses(w)
    <2>1. UNCHANGED <<st, sent, count, total, lats>> /\ gone \subseteq gone'
      BY <1>6 DEF Deliver, ServerCloses, stats
    <2>2. TallyOf(w)' /\ Paid(w)' = Paid(w)
      BY <1>1, <2>1 DEF TallyOf, Paid
    <2> QED
      BY <1>2, <2>1, <2>2
  <1>7. CASE Close(w)
    <2>1. /\ st[w] = "close" /\ st' = [st EXCEPT ![w] = "done"]
          /\ UNCHANGED <<sent, count, gone>>
          /\ total' = total + (IF Does(w, "total") THEN count[w] ELSE 0)
          /\ lats' = lats + (IF Does(w, "latencies") THEN count[w] ELSE 0)
      BY <1>7 DEF Close, net
    <2>2. \A v \in Workers \ {w} : st'[v] = st[v]
      BY <1>1, <2>1 DEF CoroutineTypes
    <2>3. st'[w] = "done"
      BY <1>1, <2>1 DEF CoroutineTypes
    <2>4. \A v \in Workers : TallyOf(v)'
      BY <2>1, <2>2, <2>3 DEF TotalInv, TallyOf
    <2>5. GatheredInv'
      BY <1>1, <2>1, <2>2, GatheredKept DEF TotalInv
    <2>6. prog' # "load_worker" => lats' = total'
      <3>1. prog # "load_worker" => (Does(w, "total") <=> Does(w, "latencies"))
        BY <1>1, ClientPrograms DEF CoroutineTypes
      <3> QED
        BY <1>1, <2>1, <3>1 DEF TotalInv
    <2>7. total' = SumOf(Tally', Active)
      <3>1. /\ Tally \in [Active -> Nat] /\ Tally' \in [Active -> Nat]
            /\ IsFiniteSet(Active) /\ SumOf(Tally, Active) \in Nat
        <4>1. Tally \in [Active -> Nat] /\ Tally' \in [Active -> Nat]
          BY <1>1, <2>1, ActiveFinite DEF Tally, Paid, CoroutineTypes
        <4> QED
          BY <4>1, ActiveFinite, SumType
      <3>2. CASE w \in Active
        <4>1. Tally[w] = 0 /\ Tally'[w] = count[w] /\ count[w] \in Nat
          BY <1>1, <2>1, <2>3, <3>2 DEF Tally, Paid, CoroutineTypes
        <4>2. \A v \in Active \ {w} : Tally'[v] = Tally[v]
          BY <2>1, <2>2, ActiveFinite DEF Tally, Paid
        <4>3. Tally' = [Tally EXCEPT ![w] = Tally'[w]]
          BY <3>1, <4>2
        <4>4. SumOf(Tally', Active) + Tally[w] = SumOf(Tally, Active) + Tally'[w]
          BY <3>1, <3>2, <4>3, SumChange
        <4>5. SumOf(Tally', Active) \in Nat
          BY <3>1, SumType
        <4>6. total' = total + count[w]
          <5>1. Does(w, "total")
            BY <1>1, <3>2, ClientPrograms DEF CoroutineTypes
          <5> QED
            BY <2>1, <5>1
        <4>7. total = SumOf(Tally, Active)
          BY DEF TotalInv
        <4> QED
          BY <3>1, <4>1, <4>4, <4>5, <4>6, <4>7
      <3>3. CASE w \notin Active
        <4>1. ~Does(w, "total")
          BY <1>1, <3>3, ClientPrograms DEF CoroutineTypes, Workers
        <4>2. Tally' = Tally
          <5>1. \A v \in Active : Paid(v)' = Paid(v)
            BY <2>1, <2>2, <3>3, ActiveFinite DEF Paid
          <5> QED
            BY <5>1, TallyKept
        <4>3. total = SumOf(Tally, Active)
          BY DEF TotalInv
        <4>4. total' = total
          BY <2>1, <3>1, <4>1, <4>3
        <4> QED
          BY <4>2, <4>3, <4>4
      <3> QED
        BY <3>2, <3>3
    <2> QED
      BY <2>4, <2>5, <2>6, <2>7 DEF TotalInv
  <1> QED
    BY <1>3, <1>4, <1>5, <1>6, <1>7 DEF WorkerStep

\* When main() has returned every client's count is in the report.
LEMMA TotalsAtEnd ==
    ASSUME ClientInv, prog # "exp3" => TotalInv
    PROVE  TotalExact
  <1> SUFFICES ASSUME Returned, prog # "exp3", TotalInv
               PROVE  /\ total = Sum(count)
                      /\ prog # "load_worker" => lats = total
                      /\ \A w \in Active : w \notin gone /\ w \notin split /\ sent[w] > 0 =>
                             count[w] = sent[w]
    BY DEF TotalExact
  <1>0. CoroutineTypes /\ \A w \in Workers : AnswerOf(w)
    BY DEF ClientInv
  <1>1. Over(Active)
    <2>1. PICK k \in DOMAIN Code[prog].main : Code[prog].main[k] = "gather_active"
      BY <1>0, GatherLast DEF CoroutineTypes
    <2>2. k < mpc
      BY <1>0, <2>1, GatherLast DEF CoroutineTypes, Returned
    <2> QED
      BY <2>1, <2>2 DEF TotalInv, GatheredInv
  <1>2. \A w \in Active : Tally[w] \in Nat /\ Tally[w] = count[w]
    BY <1>0, <1>1, ActiveFinite DEF Tally, Paid, Over, TotalInv, TallyOf, CoroutineTypes
  <1>3. SumOf(Tally, Active) = SumOf(count, Active)
    BY <1>2, ActiveFinite, SumSame
  <1>4. SumOf(count, Active) = Sum(count)
    BY DEF Sum, SumOf
  <1>5. ASSUME NEW w \in Active, w \notin gone
        PROVE  count[w] = sent[w]
    <2>1. w \in Workers /\ TallyOf(w) /\ AnswerOf(w) /\ st[w] \in {"done", "unborn"}
      BY <1>0, <1>1, ActiveFinite DEF Over, TotalInv
    <2> QED
      BY <1>5, <2>1 DEF TallyOf, AnswerOf
  <1>6. total = Sum(count)
    BY <1>3, <1>4 DEF TotalInv
  <1>7. prog # "load_worker" => lats = total
    BY DEF TotalInv
  <1> QED
    BY <1>5, <1>6, <1>7

(***************************************************************************)
(* The report of an asyncio generator is complete: every answer that a     *)
(* client has read is in the total, also the one that came after           *)
(* stop_event was set.                                                     *)
(***************************************************************************)
THEOREM TotalsAreExact == LoadSpec => []TotalExact
  <1>1. LoadInit => (prog # "exp3" => TotalInv)
    <2> SUFFICES ASSUME LoadInit PROVE TotalInv
      OBVIOUS
    <2>1. \A w \in Workers : TallyOf(w)
      BY DEF LoadInit, TallyOf
    <2>2. GatheredInv
      BY ActiveFinite DEF LoadInit, GatheredInv, Over
    <2>3. total = SumOf(Tally, Active)
      <3>1. \A w \in Active : Tally[w] = 0
        BY ActiveFinite DEF LoadInit, Tally, Paid
      <3>2. Pile(Tally, Active) = {}
        BY <3>1 DEF Pile
      <3>3. SumOf(Tally, Active) = 0
        BY <3>1, <3>2, ActiveFinite, SumIsPile, FS_EmptySet
      <3> QED
        BY <3>3 DEF LoadInit
    <2> QED
      BY <2>1, <2>2, <2>3 DEF LoadInit, TotalInv
  <1>2. ClientInv /\ (prog # "exp3" => TotalInv) /\ [LoadNext]_loadVars
            => (prog # "exp3" => TotalInv)'
    <2> SUFFICES ASSUME ClientInv, prog # "exp3" => TotalInv, [LoadNext]_loadVars,
                        prog' # "exp3"
                 PROVE  TotalInv'
      OBVIOUS
    <2>1. prog # "exp3" /\ TotalInv
      BY DEF LoadNext, loadVars, MainStep, SpawnIdle, IdleSpawned, Settle, SpawnActive,
             TimeIsUp, Gather, Cancel, MainGoesOn, WorkerStep, Connected, ConnectFails,
             Read, ReadEnds, IdleEnds, Close, Deliver, ServerCloses
    <2>2. CASE UNCHANGED loadVars
      BY <2>1, <2>2 DEF loadVars, TotalInv, TallyOf, GatheredInv, Over, Tally, Paid
    <2> QED
      BY <2>1, <2>2, MainTotals, ClientTotals DEF LoadNext
  <1>3. ClientInv /\ (prog # "exp3" => TotalInv) => TotalExact
    BY TotalsAtEnd
  <1> QED
    BY <1>1, <1>2, <1>3, ClientInvariance, PTL DEF LoadSpec

-----------------------------------------------------------------------------
(* The calibration and the scripts that read it.                           *)

\* A list of numbers has a bound.
LEMMA Bounded ==
    ASSUME NEW list, NEW l \in Nat, \A i \in 1..l : list[i] \in Nat
    PROVE  \E m \in Nat : \A i \in 1..l : list[i] <= m
  <1> DEFINE Fits(n) == \E m \in Nat : \A i \in 1..n : list[i] <= m
             Bad == {n \in 0..l : ~Fits(n)}
  <1>1. l \in Nat /\ \A i \in 1..l : list[i] \in Nat
    OBVIOUS
  <1>2. ASSUME Bad # {} PROVE FALSE
    <2>1. PICK n \in Bad : \A k \in Bad : n <= k
      <3>1. Bad \in SUBSET Nat
        BY <1>1
      <3> HIDE DEF Bad
      <3> QED BY <1>2, <3>1, Least
    <2>2. n \in 0..l /\ ~Fits(n)
      OBVIOUS
    <2>3. n # 0
      <3>1. Fits(0)
        <4>1. 0 \in Nat /\ \A i \in 1..0 : list[i] <= 0
          OBVIOUS
        <4> QED BY <4>1
      <3> HIDE DEF Fits
      <3> QED BY <2>2, <3>1
    <2>4. n - 1 \in 0..l /\ ~(n <= n - 1) /\ n \in 1..l
      BY <1>1, <2>2, <2>3
    <2>5. Fits(n - 1)
      <3>1. n - 1 \notin Bad
        <4> HIDE DEF Bad
        <4> QED BY <2>1, <2>4
      <3> QED BY <2>4, <3>1
    <2>6. PICK m \in Nat : \A i \in 1..(n - 1) : list[i] <= m
      BY <2>5
    <2>7. PICK u \in Nat : u >= m /\ u >= list[n]
      <3>1. PICK y \in Nat : y = list[n]
        BY <1>1, <2>4
      <3>2. \E u \in Nat : u >= m /\ u >= y
        <4>1. m + y \in Nat /\ m + y >= m /\ m + y >= y
          OBVIOUS
        <4> QED BY <4>1
      <3> QED BY <3>1, <3>2
    <2>8. ASSUME NEW i \in 1..n PROVE list[i] <= u
      <3>1. i \in 1..(n - 1) \/ i = n
        BY <2>4
      <3>2. PICK y \in Nat : y = list[i]
        BY <1>1, <2>4
      <3>3. CASE i \in 1..(n - 1)
        <4>1. y <= m
          BY <2>6, <3>2, <3>3
        <4> QED BY <2>7, <3>2, <4>1
      <3>4. CASE i = n
        BY <2>7, <3>2, <3>4
      <3> QED BY <3>1, <3>3, <3>4
    <2> QED BY <2>2, <2>8
  <1>3. Fits(l)
    <2>1. l \in 0..l
      BY <1>1
    <2> QED BY <1>2, <2>1
  <1> QED BY <1>3

\* Every position of a list has a figure of that rank.
LEMMA RankExists ==
    ASSUME NEW S \in SUBSET Nat, NEW list \in Seq(S), NEW k \in 1..Len(list)
    PROVE  Ranked(list, k) \in S
  <1> DEFINE D == DOMAIN list
             Under(v) == {i \in D : list[i] <= v}
             Below(v) == {i \in D : list[i] < v}
             V == {v \in Nat : k <= Cardinality(Under(v))}
             R == {list[i] : i \in D}
  <1>1. /\ D = 1..Len(list) /\ Len(list) \in Nat
        /\ \A i \in D : list[i] \in S /\ list[i] \in Nat
        /\ \A i \in 1..Len(list) : list[i] \in Nat
    <2>1. DOMAIN list = 1..Len(list) /\ Len(list) \in Nat
      OBVIOUS
    <2>2. \A i \in 1..Len(list) : list[i] \in S
      OBVIOUS
    <2>3. \A x \in S : x \in Nat
      OBVIOUS
    <2> QED BY <2>1, <2>2, <2>3
  <1>2. IsFiniteSet(D) /\ Cardinality(D) = Len(list)
    <2> HIDE DEF D
    <2>1. 1 \in Int /\ Len(list) \in Int
      BY <1>1
    <2> QED BY <1>1, <2>1, FS_Interval
  <1>3. ASSUME NEW v
        PROVE  /\ IsFiniteSet(Under(v)) /\ Cardinality(Under(v)) \in Nat
               /\ IsFiniteSet(Below(v)) /\ Cardinality(Below(v)) \in Nat
    <2>1. Under(v) \subseteq D /\ Below(v) \subseteq D
      OBVIOUS
    <2> HIDE DEF D, Under, Below
    <2> QED BY <1>2, <2>1, FS_Subset, FS_CardinalityType
  <1>4. PICK top \in Nat : top \in V
    <2>0. PICK top \in Nat : \A i \in 1..Len(list) : list[i] <= top
      <3> HIDE DEF D
      <3> QED BY <1>1, Bounded
    <2>1. Under(top) = D
      BY <1>1, <2>0
    <2>2. k <= Cardinality(D)
      BY <1>2
    <2> QED BY <2>1, <2>2
  <1>5. PICK v \in V : \A w \in V : v <= w
    <2>1. V \in SUBSET Nat /\ V # {}
      BY <1>4
    <2> HIDE DEF V
    <2> QED BY <2>1, Least
  <1>6. v \in Nat /\ k <= Cardinality(Under(v))
    OBVIOUS
  <1>7. Cardinality(Below(v)) < k
    <2>1. CASE v = 0
      <3>1. Below(v) = {}
        BY <1>1, <2>1
      <3>2. Cardinality(Below(v)) = 0
        <4> HIDE DEF Below
        <4> QED BY <3>1, FS_EmptySet
      <3> QED BY <3>2
    <2>2. CASE v > 0
      <3>1. v - 1 \in Nat /\ ~(v <= v - 1)
        BY <1>6, <2>2
      <3>2. v - 1 \notin V
        <4> HIDE DEF V
        <4> QED BY <1>5, <3>1
      <3>3. ~(k <= Cardinality(Under(v - 1)))
        BY <3>1, <3>2
      <3>4. Under(v - 1) = Below(v)
        BY <1>1, <1>6
      <3>5. Cardinality(Below(v)) \in Nat
        BY <1>3
      <3> HIDE DEF Under, Below, V
      <3> QED BY <3>3, <3>4, <3>5
    <2> QED BY <1>6, <2>1, <2>2
  <1>8. v \in R
    <2>1. ASSUME v \notin R PROVE FALSE
      <3>1. Under(v) = Below(v)
        BY <1>1, <1>6, <2>1
      <3>2. Cardinality(Below(v)) \in Nat
        BY <1>3
      <3> HIDE DEF Under, Below, V, R
      <3> QED BY <1>6, <1>7, <3>1, <3>2
    <2> QED BY <2>1
  <1>9. Ranked(list, k) \in R
    <2>1. \E u \in R : Cardinality(Below(u)) < k /\ k <= Cardinality(Under(u))
      <3> HIDE DEF Under, Below, V, R
      <3> QED BY <1>6, <1>7, <1>8
    <2>2. Ranked(list, k) = CHOOSE u \in R : Cardinality(Below(u)) < k /\ k <= Cardinality(Under(u))
      BY DEF Ranked
    <2> HIDE DEF Under, Below, R
    <2> QED BY <2>1, <2>2
  <1>10. R \subseteq S
    BY <1>1
  <1> QED BY <1>9, <1>10

\* The median lies where the figures do.
LEMMA MedianType ==
    ASSUME NEW S \in SUBSET Nat, NEW list \in Seq(S)
    PROVE  Median2(list) \in Nat
  <1>1. PICK n \in Nat : n = Len(list)
    OBVIOUS
  <1>2. CASE n = 0
    BY <1>1, <1>2 DEF Median2
  <1>3. CASE n > 0
    <2>1. PICK p, q : p = (n + 1) \div 2 /\ q = (n + 2) \div 2
      OBVIOUS
    <2>2. p \in 1..n /\ q \in 1..n
      BY <1>3, <2>1
    <2>3. Ranked(list, p) \in S /\ Ranked(list, q) \in S
      BY <1>1, <2>2, RankExists
    <2>4. Ranked(list, p) \in Nat /\ Ranked(list, q) \in Nat
      <3>1. \A v \in S : v \in Nat
        OBVIOUS
      <3> QED BY <2>3, <3>1, Zenon
    <2>5. Median2(list) = Ranked(list, p) + Ranked(list, q)
      BY <1>1, <1>3, <2>1 DEF Median2
    <2> QED BY <2>4, <2>5
  <1> QED BY <1>2, <1>3

-----------------------------------------------------------------------------
CalRow == [threads : Nat \ {0}, server : Nat, client : Nat, optimal : BOOLEAN]

\* What is in a list of rows.
LEMMA RowsAre ==
    ASSUME NEW rs \in Seq(CalRow)
    PROVE  /\ DOMAIN rs = 1..Len(rs) /\ Len(rs) \in Nat
           /\ \A i \in DOMAIN rs : /\ i \in Nat /\ i >= 1
                                   /\ rs[i].server \in Nat /\ rs[i].threads \in Nat \ {0}
                                   /\ rs[i].optimal \in BOOLEAN
  <1>1. \A i \in DOMAIN rs : rs[i] \in CalRow /\ i \in Nat /\ i >= 1
    OBVIOUS
  <1> QED BY <1>1 DEF CalRow

\* t is the thread count of the first optimal row.
FirstOptimal(rs, t) ==
    \E i \in 1..Len(rs) :
        rs[i].optimal /\ t = rs[i].threads /\ \A j \in 1..(i - 1) : ~rs[j].optimal
NoOptimal(rs) == \A i \in 1..Len(rs) : ~rs[i].optimal

\* The choice while the rows are made, and the one that is announced.
ChoiceInv ==
    /\ csv = <<>> => \/ chosen # 0 /\ FirstOptimal(calRows, chosen)
                     \/ chosen = 0 /\ NoOptimal(calRows)
    /\ csv # <<>> => /\ csv = calRows /\ Len(calRows) = Len(THREAD_COUNTS)
                     /\ \/ FirstOptimal(csv, chosen)
                        \/ NoOptimal(csv) /\ chosen = csv[BestRow(csv)].threads

CalTypeOK ==
    /\ trials \in Seq(ServerUtils \X ClientUtils)
    /\ calRows \in Seq(CalRow) /\ Len(calRows) <= Len(THREAD_COUNTS)
    /\ DOMAIN used = Readers

CalInv == CalTypeOK /\ ChoiceInv

\* A rounded figure is a number.
LEMMA Rounding ==
    ASSUME NEW d \in Nat
    PROVE  Round2(d) \in Nat
  BY DEF Round2

\* The row that is judged.
LEMMA RowType ==
    ASSUME CalInv, Len(calRows) < Len(THREAD_COUNTS)
    PROVE  LET server == Median2([i \in DOMAIN trials |-> trials[i][1]])
               client == Median2([i \in DOMAIN trials |-> trials[i][2]])
           IN  [threads |-> Threads, server |-> Round2(server),
                client |-> Round2(client), optimal |-> Optimal(server, client)] \in CalRow
  <1> DEFINE ss == [i \in DOMAIN trials |-> trials[i][1]]
             cs == [i \in DOMAIN trials |-> trials[i][2]]
  <1>1. ss \in Seq(ServerUtils) /\ cs \in Seq(ClientUtils)
    <2>1. DOMAIN trials = 1..Len(trials) /\ Len(trials) \in Nat
      BY DEF CalInv, CalTypeOK
    <2>2. \A i \in DOMAIN trials : trials[i] \in ServerUtils \X ClientUtils
      BY DEF CalInv, CalTypeOK
    <2>3. \A i \in DOMAIN trials : trials[i][1] \in ServerUtils /\ trials[i][2] \in ClientUtils
      BY <2>2
    <2> QED BY <2>1, <2>3
  <1>2. ServerUtils \in SUBSET Nat /\ ClientUtils \in SUBSET Nat
    BY CalibrationAssumption
  <1>3. Round2(Median2(ss)) \in Nat /\ Round2(Median2(cs)) \in Nat
    <2> HIDE DEF ss, cs
    <2>1. Median2(ss) \in Nat /\ Median2(cs) \in Nat
      BY <1>1, <1>2, MedianType
    <2> QED BY <2>1, Rounding
  <1>4. Threads \in Nat \ {0}
    BY CalibrationAssumption DEF CalInv, CalTypeOK, Threads
  <1>5. Optimal(Median2(ss), Median2(cs)) \in BOOLEAN
    BY DEF Optimal
  <1> HIDE DEF ss, cs
  <1>6. [threads |-> Threads, server |-> Round2(Median2(ss)), client |-> Round2(Median2(cs)),
         optimal |-> Optimal(Median2(ss), Median2(cs))] \in CalRow
    BY <1>3, <1>4, <1>5 DEF CalRow
  <1> QED BY <1>6 DEF ss, cs

\* A row is added to the others.
LEMMA RowJudged ==
    ASSUME NEW rs \in Seq(CalRow), NEW row \in CalRow, NEW t,
           \/ t # 0 /\ FirstOptimal(rs, t)
           \/ t = 0 /\ NoOptimal(rs),
           NEW u, u = IF row.optimal /\ t = 0 THEN row.threads ELSE t
    PROVE  \/ u # 0 /\ FirstOptimal(Append(rs, row), u)
           \/ u = 0 /\ NoOptimal(Append(rs, row))
  <1> DEFINE R == Append(rs, row)
  <1>1. /\ Len(rs) \in Nat /\ Len(R) = Len(rs) + 1 /\ R[Len(rs) + 1] = row
        /\ \A i \in 1..Len(rs) : R[i] = rs[i]
        /\ row.threads # 0 /\ row.optimal \in BOOLEAN
    BY DEF CalRow
  <1> HIDE DEF R
  <1>2. CASE t # 0
    <2>1. PICK i \in 1..Len(rs) :
             rs[i].optimal /\ t = rs[i].threads /\ \A j \in 1..(i - 1) : ~rs[j].optimal
      BY <1>2 DEF FirstOptimal
    <2>2. i \in 1..Len(R) /\ R[i] = rs[i] /\ \A j \in 1..(i - 1) : R[j] = rs[j]
      BY <1>1
    <2>3. FirstOptimal(R, t)
      BY <2>1, <2>2 DEF FirstOptimal
    <2> QED BY <1>2, <2>3 DEF R
  <1>3. CASE t = 0 /\ ~row.optimal
    <2>1. NoOptimal(R)
      <3>1. \A i \in 1..Len(R) : i \in 1..Len(rs) \/ i = Len(rs) + 1
        BY <1>1
      <3> QED BY <1>1, <1>3, <3>1 DEF NoOptimal
    <2> QED BY <1>3, <2>1 DEF R
  <1>4. CASE t = 0 /\ row.optimal
    <2>1. FirstOptimal(R, row.threads)
      <3>1. Len(rs) + 1 \in 1..Len(R) /\ (Len(rs) + 1) - 1 = Len(rs)
        BY <1>1
      <3>2. \A j \in 1..Len(rs) : ~R[j].optimal
        BY <1>1, <1>4 DEF NoOptimal
      <3> QED BY <1>1, <1>4, <3>1, <3>2 DEF FirstOptimal
    <2> QED BY <1>1, <1>4, <2>1 DEF R
  <1> QED BY <1>2, <1>3, <1>4

\* A list of rows has a first of the greatest utilisation, ...
First(rs, i) ==
    /\ i \in DOMAIN rs
    /\ \A j \in DOMAIN rs : rs[j].server <= rs[i].server
    /\ \A j \in 1..(i - 1) : rs[j].server < rs[i].server

\* Such a row there is, ...
LEMMA FirstExists ==
    ASSUME NEW rs \in Seq(CalRow), rs # <<>>
    PROVE  \E i \in DOMAIN rs : First(rs, i)
  <1> DEFINE B == {m \in Nat : \A j \in DOMAIN rs : rs[j].server <= m}
             figures == [j \in 1..Len(rs) |-> rs[j].server]
  <1>1. /\ DOMAIN rs = 1..Len(rs) /\ Len(rs) \in Nat
        /\ \A j \in DOMAIN rs : rs[j].server \in Nat
    BY RowsAre
  <1>2. PICK m \in B : \A l \in B : m <= l
    <2>1. \A j \in 1..Len(rs) : figures[j] \in Nat
      BY <1>1
    <2>2. PICK u \in Nat : \A j \in 1..Len(rs) : figures[j] <= u
      <3> HIDE DEF figures
      <3> QED BY <1>1, <2>1, Bounded
    <2>3. u \in B
      BY <1>1, <2>1, <2>2
    <2>4. B \in SUBSET Nat /\ B # {}
      BY <2>3
    <2> HIDE DEF B
    <2> QED BY <2>4, Least
  <1>3. m \in Nat /\ \A j \in DOMAIN rs : rs[j].server <= m
    OBVIOUS
  <1> DEFINE T == {i \in DOMAIN rs : rs[i].server = m}
  <1>4. T # {}
    <2>1. ASSUME T = {} PROVE FALSE
      <3>1. \A j \in DOMAIN rs : rs[j].server <= m - 1
        BY <1>1, <1>3, <2>1
      <3>2. 1 \in DOMAIN rs
        OBVIOUS
      <3>3. m - 1 \in Nat
        BY <1>1, <1>3, <3>1, <3>2
      <3>4. m - 1 \in B
        BY <3>1, <3>3
      <3>5. ~(m <= m - 1)
        BY <1>3
      <3> HIDE DEF B
      <3> QED BY <1>2, <3>4, <3>5
    <2> QED BY <2>1
  <1>5. PICK i \in T : \A j \in T : i <= j
    <2>1. T \in SUBSET Nat
      OBVIOUS
    <2> HIDE DEF T
    <2> QED BY <1>4, <2>1, Least
  <1>6. ASSUME NEW j \in 1..(i - 1) PROVE rs[j].server < rs[i].server
    <2>1. j \in DOMAIN rs /\ ~(i <= j)
      OBVIOUS
    <2>2. rs[j].server # m
      BY <1>5, <2>1
    <2> QED BY <1>1, <1>3, <2>1, <2>2
  <1> QED BY <1>3, <1>6 DEF First

\* ... and one only.
LEMMA FirstIsOne ==
    ASSUME NEW rs \in Seq(CalRow), NEW i, NEW k, First(rs, i), First(rs, k)
    PROVE  i = k
  <1>1. /\ i \in Nat /\ k \in Nat /\ i \in DOMAIN rs /\ k \in DOMAIN rs /\ i >= 1 /\ k >= 1
        /\ rs[i].server \in Int /\ rs[k].server \in Int
    BY RowsAre DEF First
  <1>2. rs[i].server <= rs[k].server /\ rs[k].server <= rs[i].server
    BY <1>1 DEF First
  <1>3. ~(i < k)
    <2>1. i < k => i \in 1..(k - 1)
      BY <1>1
    <2> QED BY <1>1, <1>2, <2>1 DEF First
  <1>4. ~(k < i)
    <2>1. k < i => k \in 1..(i - 1)
      BY <1>1
    <2> QED BY <1>1, <1>2, <2>1 DEF First
  <1> QED BY <1>1, <1>3, <1>4

\* Both ways of looking for it find it.
LEMMA FirstFound ==
    ASSUME NEW rs \in Seq(CalRow), rs # <<>>, \E i \in DOMAIN rs : rs[i].server # 0,
           NEW top, top = {i \in DOMAIN rs :
                             /\ rs[i].server > 0
                             /\ \A j \in DOMAIN rs : rs[j].server <= rs[i].server}
    PROVE  top # {} /\ (CHOOSE i \in top : \A j \in top : i <= j) = BestRow(rs)
  <1>1. PICK i \in DOMAIN rs : First(rs, i)
    BY FirstExists
  <1>2. BestRow(rs) = i
    <2>1. \A k \in DOMAIN rs : First(rs, k) => k = i
      BY <1>1, FirstIsOne
    <2> QED BY <1>1, <2>1 DEF BestRow, First
  <1>3. \A j \in DOMAIN rs : rs[j].server \in Nat /\ j \in Nat /\ j >= 1
    BY RowsAre
  <1>4. i \in top
    BY <1>1, <1>3 DEF First
  <1>5. \A j \in top : i <= j
    <2>1. ASSUME NEW j \in top, j < i PROVE FALSE
      <3>1. j \in 1..(i - 1) /\ rs[i].server <= rs[j].server
        BY <1>1, <1>3, <2>1
      <3> QED BY <1>1, <1>3, <3>1 DEF First
    <2> QED BY <1>3, <2>1
  <1>6. \A k \in top : (\A j \in top : k <= j) => k = i
    BY <1>3, <1>4, <1>5
  <1>7. (CHOOSE k \in top : \A j \in top : k <= j) = i
    BY <1>4, <1>5, <1>6
  <1> QED BY <1>2, <1>4, <1>7

\* What a reader takes from the file is what was announced.
LEMMA ReaderTakes ==
    ASSUME CalInv, csv # <<>>, \A i \in DOMAIN csv : ~Borderline(csv[i]),
           \E i \in DOMAIN csv : csv[i].server # 0
    PROVE  ReadThreads(csv) = chosen
  <1> DEFINE opt == {i \in DOMAIN csv : Optimal(csv[i].server, csv[i].client)}
             top == {i \in DOMAIN csv :
                        /\ csv[i].server > 0
                        /\ \A j \in DOMAIN csv : csv[j].server <= csv[i].server}
  <1>1. csv \in Seq(CalRow) /\ DOMAIN csv = 1..Len(csv) /\ Len(csv) \in Nat
    BY DEF CalInv, CalTypeOK, ChoiceInv
  <1>2. \A i \in DOMAIN csv : i \in opt <=> csv[i].optimal
    BY DEF Borderline
  <1>3. ReadThreads(csv) =
            IF opt # {} THEN csv[CHOOSE i \in opt : \A j \in opt : i <= j].threads
            ELSE IF top # {} THEN csv[CHOOSE i \in top : \A j \in top : i <= j].threads
            ELSE DefaultThreads
    BY DEF ReadThreads
  <1>4. CASE FirstOptimal(csv, chosen)
    <2>1. PICK i \in 1..Len(csv) :
             csv[i].optimal /\ chosen = csv[i].threads /\ \A j \in 1..(i - 1) : ~csv[j].optimal
      BY <1>4 DEF FirstOptimal
    <2>2. i \in opt
      BY <1>1, <1>2, <2>1
    <2>3. ASSUME NEW j \in opt PROVE i <= j /\ j \in Nat
      <3>1. j \in 1..Len(csv) /\ csv[j].optimal
        BY <1>1, <1>2
      <3>2. j \notin 1..(i - 1)
        BY <2>1, <3>1
      <3> QED BY <1>1, <3>1, <3>2
    <2> HIDE DEF opt, top
    <2>4. (CHOOSE k \in opt : \A j \in opt : k <= j) = i
      <3>1. \A k \in opt : (\A j \in opt : k <= j) => k = i
        BY <1>1, <2>2, <2>3
      <3> QED BY <2>2, <2>3, <3>1
    <2> QED BY <1>3, <2>1, <2>2, <2>4
  <1>5. CASE NoOptimal(csv) /\ chosen = csv[BestRow(csv)].threads
    <2>1. opt = {}
      BY <1>1, <1>2, <1>5 DEF NoOptimal
    <2>2. top # {} /\ (CHOOSE i \in top : \A j \in top : i <= j) = BestRow(csv)
      <3> HIDE DEF opt
      <3> QED BY <1>1, FirstFound
    <2> HIDE DEF opt, top
    <2> QED BY <1>3, <1>5, <2>1, <2>2
  <1> QED BY <1>4, <1>5 DEF CalInv, ChoiceInv

\* A calibration makes and keeps the rows of its choice.
LEMMA CalStep ==
    ASSUME CalInv, [CalNext]_calVars
    PROVE  CalInv'
  <1>1. CASE CalTrial
    <2>1. trials' \in Seq(ServerUtils \X ClientUtils)
      <3>1. trials' = trials \/ \E e \in ServerUtils \X ClientUtils : trials' = Append(trials, e)
        BY <1>1 DEF CalTrial
      <3> QED BY <3>1 DEF CalInv, CalTypeOK
    <2>2. UNCHANGED <<calRows, chosen, csv, used>>
      BY <1>1 DEF CalTrial
    <2> QED BY <2>1, <2>2 DEF CalInv, CalTypeOK, ChoiceInv
  <1>2. CASE Judge
    <2> DEFINE server == Median2([i \in DOMAIN trials |-> trials[i][1]])
               client == Median2([i \in DOMAIN trials |-> trials[i][2]])
               row == [threads |-> Threads, server |-> Round2(server),
                       client |-> Round2(client), optimal |-> Optimal(server, client)]
    <2>1. /\ Len(calRows) < Len(THREAD_COUNTS) /\ trials' = <<>>
          /\ chosen' = IF Optimal(server, client) /\ chosen = 0 THEN Threads ELSE chosen
          /\ calRows' = Append(calRows, row) /\ csv' = csv /\ used' = used
      BY <1>2 DEF Judge
    <2>2. row \in CalRow
      BY <2>1, RowType
    <2>3. row.optimal = Optimal(server, client) /\ row.threads = Threads
      OBVIOUS
    <2> HIDE DEF row, server, client
    <2>4. calRows \in Seq(CalRow) /\ Len(calRows) \in Nat /\ Len(THREAD_COUNTS) \in Nat
      BY CalibrationAssumption DEF CalInv, CalTypeOK
    <2>5. csv = <<>>
      BY <2>1, <2>4 DEF CalInv, ChoiceInv
    <2>6. \/ chosen' # 0 /\ FirstOptimal(calRows', chosen')
          \/ chosen' = 0 /\ NoOptimal(calRows')
      <3>1. chosen' = IF row.optimal /\ chosen = 0 THEN row.threads ELSE chosen
        BY <2>1, <2>3
      <3>2. \/ chosen # 0 /\ FirstOptimal(calRows, chosen)
            \/ chosen = 0 /\ NoOptimal(calRows)
        BY <2>5 DEF CalInv, ChoiceInv
      <3>3. \/ chosen' # 0 /\ FirstOptimal(Append(calRows, row), chosen')
            \/ chosen' = 0 /\ NoOptimal(Append(calRows, row))
        BY <2>2, <2>4, <3>1, <3>2, RowJudged
      <3> QED BY <2>1, <3>3
    <2>7. CalTypeOK'
      <3>1. calRows' \in Seq(CalRow) /\ Len(calRows') = Len(calRows) + 1
        BY <2>1, <2>2, <2>4
      <3> QED BY <2>1, <2>4, <3>1 DEF CalInv, CalTypeOK
    <2>8. ChoiceInv'
      BY <2>1, <2>5, <2>6 DEF ChoiceInv
    <2> QED BY <2>7, <2>8 DEF CalInv
  <1>3. CASE SaveCalibration
    <2>1. /\ Len(calRows) = Len(THREAD_COUNTS) /\ csv = <<>> /\ csv' = calRows
          /\ chosen' = IF chosen # 0 THEN chosen ELSE calRows[BestRow(calRows)].threads
          /\ calRows' = calRows /\ trials' = trials /\ used' = used
      BY <1>3 DEF SaveCalibration
    <2>2. csv' # <<>>
      BY <2>1, CalibrationAssumption DEF CalInv, CalTypeOK
    <2>3. \/ FirstOptimal(csv', chosen')
          \/ NoOptimal(csv') /\ chosen' = csv'[BestRow(csv')].threads
      BY <2>1 DEF CalInv, ChoiceInv
    <2> QED BY <2>1, <2>2, <2>3 DEF CalInv, CalTypeOK, ChoiceInv
  <1>4. CASE \E r \in Readers : StartReader(r)
    BY <1>4 DEF StartReader, CalInv, CalTypeOK, ChoiceInv
  <1>5. CASE UNCHANGED calVars
    BY <1>5 DEF calVars, CalInv, CalTypeOK, ChoiceInv
  <1> QED BY <1>1, <1>2, <1>3, <1>4, <1>5 DEF CalNext

\* What a reader of the calibration uses, at the step at which it starts.
Taken ==
    \A r \in Readers : used'[r] # used[r] =>
        \/ csv = <<>> /\ used'[r] = DefaultThreads
        \/ csv # <<>> /\ used'[r] = chosen
        \/ \E i \in DOMAIN csv : Borderline(csv[i])
        \/ csv # <<>> /\ \A i \in DOMAIN csv : csv[i].server = 0

\* A step changes what a reader uses only in this way.
LEMMA ReadStep ==
    ASSUME CalInv, [CalNext]_calVars
    PROVE  [Taken]_used
  <1>1. ASSUME NEW r \in Readers, StartReader(r)
        PROVE  Taken
    <2>1. used' = [used EXCEPT ![r] = ReadThreads(csv)] /\ DOMAIN used = Readers
      BY <1>1 DEF StartReader, CalInv, CalTypeOK
    <2>2. used'[r] = ReadThreads(csv) /\ \A q \in Readers : q # r => used'[q] = used[q]
      BY <2>1
    <2>3. CASE csv = <<>>
      <3>1. DOMAIN csv = {}
        BY <2>3
      <3>2. ReadThreads(csv) = DefaultThreads
        BY <3>1 DEF ReadThreads
      <3> QED BY <2>2, <2>3, <3>2 DEF Taken
    <2>4. CASE csv # <<>>
      BY <2>2, <2>4, ReaderTakes DEF Taken
    <2> QED BY <2>3, <2>4
  <1>2. (\A r \in Readers : ~StartReader(r)) => UNCHANGED used
    BY DEF CalNext, CalTrial, Judge, SaveCalibration, calVars
  <1> QED BY <1>1, <1>2

\* Every script that starts after the calibration takes the very thread count
\* that the calibration announced, unless a figure lay within rounding of a
\* threshold or nothing was measured: for all thread counts, numbers of trials
\* and measured utilisations.
THEOREM ReadersAlwaysAgree == CalSpec => ReadersAgree
  <1>1. CalInit => CalInv
    BY CalibrationAssumption DEF CalInit, CalInv, CalTypeOK, ChoiceInv, NoOptimal
  <1>2. CalInv /\ [CalNext]_calVars => CalInv'
    BY CalStep
  <1>3. CalInv /\ [CalNext]_calVars => [Taken]_used
    BY ReadStep
  <1>4. CalInit /\ [][CalNext]_calVars => [][Taken]_used
    BY <1>1, <1>2, <1>3, PTL
  <1> QED BY <1>4 DEF CalSpec, ReadersAgree, Taken

-----------------------------------------------------------------------------
(* The table of the sweep and the place where the curves cross.            *)

Levels == Len(IDLE_LEVELS)
Cells == Len(SERVERS) * Levels

Row == [server : STRING, idle_conns : Nat, median_req_s : Nat]

\* The rows so far: one for each server and level, in their order.
RowsInv ==
    /\ results \in Seq(Row)
    /\ Len(results) <= Cells
    /\ \A i \in 1..Len(results) :
          /\ 1 + ((i - 1) \div Levels) \in DOMAIN SERVERS
          /\ 1 + ((i - 1) % Levels) \in DOMAIN IDLE_LEVELS
          /\ results[i].server = SERVERS[1 + ((i - 1) \div Levels)]
          /\ results[i].idle_conns = IDLE_LEVELS[1 + ((i - 1) % Levels)]

\* The place of a row in the table.
LEMMA Place ==
    ASSUME NEW n \in Nat, NEW m \in Nat, NEW i \in Nat, i < m * n
    PROVE  /\ i \div n \in 0..(m - 1) /\ i % n \in 0..(n - 1)
           /\ i = (i \div n) * n + (i % n)
  <1>1. n > 0
    <2>1. n = 0 => m * n = 0
      OBVIOUS
    <2> QED BY <2>1
  <1>2. i = (i \div n) * n + (i % n) /\ i % n \in 0..(n - 1) /\ i \div n \in Int
    BY <1>1
  <1>3. PICK q, r : q = i \div n /\ r = i % n
    OBVIOUS
  <1>4. q \in Int /\ r \in 0..(n - 1) /\ i = q * n + r
    BY <1>2, <1>3
  <1>5. q >= 0
    <2>1. q < 0 => q * n <= 0 - n
      BY <1>1, <1>4
    <2> QED BY <1>1, <1>4, <2>1
  <1>6. q < m
    <2>1. q >= m => q * n >= m * n
      BY <1>1, <1>4
    <2> QED BY <1>1, <1>4, <2>1
  <1> QED BY <1>2, <1>3, <1>4, <1>5, <1>6

\* ... and the row of a place.
LEMMA PlaceOf ==
    ASSUME NEW n \in Nat, NEW q \in Nat, NEW r \in 0..(n - 1)
    PROVE  (q * n + r) \div n = q /\ (q * n + r) % n = r
  <1>1. PICK i : i = q * n + r
    OBVIOUS
  <1>2. i \in Nat /\ n > 0
    BY <1>1
  <1>3. PICK u, v : u = i \div n /\ v = i % n
    OBVIOUS
  <1>4. u \in Int /\ v \in 0..(n - 1) /\ i = u * n + v
    BY <1>2, <1>3
  <1>5. u = q
    <2>1. u > q => u * n >= q * n + n
      BY <1>2, <1>4
    <2>2. u < q => q * n >= u * n + n
      BY <1>2, <1>4
    <2>3. u * n \in Int /\ q * n \in Int
      BY <1>4
    <2> QED BY <1>1, <1>4, <2>1, <2>2, <2>3
  <1> QED BY <1>1, <1>3, <1>4, <1>5

\* The k-th of a range of numbers.
LEMMA NthOf ==
    ASSUME NEW a \in Nat, NEW n \in Nat, NEW k \in 1..n
    PROVE  (CHOOSE i \in (a + 1)..(a + n) :
               Cardinality({j \in (a + 1)..(a + n) : j <= i}) = k) = a + k
  <1> DEFINE R == (a + 1)..(a + n)
  <1>1. ASSUME NEW i \in R
        PROVE  Cardinality({j \in R : j <= i}) = i - a
    <2>1. {j \in R : j <= i} = (a + 1)..i
      OBVIOUS
    <2>2. Cardinality((a + 1)..i) = IF a + 1 > i THEN 0 ELSE i - (a + 1) + 1
      BY FS_Interval
    <2>3. i - a = i - (a + 1) + 1 /\ ~(a + 1 > i)
      OBVIOUS
    <2> HIDE DEF R
    <2> QED BY <2>1, <2>2, <2>3
  <1>2. a + k \in R
    OBVIOUS
  <1>3. \A i \in R : Cardinality({j \in R : j <= i}) = k <=> i = a + k
    BY <1>1
  <1> HIDE DEF R
  <1>4. (CHOOSE i \in R : Cardinality({j \in R : j <= i}) = k) = a + k
    BY <1>2, <1>3
  <1> QED BY <1>4 DEF R

\* The rows of place s in a table of m times n.
LEMMA RowsOf ==
    ASSUME NEW n \in Nat, NEW m \in Nat, NEW s \in 1..m
    PROVE  /\ (s - 1) * n \in Nat /\ (s - 1) * n + n <= m * n /\ m * n \in Nat
           /\ \A i \in 1..(m * n) :
                 /\ 1 + ((i - 1) \div n) \in 1..m /\ 1 + ((i - 1) % n) \in 1..n
                 /\ 1 + ((i - 1) \div n) = s <=> i \in ((s - 1) * n + 1)..((s - 1) * n + n)
           /\ \A k \in 1..n : 1 + (((s - 1) * n + k - 1) % n) = k
  <1>1. PICK p, a : p = s - 1 /\ a = p * n
    OBVIOUS
  <1>2. p \in Nat /\ a \in Nat /\ a + n <= m * n /\ m * n \in Nat
    <2>1. p \in Nat /\ p + 1 <= m
      BY <1>1
    <2>2. p * n \in Nat /\ p * n + n <= m * n /\ m * n \in Nat
      BY <2>1
    <2> QED BY <1>1, <2>1, <2>2
  <1>3. ASSUME NEW i \in 1..(m * n)
        PROVE  /\ 1 + ((i - 1) \div n) \in 1..m /\ 1 + ((i - 1) % n) \in 1..n
               /\ 1 + ((i - 1) \div n) = s <=> i \in (a + 1)..(a + n)
    <2>1. PICK j, q, r : j = i - 1 /\ q = j \div n /\ r = j % n
      OBVIOUS
    <2>2. j \in Nat /\ j < m * n /\ i = j + 1
      BY <1>2, <2>1
    <2>3. q \in 0..(m - 1) /\ r \in 0..(n - 1) /\ j = q * n + r
      BY <2>1, <2>2, Place
    <2>4. q = p => i \in (a + 1)..(a + n)
      <3>1. q = p => j = a + r
        BY <1>1, <2>3
      <3> QED BY <1>2, <2>2, <2>3, <3>1
    <2>5. i \in (a + 1)..(a + n) => q = p
      <3>1. ASSUME i \in (a + 1)..(a + n) PROVE q = p
        <4>1. PICK t : t = j - a
          OBVIOUS
        <4>2. t \in 0..(n - 1) /\ j = a + t
          BY <1>2, <2>2, <3>1, <4>1
        <4>3. j = p * n + t
          BY <1>1, <4>2
        <4>4. (p * n + t) \div n = p
          BY <1>2, <4>2, PlaceOf
        <4> QED BY <2>1, <4>3, <4>4
      <3> QED BY <3>1
    <2>6. 1 + q \in 1..m /\ 1 + r \in 1..n /\ (1 + q = s <=> q = p)
      BY <1>1, <2>3
    <2> QED BY <2>1, <2>4, <2>5, <2>6
  <1>4. ASSUME NEW k \in 1..n
        PROVE  1 + ((a + k - 1) % n) = k
    <2>1. k - 1 \in 0..(n - 1)
      OBVIOUS
    <2>2. (p * n + (k - 1)) % n = k - 1
      BY <1>2, <2>1, PlaceOf
    <2>3. a + k - 1 = p * n + (k - 1)
      BY <1>1, <1>2
    <2> QED BY <2>1, <2>2, <2>3
  <1> QED BY <1>1, <1>2, <1>3, <1>4

\* The sizes of the table.
LEMMA Sizes ==
    /\ Levels \in Nat /\ Len(SERVERS) \in Nat /\ Cells = Len(SERVERS) * Levels
    /\ DOMAIN SERVERS = 1..Len(SERVERS) /\ DOMAIN IDLE_LEVELS = 1..Levels
  BY CrossoverAssumption DEF Levels, Cells

\* The levels are in the table of a server one after the other.
LEMMA CurveIs ==
    ASSUME RowsInv, Len(results) = Cells, NEW s \in DOMAIN SERVERS
    PROVE  /\ Len(Curve(SERVERS[s])) = Levels
           /\ \A k \in 1..Levels : /\ (s - 1) * Levels + k \in 1..Cells
                                   /\ Curve(SERVERS[s])[k] = results[(s - 1) * Levels + k]
  <1> DEFINE rows == {i \in DOMAIN results : results[i].server = SERVERS[s]}
  <1>1. PICK n, m, a, R : n = Levels /\ m = Len(SERVERS) /\ a = (s - 1) * n /\ R = (a + 1)..(a + n)
    OBVIOUS
  <1>2. /\ n \in Nat /\ m \in Nat /\ s \in 1..m /\ m * n = Cells
        /\ DOMAIN SERVERS = 1..m /\ DOMAIN results = 1..(m * n)
    BY <1>1, Sizes DEF RowsInv
  <1>3. /\ a \in Nat /\ a + n <= m * n /\ m * n \in Nat
        /\ \A i \in 1..(m * n) : 1 + ((i - 1) \div n) = s <=> i \in R
    <2>1. /\ (s - 1) * n \in Nat /\ (s - 1) * n + n <= m * n /\ m * n \in Nat
          /\ \A i \in 1..(m * n) :
                1 + ((i - 1) \div n) = s <=> i \in ((s - 1) * n + 1)..((s - 1) * n + n)
      BY <1>2, RowsOf
    <2> QED BY <1>1, <2>1, Zenon
  <1>4. ASSUME NEW i \in 1..(m * n)
        PROVE  results[i].server = SERVERS[s] <=> i \in R
    <2>1. PICK q : q = 1 + ((i - 1) \div n)
      OBVIOUS
    <2>2. results[i].server = SERVERS[q] /\ q \in DOMAIN SERVERS
      BY <1>1, <1>2, <2>1 DEF RowsInv
    <2>3. SERVERS[q] = SERVERS[s] <=> q = s
      BY <2>2, CrossoverAssumption
    <2> QED BY <1>3, <2>1, <2>2, <2>3
  <1>5. \A i \in R : i \in 1..(m * n)
    BY <1>1, <1>2, <1>3
  <1>6. rows = R
    BY <1>2, <1>4, <1>5
  <1>7. Cardinality(R) = n
    <2>1. a + 1 \in Int /\ a + n \in Int
      BY <1>2, <1>3
    <2>2. Cardinality(R) = IF a + 1 > a + n THEN 0 ELSE (a + n) - (a + 1) + 1
      BY <1>1, <2>1, FS_Interval
    <2> QED BY <1>2, <1>3, <2>2
  <1>8. Curve(SERVERS[s]) = [k \in 1..n |->
            results[CHOOSE i \in R : Cardinality({j \in R : j <= i}) = k]]
    <2>1. Curve(SERVERS[s]) = [k \in 1..Cardinality(rows) |->
              results[CHOOSE i \in rows : Cardinality({j \in rows : j <= i}) = k]]
      BY DEF Curve
    <2> HIDE DEF rows
    <2> QED BY <1>6, <1>7, <2>1
  <1>9. ASSUME NEW k \in 1..n
        PROVE  (CHOOSE i \in R : Cardinality({j \in R : j <= i}) = k) = a + k
    <2>1. (CHOOSE i \in (a + 1)..(a + n) :
               Cardinality({j \in (a + 1)..(a + n) : j <= i}) = k) = a + k
      BY <1>2, <1>3, NthOf
    <2> QED BY <1>1, <2>1, Zenon
  <1>10. Curve(SERVERS[s]) = [k \in 1..n |-> results[a + k]]
    <2> HIDE DEF rows
    <2> QED BY <1>8, <1>9
  <1>11. Len(Curve(SERVERS[s])) = n /\ \A k \in 1..n : Curve(SERVERS[s])[k] = results[a + k]
    BY <1>2, <1>10
  <1>12. \A k \in 1..n : a + k \in 1..(m * n)
    BY <1>2, <1>3
  <1> QED BY <1>1, <1>2, <1>11, <1>12

\* A curve is a sequence.
LEMMA CurveDomain ==
    ASSUME NEW name, NEW n \in Nat, Len(Curve(name)) = n, RowsInv
    PROVE  DOMAIN Curve(name) = 1..n
  <1>1. IsFiniteSet(DOMAIN results)
    BY FS_Interval DEF RowsInv
  <1>2. IsFiniteSet({i \in DOMAIN results : results[i].server = name})
    BY <1>1, FS_Subset
  <1>3. PICK c \in Nat : c = Cardinality({i \in DOMAIN results : results[i].server = name})
    BY <1>2, FS_CardinalityType
  <1>4. DOMAIN Curve(name) = 1..c
    BY <1>3 DEF Curve
  <1>5. Len(Curve(name)) = c
    BY <1>3, <1>4 DEF Curve
  <1> QED BY <1>4, <1>5

\* A server that was not swept has no curve.
LEMMA NoCurve ==
    ASSUME RowsInv, NEW name, \A s \in DOMAIN SERVERS : SERVERS[s] # name
    PROVE  Len(Curve(name)) = 0
  <1>1. {i \in DOMAIN results : results[i].server = name} = {}
    <2>1. ASSUME NEW i \in DOMAIN results PROVE results[i].server # name
      <3>1. PICK q : q = 1 + ((i - 1) \div Levels)
        OBVIOUS
      <3>2. i \in 1..Len(results)
        BY DEF RowsInv
      <3>3. results[i].server = SERVERS[q] /\ q \in DOMAIN SERVERS
        BY <3>1, <3>2 DEF RowsInv
      <3> QED BY <3>3
    <2> QED BY <2>1
  <1>2. Cardinality({i \in DOMAIN results : results[i].server = name}) = 0
    BY <1>1, FS_EmptySet
  <1>3. DOMAIN Curve(name) = 1..0
    BY <1>2 DEF Curve
  <1>4. Curve(name) = <<>>
    <2>1. 1..0 = {}
      OBVIOUS
    <2> QED BY <1>3, <2>1, <1>2 DEF Curve
  <1> QED BY <1>4

\* Both servers of the plot were swept.
Swept == {"server_poll", "epoll_et_server"} \subseteq {SERVERS[i] : i \in DOMAIN SERVERS}

\* The level of a row.
LEMMA LevelAt ==
    ASSUME NEW s \in DOMAIN SERVERS, NEW k \in 1..Levels, NEW i, i = (s - 1) * Levels + k
    PROVE  1 + ((i - 1) % Levels) = k
  <1>1. PICK n, p : n = Levels /\ p = s - 1
    OBVIOUS
  <1>2. n \in Nat /\ p \in Nat /\ k - 1 \in 0..(n - 1)
    BY <1>1, Sizes
  <1>3. i - 1 = p * n + (k - 1)
    <2>1. i = p * n + k /\ p * n \in Int
      BY <1>1, <1>2
    <2> QED BY <1>1, <1>2, <2>1, Sizes
  <1>4. (p * n + (k - 1)) % n = k - 1
    BY <1>2, PlaceOf
  <1> QED BY <1>1, <1>2, <1>3, <1>4

\* Their curves have a point for each level.
LEMMA Curves ==
    ASSUME RowsInv, Len(results) = Cells, Swept
    PROVE  /\ Len(p_y) = Levels /\ Len(e_y) = Levels
           /\ \A k \in 1..Levels : /\ p_y[k].idle_conns = IDLE_LEVELS[k]
                                   /\ Lead(k) \in Int
  <1>1. PICK p \in DOMAIN SERVERS, e \in DOMAIN SERVERS :
           SERVERS[p] = "server_poll" /\ SERVERS[e] = "epoll_et_server"
    BY DEF Swept
  <1>2. /\ Len(p_y) = Levels
        /\ \A k \in 1..Levels : /\ (p - 1) * Levels + k \in 1..Cells
                                /\ p_y[k] = results[(p - 1) * Levels + k]
    BY <1>1, CurveIs DEF p_y
  <1>3. /\ Len(e_y) = Levels
        /\ \A k \in 1..Levels : /\ (e - 1) * Levels + k \in 1..Cells
                                /\ e_y[k] = results[(e - 1) * Levels + k]
    BY <1>1, CurveIs DEF e_y
  <1>4. ASSUME NEW k \in 1..Levels
        PROVE  p_y[k].idle_conns = IDLE_LEVELS[k] /\ Lead(k) \in Int
    <2>1. PICK i, j : i = (p - 1) * Levels + k /\ j = (e - 1) * Levels + k
      OBVIOUS
    <2>2. /\ i \in 1..Len(results) /\ j \in 1..Len(results)
          /\ p_y[k] = results[i] /\ e_y[k] = results[j]
      BY <1>2, <1>3, <2>1
    <2>3. /\ results[i].median_req_s \in Nat /\ results[j].median_req_s \in Nat
          /\ results[i].idle_conns = IDLE_LEVELS[1 + ((i - 1) % Levels)]
      <3>1. \A l \in 1..Len(results) : results[l].median_req_s \in Nat
        <4>1. \A l \in 1..Len(results) : results[l] \in Row
          BY DEF RowsInv
        <4> QED BY <4>1 DEF Row
      <3>2. \A l \in 1..Len(results) : results[l].idle_conns = IDLE_LEVELS[1 + ((l - 1) % Levels)]
        BY DEF RowsInv
      <3> QED BY <2>2, <3>1, <3>2
    <2>4. 1 + ((i - 1) % Levels) = k
      BY <1>1, <2>1, LevelAt
    <2> QED BY <2>2, <2>3, <2>4 DEF Lead
  <1> QED BY <1>2, <1>3, <1>4

\* The levels are numbers, in increasing order.
LEMMA LevelsRise ==
    \A i, j \in 1..Levels : /\ IDLE_LEVELS[i] \in Nat
                            /\ i < j => IDLE_LEVELS[i] < IDLE_LEVELS[j]
  <1>1. IDLE_LEVELS \in Seq(Nat)
    BY CrossoverAssumption
  <1>2. DOMAIN IDLE_LEVELS = 1..Levels /\ \A i \in 1..Levels : IDLE_LEVELS[i] \in Nat
    BY <1>1 DEF Levels
  <1>3. \A i, j \in 1..Levels : i < j => IDLE_LEVELS[i] < IDLE_LEVELS[j]
    BY <1>2, CrossoverAssumption
  <1> QED BY <1>2, <1>3

\* At level j the same server is ahead as at the first, or neither is.
SameSide(j) ==
    /\ Lead(1) > 0 <=> Lead(j) > 0
    /\ Lead(1) < 0 <=> Lead(j) < 0

SearchInv ==
    /\ idx \in Nat
    /\ idx = 0 => cross = {}
    /\ idx > 0 => Len(results) = Cells
    /\ idx > 0 /\ Swept /\ Levels > 0 => idx <= Levels /\ \A j \in 1..idx : SameSide(j)
    /\ cross # {} => /\ Swept /\ idx < Levels
                     /\ Crosses(idx) /\ Denom(idx) # 0 /\ cross = {Interpolate(idx)}

CrossInv == RowsInv /\ SearchInv

\* A row is added.
LEMMA RowAdded ==
    ASSUME CrossInv, AddRow
    PROVE  CrossInv'
  <1>1. PICK y \in Rates :
           results' = Append(results,
               [server |-> SERVERS[1 + (Len(results) \div Levels)],
                idle_conns |-> IDLE_LEVELS[1 + (Len(results) % Levels)],
                median_req_s |-> y])
    BY DEF AddRow, Levels
  <1>2. PICK l, q, r, row :
           /\ l = Len(results) /\ q = 1 + (l \div Levels) /\ r = 1 + (l % Levels)
           /\ row = [server |-> SERVERS[q], idle_conns |-> IDLE_LEVELS[r], median_req_s |-> y]
    OBVIOUS
  <1>3. l \in Nat /\ l < Cells /\ results' = Append(results, row)
    BY <1>1, <1>2 DEF CrossInv, RowsInv, AddRow, Cells, Levels
  <1>4. q \in DOMAIN SERVERS /\ r \in DOMAIN IDLE_LEVELS
    <2>1. PICK n, m : n = Levels /\ m = Len(SERVERS)
      OBVIOUS
    <2>2. n \in Nat /\ m \in Nat /\ l < m * n
      BY <1>3, <2>1, Sizes
    <2>3. l \div n \in 0..(m - 1) /\ l % n \in 0..(n - 1)
      BY <1>3, <2>2, Place
    <2>4. q = 1 + (l \div n) /\ r = 1 + (l % n)
      BY <1>2, <2>1
    <2>5. q \in 1..m /\ r \in 1..n
      BY <2>2, <2>3, <2>4
    <2> QED BY <2>1, <2>5, Sizes
  <1>5. row \in Row
    BY <1>2, <1>4, CrossoverAssumption DEF Row
  <1>6. /\ results' \in Seq(Row)
        /\ Len(results') = l + 1 /\ results'[l + 1] = row
        /\ \A i \in 1..l : results'[i] = results[i]
    BY <1>2, <1>3, <1>5 DEF CrossInv, RowsInv
  <1>7. ASSUME NEW i \in 1..(l + 1)
        PROVE  /\ 1 + ((i - 1) \div Levels) \in DOMAIN SERVERS
               /\ 1 + ((i - 1) % Levels) \in DOMAIN IDLE_LEVELS
               /\ results'[i].server = SERVERS[1 + ((i - 1) \div Levels)]
               /\ results'[i].idle_conns = IDLE_LEVELS[1 + ((i - 1) % Levels)]
    <2>1. CASE i \in 1..l
      BY <1>2, <1>6, <2>1 DEF CrossInv, RowsInv
    <2>2. CASE i = l + 1
      <3>1. i - 1 = l
        BY <1>3, <2>2
      <3> QED BY <1>2, <1>4, <1>6, <2>2, <3>1
    <2>3. i \in 1..l \/ i = l + 1
      BY <1>3
    <2> QED BY <2>1, <2>2, <2>3
  <1>8. RowsInv'
    <2>1. l + 1 <= Cells
      BY <1>3, Sizes
    <2> QED BY <1>6, <1>7, <2>1 DEF RowsInv, Cells, Levels
  <1>9. idx' = 0 /\ cross' = {}
    BY <1>2, <1>3 DEF AddRow, CrossInv, SearchInv
  <1> QED BY <1>8, <1>9 DEF CrossInv, SearchInv

\* A step of plot_crossover() leaves the curves as they are.
LEMMA CurvesStay ==
    ASSUME results' = results
    PROVE  /\ p_y' = p_y /\ e_y' = e_y
           /\ \A i : /\ Lead(i)' = Lead(i) /\ SameSide(i)' = SameSide(i) /\ Crosses(i)' = Crosses(i)
                     /\ Denom(i)' = Denom(i) /\ Interpolate(i)' = Interpolate(i)
  BY DEF p_y, e_y, Curve, Lead, SameSide, Crosses, Denom, Interpolate

\* So do the rows.
LEMMA RowsStay ==
    ASSUME RowsInv, results' = results
    PROVE  RowsInv' /\ Swept' = Swept /\ Cells' = Cells /\ Levels' = Levels
  BY DEF RowsInv, Swept, Cells, Levels

\* The search begins, ...
LEMMA PlotStarted ==
    ASSUME CrossInv, StartPlot
    PROVE  CrossInv'
  <1>1. results' = results /\ idx' = 1 /\ cross' = {} /\ Len(results) = Cells
    BY DEF StartPlot, CrossInv, SearchInv, Cells, Levels
  <1>2. \A j \in 1..1 : SameSide(j)
    BY DEF SameSide
  <1> QED
    BY <1>1, <1>2, CurvesStay, RowsStay, Sizes DEF CrossInv, SearchInv

\* ... finds a crossing, ...
LEMMA CrossFound ==
    ASSUME CrossInv, Found
    PROVE  CrossInv'
  <1>1. /\ results' = results /\ idx' = idx /\ cross' = {Interpolate(idx)}
        /\ Searching /\ Crosses(idx) /\ Denom(idx) # 0
    BY DEF Found
  <1>2. Swept /\ idx > 0 /\ idx < Levels
    BY <1>1, Curves DEF Searching, Swept, CrossInv, SearchInv
  <1> QED
    BY <1>1, <1>2, CurvesStay, RowsStay DEF CrossInv, SearchInv

\* ... or goes on, with the same server ahead at the next level.
LEMMA SearchAdvanced ==
    ASSUME CrossInv, Advance
    PROVE  CrossInv'
  <1>1. /\ results' = results /\ idx' = idx + 1 /\ cross' = {} /\ cross = {}
        /\ Searching /\ ~(Crosses(idx) /\ Denom(idx) # 0)
    BY DEF Advance, Searching
  <1>2. Swept /\ idx > 0 /\ idx < Levels /\ Levels \in Nat /\ Len(results) = Cells /\ idx \in Nat
    BY <1>1, Curves, Sizes DEF Searching, Swept, CrossInv, SearchInv
  <1>3. Lead(1) \in Int /\ Lead(idx) \in Int /\ Lead(idx + 1) \in Int
    BY <1>2, Curves DEF CrossInv
  <1>4. SameSide(idx + 1)
    <2>1. SameSide(idx)
      BY <1>2 DEF CrossInv, SearchInv
    <2>2. PICK a, b, c : a = Lead(1) /\ b = Lead(idx) /\ c = Lead(idx + 1)
      OBVIOUS
    <2>3. (a > 0 <=> b > 0) /\ (a < 0 <=> b < 0)
      BY <2>1, <2>2 DEF SameSide
    <2>4. ~(((b >= 0 /\ c <= 0) \/ (b <= 0 /\ c >= 0)) /\ c - b # 0)
      BY <1>1, <2>2 DEF Crosses, Denom
    <2>5. (a > 0 <=> c > 0) /\ (a < 0 <=> c < 0)
      BY <1>3, <2>2, <2>3, <2>4
    <2> QED BY <2>2, <2>5 DEF SameSide
  <1>5. \A j \in 1..(idx + 1) : SameSide(j)
    <2>1. \A j \in 1..idx : SameSide(j)
      BY <1>2 DEF CrossInv, SearchInv
    <2>2. \A j \in 1..(idx + 1) : j \in 1..idx \/ j = idx + 1
      BY <1>2
    <2> QED BY <1>4, <2>1, <2>2
  <1> QED
    BY <1>1, <1>2, <1>5, CurvesStay, RowsStay DEF CrossInv, SearchInv

\* Two straight lines over the interval from x0 to x1, a apart at its beginning
\* and b at its end, meet at x / d, ...
Meet(x0, x1, a, b, x, d) == a * (x1 * d - x) + b * (x - x0 * d) = 0

\* ... which is where the formula says.
LEMMA LinesMeet ==
    ASSUME NEW x0 \in Nat, NEW x1 \in Nat, x0 < x1, NEW a \in Int, NEW b \in Int, b - a # 0,
           (a >= 0 /\ b <= 0) \/ (a <= 0 /\ b >= 0),
           NEW num, num = x0 * (b - a) + (x1 - x0) * (0 - a),
           NEW d, d = Absolute(b - a), NEW x, x = IF b - a < 0 THEN 0 - num ELSE num
    PROVE  /\ num \in Int /\ d \in Nat /\ x \in Int
           /\ x0 * d <= x /\ x <= x1 * d
           /\ Meet(x0, x1, a, b, x, d)
           /\ a # 0 => num * (b - a) > 0
  <1>1. PICK w : w = x1 - x0
    OBVIOUS
  <1>2. w \in Nat /\ w > 0 /\ x1 = x0 + w /\ num = x0 * (b - a) + w * (0 - a)
    BY <1>1
  <1>3. CASE b - a > 0
    <2>1. a <= 0 /\ b >= 0 /\ d = b - a /\ x = num /\ d \in Nat /\ num \in Int
      BY <1>2, <1>3 DEF Absolute
    <2>2. PICK p : p = 0 - a
      OBVIOUS
    <2>3. p \in Nat /\ b \in Nat /\ d = b + p /\ a = 0 - p
      BY <2>1, <2>2
    <2>4. x - x0 * d = w * p /\ x1 * d - x = w * b
      <3>1. x = x0 * d + w * p
        BY <1>2, <2>1, <2>3
      <3>2. x1 * d = x0 * d + w * d /\ w * d = w * p + w * b
        BY <1>2, <2>3
      <3>3. x0 * d \in Int /\ w * p \in Int /\ w * b \in Int
        BY <1>2, <2>3
      <3> QED BY <3>1, <3>2, <3>3
    <2>5. w * p >= 0 /\ w * b >= 0 /\ x0 * d >= 0
      BY <1>2, <2>1, <2>3
    <2>6. a * (x1 * d - x) + b * (x - x0 * d) = 0
      BY <1>2, <2>3, <2>4
    <2>7. x0 * d <= x /\ x <= x1 * d
      BY <1>2, <2>1, <2>4, <2>5
    <2>8. a # 0 => num > 0
      <3>1. a # 0 => w * p > 0
        BY <1>2, <2>2, <2>3
      <3> QED BY <1>2, <2>1, <2>4, <2>5, <3>1
    <2>9. a # 0 => num * (b - a) > 0
      BY <1>3, <2>1, <2>8
    <2> QED BY <2>1, <2>6, <2>7, <2>9 DEF Meet
  <1>4. CASE b - a < 0
    <2>1. a >= 0 /\ b <= 0 /\ d = a - b /\ x = 0 - num /\ d \in Nat /\ num \in Int
      BY <1>2, <1>4 DEF Absolute
    <2>2. PICK p : p = 0 - b
      OBVIOUS
    <2>3. p \in Nat /\ a \in Nat /\ d = a + p /\ b = 0 - p
      BY <2>1, <2>2
    <2>4. x - x0 * d = w * a /\ x1 * d - x = w * p
      <3>1. x = x0 * d + w * a
        <4>1. b - a = 0 - d /\ x0 * (0 - d) = 0 - x0 * d /\ w * (0 - a) = 0 - w * a
          BY <1>2, <2>1, <2>3
        <4>2. x0 * d \in Int /\ w * a \in Int /\ num = (0 - x0 * d) + (0 - w * a)
          BY <1>2, <2>3, <4>1
        <4>3. PICK y, z : y = x0 * d /\ z = w * a
          OBVIOUS
        <4>4. y \in Int /\ z \in Int /\ 0 - ((0 - y) + (0 - z)) = y + z
          BY <4>2, <4>3
        <4>5. num = (0 - y) + (0 - z)
          BY <4>2, <4>3
        <4> QED BY <2>1, <4>3, <4>4, <4>5, Zenon
      <3>2. x1 * d = x0 * d + w * d /\ w * d = w * a + w * p
        BY <1>2, <2>3
      <3>3. x0 * d \in Int /\ w * a \in Int /\ w * p \in Int
        BY <1>2, <2>3
      <3> QED BY <3>1, <3>2, <3>3
    <2>5. w * p >= 0 /\ w * a >= 0 /\ x0 * d >= 0
      BY <1>2, <2>1, <2>3
    <2>6. a * (x1 * d - x) + b * (x - x0 * d) = 0
      BY <1>2, <2>3, <2>4
    <2>7. x0 * d <= x /\ x <= x1 * d
      BY <1>2, <2>1, <2>4, <2>5
    <2>8. a # 0 => num < 0
      <3>1. a # 0 => w * a > 0
        BY <1>2, <2>3
      <3> QED BY <1>2, <2>1, <2>4, <2>5, <3>1
    <2>9. a # 0 => num * (b - a) > 0
      BY <1>4, <2>1, <2>8
    <2> QED BY <2>1, <2>6, <2>7, <2>9 DEF Meet
  <1> QED BY <1>3, <1>4

\* Leads on one side have no negative product, leads on two sides have.
LEMMA Products ==
    ASSUME NEW a \in Int, NEW b \in Int, NEW c \in Int,
           a > 0 <=> b > 0, a < 0 <=> b < 0, a > 0 <=> c > 0, a < 0 <=> c < 0
    PROVE  b * c >= 0 /\ ~(a * b < 0)
  <1>1. CASE a > 0
    <2>1. b > 0 /\ c > 0
      BY <1>1
    <2> QED BY <1>1, <2>1
  <1>2. CASE a < 0
    <2>1. b < 0 /\ c < 0
      BY <1>2
    <2> QED BY <1>2, <2>1
  <1>3. CASE a = 0
    <2>1. b = 0 /\ c = 0
      BY <1>3
    <2> QED BY <1>3, <2>1
  <1> QED BY <1>1, <1>2, <1>3

\* What the property says.
LEMMA DrawnIsExact ==
    ASSUME CrossInv
    PROVE  CrossoverExact
  <1>1. ASSUME NEW c \in Drawn
        PROVE  LET i == c.at
                   x0 == p_y[i].idle_conns
                   x1 == p_y[i + 1].idle_conns
                   x == IF c.den < 0 THEN 0 - c.num ELSE c.num
                   d == Absolute(c.den)
               IN  /\ x0 * d <= x /\ x <= x1 * d
                   /\ Lead(i) * (x1 * d - x) + Lead(i + 1) * (x - x0 * d) = 0
                   /\ \A j, k \in 1..i : Lead(j) * Lead(k) >= 0
    <2>1. /\ Swept /\ idx < Levels /\ Crosses(idx) /\ Denom(idx) # 0 /\ c = Interpolate(idx)
          /\ idx \in Nat /\ idx > 0 /\ Len(results) = Cells
      BY DEF Drawn, CrossInv, SearchInv
    <2>2. /\ Levels \in Nat /\ idx \in 1..Levels /\ idx + 1 \in 1..Levels /\ idx < idx + 1
      BY <2>1, Sizes
    <2>3. PICK x0, x1, a, b :
             x0 = p_y[idx].idle_conns /\ x1 = p_y[idx + 1].idle_conns
             /\ a = Lead(idx) /\ b = Lead(idx + 1)
      OBVIOUS
    <2>4. x0 \in Nat /\ x1 \in Nat /\ x0 < x1 /\ a \in Int /\ b \in Int
      <3>1. x0 = IDLE_LEVELS[idx] /\ x1 = IDLE_LEVELS[idx + 1] /\ a \in Int /\ b \in Int
        BY <2>1, <2>2, <2>3, Curves DEF CrossInv
      <3> QED BY <2>2, <3>1, LevelsRise
    <2>5. /\ c.at = idx /\ c.den = b - a
          /\ c.num = x0 * (b - a) + (x1 - x0) * (0 - a)
          /\ b - a # 0 /\ ((a >= 0 /\ b <= 0) \/ (a <= 0 /\ b >= 0))
      BY <2>1, <2>3 DEF Interpolate, Denom, Crosses
    <2>6. PICK x, d, num : /\ num = c.num /\ d = Absolute(c.den)
                           /\ x = IF c.den < 0 THEN 0 - c.num ELSE c.num
      OBVIOUS
    <2>7. x0 * d <= x /\ x <= x1 * d /\ a * (x1 * d - x) + b * (x - x0 * d) = 0
      <3>1. /\ num = x0 * (b - a) + (x1 - x0) * (0 - a) /\ d = Absolute(b - a)
            /\ x = IF b - a < 0 THEN 0 - num ELSE num
        BY <2>5, <2>6
      <3>2. b - a # 0 /\ ((a >= 0 /\ b <= 0) \/ (a <= 0 /\ b >= 0))
        BY <2>5
      <3>3. x0 * d <= x /\ x <= x1 * d
        BY <2>4, <3>1, <3>2, LinesMeet
      <3>4. Meet(x0, x1, a, b, x, d)
        BY <2>4, <3>1, <3>2, LinesMeet
      <3> QED BY <3>3, <3>4 DEF Meet
    <2>8. ASSUME NEW j \in 1..idx, NEW k \in 1..idx
          PROVE  Lead(j) * Lead(k) >= 0
      <3>1. SameSide(j) /\ SameSide(k)
        BY <2>1, <2>2 DEF CrossInv, SearchInv
      <3>2. j \in 1..Levels /\ k \in 1..Levels /\ 1 \in 1..Levels
        BY <2>1, <2>2
      <3>3. Lead(1) \in Int /\ Lead(j) \in Int /\ Lead(k) \in Int
        BY <2>1, <3>2, Curves DEF CrossInv
      <3> QED BY <3>1, <3>3, Products DEF SameSide
    <2> QED BY <2>3, <2>5, <2>6, <2>7, <2>8
  <1>2. ASSUME Plotted, Len(p_y) > 0, Len(e_y) > 0, NEW k \in DOMAIN p_y, Lead(1) * Lead(k) < 0
        PROVE  Drawn # {}
    <2>1. idx \in Nat /\ idx > 0 /\ Len(results) = Cells
      BY <1>2 DEF Plotted, CrossInv, SearchInv
    <2>2. Swept
      <3>1. /\ \E s \in DOMAIN SERVERS : SERVERS[s] = "server_poll"
            /\ \E s \in DOMAIN SERVERS : SERVERS[s] = "epoll_et_server"
        BY <1>2, NoCurve DEF p_y, e_y, CrossInv
      <3> QED BY <3>1 DEF Swept
    <2>3. /\ Len(p_y) = Levels /\ Levels \in Nat /\ Levels > 0 /\ k \in 1..Levels /\ 1 \in 1..Levels
      <3>1. Len(p_y) = Levels /\ Levels \in Nat
        BY <2>1, <2>2, Curves, Sizes DEF CrossInv
      <3>2. DOMAIN p_y = 1..Levels
        BY <3>1, CurveDomain DEF p_y, CrossInv
      <3> QED BY <1>2, <3>1, <3>2
    <2>4. Lead(1) \in Int /\ Lead(k) \in Int /\ idx <= Levels /\ \A j \in 1..idx : SameSide(j)
      BY <2>1, <2>2, <2>3, Curves DEF CrossInv, SearchInv
    <2>5. ASSUME SameSide(k) PROVE FALSE
      <3>1. ~(Lead(1) * Lead(k) < 0)
        BY <2>4, <2>5, Products DEF SameSide
      <3> QED BY <1>2, <3>1
    <2>6. cross # {}
      <3>1. ASSUME cross = {} PROVE FALSE
        <4>1. idx >= Levels
          BY <1>2, <2>1, <2>2, <2>3, <3>1 DEF Plotted, Searching, Swept
        <4>2. k \in 1..idx
          BY <2>1, <2>3, <4>1
        <4> QED BY <2>4, <2>5, <4>2
      <3> QED BY <3>1
    <2>7. /\ idx < Levels /\ Crosses(idx) /\ Denom(idx) # 0 /\ cross = {Interpolate(idx)}
      BY <2>6 DEF CrossInv, SearchInv
    <2>8. PICK x0, x1, a, b :
             x0 = p_y[idx].idle_conns /\ x1 = p_y[idx + 1].idle_conns
             /\ a = Lead(idx) /\ b = Lead(idx + 1)
      OBVIOUS
    <2>9. x0 \in Nat /\ x1 \in Nat /\ x0 < x1 /\ a \in Int /\ b \in Int
      <3>1. idx \in 1..Levels /\ idx + 1 \in 1..Levels /\ idx < idx + 1
        BY <2>1, <2>3, <2>7
      <3>2. x0 = IDLE_LEVELS[idx] /\ x1 = IDLE_LEVELS[idx + 1] /\ a \in Int /\ b \in Int
        BY <2>1, <2>2, <2>8, <3>1, Curves DEF CrossInv
      <3> QED BY <3>1, <3>2, LevelsRise
    <2>10. a # 0
      <3>1. SameSide(idx)
        BY <2>1, <2>4
      <3>2. Lead(1) # 0
        BY <1>2, <2>4
      <3> QED BY <2>4, <2>8, <2>9, <3>1, <3>2 DEF SameSide
    <2>11. PICK c : c = Interpolate(idx)
      OBVIOUS
    <2>12. c.num * c.den > 0
      <3>1. /\ c.den = b - a /\ c.num = x0 * (b - a) + (x1 - x0) * (0 - a)
            /\ b - a # 0 /\ ((a >= 0 /\ b <= 0) \/ (a <= 0 /\ b >= 0))
        BY <2>7, <2>8, <2>11 DEF Interpolate, Denom, Crosses
      <3>2. PICK x, d, num : /\ num = c.num /\ d = Absolute(b - a)
                             /\ x = IF b - a < 0 THEN 0 - num ELSE num
        OBVIOUS
      <3>3. num * (b - a) > 0
        <4>1. num = x0 * (b - a) + (x1 - x0) * (0 - a)
          BY <3>1, <3>2
        <4> QED BY <2>9, <2>10, <3>1, <3>2, <4>1, LinesMeet
      <3> QED BY <3>1, <3>2, <3>3
    <2> QED BY <2>7, <2>11, <2>12 DEF Drawn
  <1> QED BY <1>1, <1>2 DEF CrossoverExact

\* The crossing that is drawn is one, and the first; a lead that changes
\* hands is drawn unless the two servers start level: for every list of servers
\* and levels and all measured rates.
THEOREM CrossoverIsExact == CrossSpec => []CrossoverExact
  <1>1. CrossInit => CrossInv
    BY Sizes DEF CrossInit, CrossInv, RowsInv, SearchInv
  <1>2. CrossInv /\ [CrossNext]_crossVars => CrossInv'
    <2> SUFFICES ASSUME CrossInv, [CrossNext]_crossVars PROVE CrossInv'
      OBVIOUS
    <2>1. CASE UNCHANGED crossVars
      BY <2>1, CurvesStay, RowsStay DEF crossVars, CrossInv, SearchInv
    <2> QED
      BY <2>1, RowAdded, PlotStarted, CrossFound, SearchAdvanced DEF CrossNext
  <1>3. CrossInv => CrossoverExact
    BY DrawnIsExact
  <1> QED BY <1>1, <1>2, <1>3, PTL DEF CrossSpec
=============================================================================
