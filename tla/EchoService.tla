---------------------------- MODULE EchoService ----------------------------
(***************************************************************************)
(* What every server of code/src promises, whatever its event loop: the    *)
(* abstract specification the server modules are shown to implement.       *)
(* README.md calls it accepting connections and echoing exact payloads.    *)
(***************************************************************************)
EXTENDS Integers, Sequences

CONSTANT Conns      \* connections, each used once

VARIABLES
    listening,      \* the service is up
    phase,          \* "none", "queued", "open" or "done" for each connection
    cl,             \* the client's end: "up", "shut" or "gone"
    sent,           \* bytes the client sent
    echo            \* bytes the server wrote back

echoVars == <<listening, phase, cl, sent, echo>>

Init ==
    /\ listening = FALSE
    /\ phase = [c \in Conns |-> "none"]
    /\ cl = [c \in Conns |-> "up"]
    /\ sent = [c \in Conns |-> 0]
    /\ echo = [c \in Conns |-> <<>>]

Start ==
    /\ listening' = TRUE
    /\ UNCHANGED <<phase, cl, sent, echo>>

Arrive(c) ==
    /\ listening
    /\ phase[c] = "none"
    /\ phase' = [phase EXCEPT ![c] = "queued"]
    /\ UNCHANGED <<listening, cl, sent, echo>>

\* A client may be turned away, but only before it is served.
Admit(c) ==
    /\ phase[c] = "queued"
    /\ \E p \in {"open", "done"} : phase' = [phase EXCEPT ![c] = p]
    /\ UNCHANGED <<listening, cl, sent, echo>>

Send(c) ==
    /\ phase[c] \in {"queued", "open"}
    /\ cl[c] = "up"
    /\ sent'[c] > sent[c]
    /\ sent' = [sent EXCEPT ![c] = sent'[c]]
    /\ UNCHANGED <<listening, phase, cl, echo>>

Leave(c) ==
    /\ phase[c] \in {"queued", "open"}
    /\ \/ cl[c] = "up"   /\ cl' = [cl EXCEPT ![c] = "shut"]
       \/ cl[c] # "gone" /\ cl' = [cl EXCEPT ![c] = "gone"]
    /\ UNCHANGED <<listening, phase, sent, echo>>

\* The echo grows, and is always the first n bytes of what was sent.
Echo(c) ==
    /\ phase[c] = "open"
    /\ \E n \in (Len(echo[c]) + 1)..sent[c] :
          echo' = [echo EXCEPT ![c] = [i \in 1..n |-> <<c, i>>]]
    /\ UNCHANGED <<listening, phase, cl, sent>>

\* The server hangs up only on a client that is gone, or that has finished
\* sending and has been answered in full.
Hangup(c) ==
    /\ phase[c] = "open"
    /\ \/ cl[c] = "gone"
       \/ cl[c] = "shut" /\ Len(echo[c]) = sent[c]
    /\ phase' = [phase EXCEPT ![c] = "done"]
    /\ UNCHANGED <<listening, cl, sent, echo>>

\* The whole service stops, and with it every connection.
Shutdown ==
    /\ listening' = FALSE
    /\ phase' = [c \in Conns |-> IF phase[c] = "none" THEN "none" ELSE "done"]
    /\ UNCHANGED <<cl, sent, echo>>

Next ==
    \/ \E c \in Conns :
          Arrive(c) \/ Admit(c) \/ Send(c) \/ Leave(c) \/ Echo(c) \/ Hangup(c)
    \/ Start \/ Shutdown

Spec == Init /\ [][Next]_echoVars
=============================================================================
