--------------------------- MODULE SessionProofs ---------------------------
(***************************************************************************)
(* Proofs about Session, for every set of clients and every size of the    *)
(* queue.                                                                  *)
(***************************************************************************)
EXTENDS Session, FiniteSetTheorems, SequenceTheorems, TLAPS

Connections == Clients \cup {Nobody, Silent}

(* A client's end goes, or goes silent: the queue keeps its length and all *)
(* other entries.                                                          *)
LEMMA ReplaceKeepsTheRest ==
  ASSUME NEW c, NEW by \in Connections, NEW q \in Seq(Connections)
  PROVE  /\ Replace(c, by, q) \in Seq(Connections)
         /\ Len(Replace(c, by, q)) = Len(q)
         /\ DOMAIN Replace(c, by, q) = DOMAIN q
         /\ \A i \in DOMAIN q : q[i] # c => Replace(c, by, q)[i] = q[i]
<1>1. Len(q) \in Nat /\ DOMAIN q = 1 .. Len(q) /\ \A i \in 1 .. Len(q) : q[i] \in Connections
  BY LenProperties, ElementOfSeq
<1>2. Replace(c, by, q) \in [1 .. Len(q) -> Connections]
  BY <1>1 DEF Replace
<1>3. Replace(c, by, q) \in Seq(Connections)
  BY <1>1, <1>2, SeqDef
<1>4. Len(Replace(c, by, q)) = Len(q) /\ DOMAIN Replace(c, by, q) = DOMAIN q
  BY <1>1, <1>2, <1>3, LenProperties
<1>5. \A i \in DOMAIN q : q[i] # c => Replace(c, by, q)[i] = q[i]
  BY DEF Replace
<1>6. QED
  BY <1>3, <1>4, <1>5

(* The same for the variables of Session.                                  *)
LEMMA ReplacedKeepsTheRest ==
  ASSUME TypeOK, NEW c \in Clients, NEW by \in {Nobody, Silent}, Replaced(c, by)
  PROVE  /\ peer' \in Connections /\ backlog' \in Seq(Connections)
         /\ Len(backlog') <= MaxBacklog
         /\ DOMAIN backlog' = DOMAIN backlog
         /\ \A i \in DOMAIN backlog : backlog[i] # c => backlog'[i] = backlog[i]
         /\ \A i \in DOMAIN backlog : backlog'[i] \in Clients => backlog'[i] = backlog[i] /\ backlog[i] # c
         /\ peer # c => peer' = peer
         /\ peer' \in Clients => peer' = peer /\ peer # c
         /\ backlog = <<>> => backlog' = <<>>
<1>1. by \in Connections /\ backlog \in Seq(Connections) /\ by \notin Clients
  BY SessionAssumption DEF TypeOK, Connections
<1>2. /\ backlog' \in Seq(Connections) /\ Len(backlog') = Len(backlog)
      /\ DOMAIN backlog' = DOMAIN backlog
      /\ \A i \in DOMAIN backlog : backlog[i] # c => backlog'[i] = backlog[i]
  BY <1>1, ReplaceKeepsTheRest DEF Replaced
<1>3. \A i \in DOMAIN backlog : backlog[i] = c => backlog'[i] = by
  BY DEF Replaced, Replace
<1>4. backlog = <<>> => backlog' = <<>>
  BY <1>1, <1>2, EmptySeq
<1>5. QED
  BY <1>1, <1>2, <1>3, <1>4 DEF Replaced, TypeOK, Connections

(* The type invariant of the two programs' lives.                          *)
THEOREM TypeCorrect == Spec => []TypeOK
<1> USE SessionAssumption
<1>1. Init => TypeOK
  BY EmptySeq DEF Init, TypeOK, ClientPhase, Link, ServerPhase
<1>2. TypeOK /\ [Next]_vars => TypeOK'
  <2> SUFFICES ASSUME TypeOK, [Next]_vars PROVE TypeOK'
    OBVIOUS
  <2> USE DEF TypeOK, ClientPhase, Link, ServerPhase, Enter
  <2>1. ASSUME NEW c \in Clients, ClientNext(c) PROVE TypeOK'
    <3>1. CASE ClientStarts(c)
      BY <3>1 DEF ClientStarts
    <3>2. CASE ClientStartFails(c)
      BY <3>2 DEF ClientStartFails
    <3>3. CASE Connect(c)
      <4>1. /\ Append(backlog, c) \in Seq(Clients \cup {Nobody, Silent})
            /\ Len(Append(backlog, c)) <= MaxBacklog
        BY <3>3 DEF Connect
      <4>2. QED
        BY <3>3, <4>1 DEF Connect
    <3>4. CASE ClientHandshakeDone(c)
      BY <3>4 DEF ClientHandshakeDone
    <3>5. CASE ClientHandshakeFails(c)
      BY <3>5 DEF ClientHandshakeFails
    <3>6. CASE HookRuns(c)
      BY <3>6 DEF HookRuns
    <3>7. CASE WriteFails(c)
      BY <3>7 DEF WriteFails
    <3>8. CASE ClientEnds(c)
      <4>1. peer' \in Connections /\ backlog' \in Seq(Connections) /\ Len(backlog') <= MaxBacklog
        BY <3>8, ReplacedKeepsTheRest DEF ClientEnds
      <4>2. QED
        BY <3>8, <4>1 DEF ClientEnds, Connections
    <3>9. QED
      BY <2>1, <3>1, <3>2, <3>3, <3>4, <3>5, <3>6, <3>7, <3>8 DEF ClientNext
  <2>2. CASE ServerStarts
    BY <2>2 DEF ServerStarts
  <2>3. CASE Accept
    <3>1. /\ Head(backlog) \in Clients \cup {Nobody, Silent}
          /\ Tail(backlog) \in Seq(Clients \cup {Nobody, Silent})
          /\ Len(Tail(backlog)) <= MaxBacklog
      BY <2>3, HeadTailProperties, LenProperties DEF Accept
    <3>2. QED
      BY <2>3, <3>1 DEF Accept
  <2>4. CASE LastMessageArrives \/ ServerHandshakeDone
    BY <2>4 DEF LastMessageArrives, ServerHandshakeDone
  <2>5. ASSUME ServerReturns PROVE TypeOK'
    <3>1. link' \in [Clients -> Link]
      BY <2>5 DEF ServerReturns
    <3>2. backlog' \in Seq(Clients \cup {Nobody, Silent}) /\ Len(backlog') <= MaxBacklog
      BY <2>5, EmptySeq DEF ServerReturns
    <3>3. QED
      BY <2>5, <3>1, <3>2 DEF ServerReturns
  <2>6. ASSUME NEW c \in Clients, NetworkNext(c) PROVE TypeOK'
    <3>1. Replaced(c, Nobody) \/ Replaced(c, Silent)
      BY <2>6 DEF NetworkNext, ConnectionBreaks, NetworkCuts
    <3>2. peer' \in Connections /\ backlog' \in Seq(Connections) /\ Len(backlog') <= MaxBacklog
      BY <3>1, ReplacedKeepsTheRest
    <3>3. QED
      BY <2>6, <3>2 DEF NetworkNext, ConnectionBreaks, NetworkCuts, Connections
  <2>7. CASE UNCHANGED vars
    BY <2>7 DEF vars
  <2>8. QED
    BY <2>1, <2>2, <2>3, <2>4, <2>5, <2>6, <2>7
    DEF Next, ServerNext, ServerHandshakeFails, SessionEnds, ServerEnds
<1>3. QED
  BY <1>1, <1>2, PTL DEF Spec

(* A client whose connection is up is the one that is served: only the     *)
(* handshake brings a connection up, at a time when none is.               *)
THEOREM LinkedIsServed == Spec => []LinkedMeansServed
<1>1. Init => LinkedMeansServed
  BY DEF Init, LinkedMeansServed
<1>2. TypeOK /\ LinkedMeansServed /\ [Next]_vars => LinkedMeansServed'
  <2> SUFFICES ASSUME TypeOK, LinkedMeansServed, [Next]_vars
               PROVE  LinkedMeansServed'
    OBVIOUS
  <2>0. link \in [Clients -> Link]
    BY DEF TypeOK
  <2> USE DEF LinkedMeansServed
  <2>1. ASSUME NEW c \in Clients, ClientNext(c) PROVE LinkedMeansServed'
    <3>1. CASE ClientStarts(c)
      BY <2>0, <3>1 DEF ClientStarts
    <3>2. CASE Connect(c)
      BY <2>0, <3>2 DEF Connect
    <3>3. CASE ClientEnds(c)
      BY <2>0, <3>3, ReplacedKeepsTheRest DEF ClientEnds
    <3>4. CASE UNCHANGED <<link, server, peer>>
      BY <3>4
    <3>5. QED
      BY <2>1, <3>1, <3>2, <3>3, <3>4
      DEF ClientNext, ClientStartFails, ClientHandshakeDone,
          ClientHandshakeFails, HookRuns, WriteFails
  <2>2. CASE ServerStarts
    BY <2>2 DEF ServerStarts
  <2>3. CASE Accept
    BY <2>3 DEF Accept
  <2>4. CASE LastMessageArrives \/ ServerHandshakeDone
    BY <2>0, <2>4 DEF LastMessageArrives, ServerHandshakeDone
  <2>5. ASSUME ServerReturns PROVE LinkedMeansServed'
    <3>1. \A c \in Clients : link'[c] # "up"
      BY <2>0, <2>5 DEF ServerReturns
    <3>2. QED
      BY <3>1
  <2>6. ASSUME NEW c \in Clients, NetworkNext(c) PROVE LinkedMeansServed'
    <3>1. /\ server' = server /\ \A d \in Clients \ {c} : link'[d] = link[d]
          /\ link'[c] # "up" /\ (peer # c => peer' = peer)
      BY <2>0, <2>6, ReplacedKeepsTheRest DEF NetworkNext, ConnectionBreaks, NetworkCuts
    <3>2. QED
      BY <3>1
  <2>7. CASE UNCHANGED vars
    BY <2>7 DEF vars
  <2>8. QED
    BY <2>1, <2>2, <2>3, <2>4, <2>5, <2>6, <2>7
    DEF Next, ServerNext, ServerHandshakeFails, SessionEnds, ServerEnds
<1>3. QED
  BY <1>1, <1>2, TypeCorrect, PTL DEF Spec

(* The server has served nobody before its handshake is done, and one      *)
(* client afterwards.                                                      *)
ServedInv ==
  /\ server \in {"off", "listening"} \/ InHandshake => served = {}
  /\ served = {} \/ \E c \in Clients : served = {c}

LEMMA AlwaysServed == Spec => []ServedInv
<1>1. Init => ServedInv
  BY DEF Init, ServedInv, InHandshake
<1>2. ServedInv /\ [Next]_vars => ServedInv'
  <2> SUFFICES ASSUME ServedInv, [Next]_vars PROVE ServedInv'
    OBVIOUS
  <2> USE DEF ServedInv, InHandshake
  <2>1. ASSUME NEW c \in Clients, ClientNext(c) PROVE ServedInv'
    BY <2>1
    DEF ClientNext, ClientStarts, ClientStartFails, Connect,
        ClientHandshakeDone, ClientHandshakeFails, HookRuns, WriteFails,
        ClientEnds
  <2>2. CASE ServerStarts
    BY <2>2 DEF ServerStarts
  <2>3. CASE Accept
    BY <2>3 DEF Accept
  <2>4. CASE LastMessageArrives \/ ServerHandshakeDone
    BY <2>4 DEF LastMessageArrives, ServerHandshakeDone
  <2>5. CASE ServerReturns
    BY <2>5 DEF ServerReturns
  <2>6. ASSUME NEW c \in Clients, NetworkNext(c) PROVE ServedInv'
    BY <2>6 DEF NetworkNext, ConnectionBreaks, NetworkCuts
  <2>7. CASE UNCHANGED vars
    BY <2>7 DEF vars
  <2>8. QED
    BY <2>1, <2>2, <2>3, <2>4, <2>5, <2>6, <2>7
    DEF Next, ServerNext, ServerHandshakeFails, SessionEnds, ServerEnds
<1>3. QED
  BY <1>1, <1>2, PTL DEF Spec

(* A run of the server serves at most one client.                          *)
THEOREM OneServed == Spec => []OneClientPerRun
<1>1. ServedInv => OneClientPerRun
  <2>1. CASE served = {}
    <3>1. Cardinality(served) = 0
      BY <2>1, FS_EmptySet
    <3>2. QED
      BY <3>1 DEF OneClientPerRun
  <2>2. ASSUME NEW c \in Clients, served = {c} PROVE OneClientPerRun
    <3>1. Cardinality(served) = 1
      BY <2>2, FS_Singleton
    <3>2. QED
      BY <3>1 DEF OneClientPerRun
  <2>3. QED
    BY <2>1, <2>2 DEF ServedInv
<1>2. QED
  BY <1>1, AlwaysServed, PTL

(* No client waits unknown to the server: what takes a client out of the   *)
(* queue takes it into its handshake, and what ends the handshake or the   *)
(* queue changes its connection.                                           *)
THEOREM QueuedIsNeverForgotten == Spec => []QueuedIsKnown
<1>1. Init => QueuedIsKnown
  BY DEF Init, QueuedIsKnown
<1>2. TypeOK /\ QueuedIsKnown /\ [Next]_vars => QueuedIsKnown'
  <2> SUFFICES ASSUME TypeOK, QueuedIsKnown, [Next]_vars
               PROVE  QueuedIsKnown'
    OBVIOUS
  <2>0. /\ link \in [Clients -> Link] /\ phase \in [Clients -> ClientPhase]
        /\ backlog \in Seq(Connections)
    BY DEF TypeOK, Connections
  <2> USE DEF QueuedIsKnown, InHandshake, Enter
  <2>1. ASSUME NEW c \in Clients, ClientNext(c) PROVE QueuedIsKnown'
    <3>1. CASE ClientStarts(c)
      BY <2>0, <3>1 DEF ClientStarts
    <3>2. CASE ClientStartFails(c)
      BY <2>0, <3>2 DEF ClientStartFails
    <3>3. CASE Connect(c)
      <4>1. /\ DOMAIN backlog = 1 .. Len(backlog) /\ Len(backlog) \in Nat
            /\ DOMAIN Append(backlog, c) = 1 .. Len(backlog) + 1
            /\ \A i \in DOMAIN backlog : Append(backlog, c)[i] = backlog[i]
            /\ Append(backlog, c)[Len(backlog) + 1] = c
        BY <2>0 DEF Connections
      <4>2. QED
        BY <2>0, <3>3, <4>1 DEF Connect
    <3>4. CASE ClientHandshakeDone(c)
      BY <2>0, <3>4 DEF ClientHandshakeDone
    <3>5. CASE ClientHandshakeFails(c)
      BY <2>0, <3>5 DEF ClientHandshakeFails
    <3>6. CASE HookRuns(c)
      BY <2>0, <3>6 DEF HookRuns
    <3>7. CASE WriteFails(c)
      BY <2>0, <3>7 DEF WriteFails
    <3>8. CASE ClientEnds(c)
      <4>1. /\ DOMAIN backlog' = DOMAIN backlog /\ (peer # c => peer' = peer)
            /\ \A i \in DOMAIN backlog : backlog[i] # c => backlog'[i] = backlog[i]
        BY <3>8, ReplacedKeepsTheRest DEF ClientEnds
      <4>2. QED
        BY <2>0, <3>8, <4>1 DEF ClientEnds
    <3>9. QED
      BY <2>1, <3>1, <3>2, <3>3, <3>4, <3>5, <3>6, <3>7, <3>8 DEF ClientNext
  <2>2. CASE ServerStarts
    BY <2>2 DEF ServerStarts
  <2>3. CASE Accept
    <3> SUFFICES ASSUME NEW c \in Clients, link[c] = "queued", peer' # c
                 PROVE  \E i \in DOMAIN backlog' : backlog'[i] = c
      BY <2>3 DEF Accept
    <3>1. PICK i \in DOMAIN backlog : backlog[i] = c
      BY <2>3 DEF Accept
    <3>2. i \in 2 .. Len(backlog) /\ Len(backlog) \in Nat
      BY <2>0, <2>3, <3>1 DEF Accept
    <3>3. /\ DOMAIN backlog' = 1 .. Len(backlog) - 1
          /\ \A j \in 1 .. Len(backlog) - 1 : backlog'[j] = backlog[j + 1]
      BY <2>0, <2>3, HeadTailProperties, LenProperties DEF Accept
    <3>4. i - 1 \in DOMAIN backlog' /\ backlog'[i - 1] = c
      BY <3>1, <3>2, <3>3
    <3>5. QED
      BY <3>4
  <2>4. CASE LastMessageArrives \/ ServerHandshakeDone
    BY <2>0, <2>4 DEF LastMessageArrives, ServerHandshakeDone
  <2>5. ASSUME ServerReturns PROVE QueuedIsKnown'
    <3>1. \A c \in Clients : link'[c] # "queued"
      BY <2>0, <2>5 DEF ServerReturns
    <3>2. QED
      BY <3>1
  <2>6. ASSUME NEW c \in Clients, NetworkNext(c) PROVE QueuedIsKnown'
    <3>1. /\ DOMAIN backlog' = DOMAIN backlog /\ (peer # c => peer' = peer)
          /\ \A i \in DOMAIN backlog : backlog[i] # c => backlog'[i] = backlog[i]
      BY <2>6, ReplacedKeepsTheRest DEF NetworkNext, ConnectionBreaks, NetworkCuts
    <3>2. /\ UNCHANGED <<server, phase>> /\ link'[c] # "queued"
          /\ \A d \in Clients \ {c} : link'[d] = link[d]
      BY <2>0, <2>6 DEF NetworkNext, ConnectionBreaks, NetworkCuts
    <3>3. QED
      BY <3>1, <3>2
  <2>7. CASE UNCHANGED vars
    BY <2>7 DEF vars
  <2>8. QED
    BY <2>1, <2>2, <2>3, <2>4, <2>5, <2>6, <2>7
    DEF Next, ServerNext, ServerHandshakeFails, SessionEnds, ServerEnds
<1>3. QED
  BY <1>1, <1>2, TypeCorrect, PTL DEF Spec
-----------------------------------------------------------------------------
(* Who is where.  Each client in the queue is there once and waits; the    *)
(* server's peer waits for the handshake or is through it, and is not in   *)
(* the queue; without an acceptor there is no queue; and a connection that *)
(* is up has a client at its other end.                                    *)
QueueIsReal ==
  \A i \in DOMAIN backlog :
    backlog[i] \in Clients =>
      /\ link[backlog[i]] = "queued"
      /\ backlog[i] # peer
      /\ \A j \in DOMAIN backlog : backlog[j] = backlog[i] => j = i

PeerIsReal ==
  peer \in Clients =>
    \/ InHandshake /\ link[peer] = "queued"
    \/ server = "serving" /\ link[peer] = "up"

ClosedIsEmpty == ~AcceptorOpen => backlog = <<>>

LinkedIsAlive ==
  \A c \in Clients : link[c] = "up" => phase[c] \in {"waiting", "connected", "sharing"}

Places == QueueIsReal /\ PeerIsReal /\ ClosedIsEmpty /\ LinkedIsAlive

LendingInv == TypeOK /\ LinkedMeansServed /\ QueuedIsKnown /\ ServedInv /\ Places

LEMMA PlacesInit == Init => Places
<1> SUFFICES ASSUME Init PROVE Places
  OBVIOUS
<1>1. DOMAIN backlog = {}
  BY DEF Init
<1>2. QED
  BY <1>1, SessionAssumption
  DEF Init, Places, QueueIsReal, PeerIsReal, ClosedIsEmpty, LinkedIsAlive

(* After the end of c has gone, or gone silent, the others are in place.   *)
LEMMA PlacesAfterAnEnd ==
  ASSUME LendingInv, NEW c \in Clients, NEW by \in {Nobody, Silent}, Replaced(c, by),
         UNCHANGED server, link'[c] # "up",
         \A d \in Clients \ {c} : link'[d] = link[d] /\ phase'[d] = phase[d]
  PROVE  Places'
<1>1. /\ DOMAIN backlog' = DOMAIN backlog
      /\ \A i \in DOMAIN backlog : backlog'[i] \in Clients => backlog'[i] = backlog[i] /\ backlog[i] # c
      /\ peer' \in Clients => peer' = peer /\ peer # c
      /\ backlog = <<>> => backlog' = <<>>
  BY ReplacedKeepsTheRest DEF LendingInv
<1>2. QueueIsReal /\ PeerIsReal /\ ClosedIsEmpty /\ LinkedIsAlive
  BY DEF LendingInv, Places
<1>3. QueueIsReal'
  <2> SUFFICES ASSUME NEW i \in DOMAIN backlog', backlog'[i] \in Clients
               PROVE  /\ link'[backlog'[i]] = "queued"
                      /\ backlog'[i] # peer'
                      /\ \A j \in DOMAIN backlog' : backlog'[j] = backlog'[i] => j = i
    BY DEF QueueIsReal
  <2>1. backlog'[i] = backlog[i] /\ backlog[i] # c /\ i \in DOMAIN backlog
    BY <1>1
  <2>2. /\ link[backlog[i]] = "queued" /\ backlog[i] # peer
        /\ \A j \in DOMAIN backlog : backlog[j] = backlog[i] => j = i
    BY <1>2, <2>1 DEF QueueIsReal
  <2>3. \A j \in DOMAIN backlog' : backlog'[j] = backlog'[i] => j = i
    BY <1>1, <2>1, <2>2
  <2>4. QED
    BY <1>1, <2>1, <2>2, <2>3
<1>4. PeerIsReal'
  BY <1>1, <1>2 DEF PeerIsReal, InHandshake
<1>5. ClosedIsEmpty'
  BY <1>1, <1>2 DEF ClosedIsEmpty, AcceptorOpen, InHandshake
<1>6. LinkedIsAlive'
  BY <1>2 DEF LinkedIsAlive
<1>7. QED
  BY <1>3, <1>4, <1>5, <1>6 DEF Places

LEMMA PlacesStep == LendingInv /\ [Next]_vars => Places'
<1> SUFFICES ASSUME LendingInv, [Next]_vars PROVE Places'
  OBVIOUS
<1>0. /\ link \in [Clients -> Link] /\ phase \in [Clients -> ClientPhase]
      /\ backlog \in Seq(Connections) /\ peer \in Connections
      /\ Places
  BY DEF LendingInv, TypeOK, Connections
<1> USE SessionAssumption DEF Enter, InHandshake
<1>1. ASSUME NEW c \in Clients, ClientNext(c) PROVE Places'
  <2>1. CASE ClientStarts(c)
    <3>1. link[c] \notin {"queued", "up"}
      BY <1>0, <2>1 DEF ClientStarts, LendingInv, QueuedIsKnown, Places, LinkedIsAlive
    <3>2. QED
      BY <1>0, <2>1, <3>1
      DEF ClientStarts, Places, QueueIsReal, PeerIsReal, ClosedIsEmpty, LinkedIsAlive, AcceptorOpen
  <2>2. CASE Connect(c)
    <3>1. link[c] \notin {"queued", "up"}
      BY <1>0, <2>2 DEF Connect, LendingInv, QueuedIsKnown, Places, LinkedIsAlive
    <3>2. /\ DOMAIN backlog = 1 .. Len(backlog) /\ Len(backlog) \in Nat
          /\ DOMAIN backlog' = 1 .. Len(backlog) + 1
          /\ \A i \in DOMAIN backlog : backlog'[i] = backlog[i]
          /\ backlog'[Len(backlog) + 1] = c
      BY <1>0, <2>2 DEF Connect, Connections
    <3>3. peer # c /\ \A i \in DOMAIN backlog : backlog[i] # c
      BY <1>0, <3>1 DEF Places, QueueIsReal, PeerIsReal
    <3>4. /\ link'[c] = "queued" /\ \A d \in Clients \ {c} : link'[d] = link[d]
          /\ phase'[c] = "waiting" /\ \A d \in Clients \ {c} : phase'[d] = phase[d]
          /\ UNCHANGED <<peer, server>> /\ AcceptorOpen
      BY <1>0, <2>2 DEF Connect
    <3>5. QueueIsReal'
      <4> SUFFICES ASSUME NEW i \in DOMAIN backlog', backlog'[i] \in Clients
                   PROVE  /\ link'[backlog'[i]] = "queued"
                          /\ backlog'[i] # peer
                          /\ \A j \in DOMAIN backlog' : backlog'[j] = backlog'[i] => j = i
        BY <3>4 DEF QueueIsReal
      <4>1. CASE i \in DOMAIN backlog
        <5>1. /\ link[backlog[i]] = "queued" /\ backlog[i] # peer /\ backlog[i] # c
              /\ backlog'[i] = backlog[i]
              /\ \A j \in DOMAIN backlog : backlog[j] = backlog[i] => j = i
          BY <1>0, <3>2, <3>3, <4>1 DEF Places, QueueIsReal
        <5>2. QED
          BY <3>2, <3>4, <4>1, <5>1
      <4>2. CASE i = Len(backlog) + 1
        BY <3>2, <3>3, <3>4, <4>2
      <4>3. QED
        BY <3>2, <4>1, <4>2
    <3>6. PeerIsReal' /\ ClosedIsEmpty' /\ LinkedIsAlive'
      BY <1>0, <3>3, <3>4 DEF Places, PeerIsReal, ClosedIsEmpty, LinkedIsAlive, AcceptorOpen
    <3>7. QED
      BY <3>5, <3>6 DEF Places
  <2>3. CASE ClientEnds(c)
    <3>1. Replaced(c, Nobody) /\ UNCHANGED server
      BY <2>3 DEF ClientEnds
    <3>2. /\ \A d \in Clients \ {c} : link'[d] = link[d] /\ phase'[d] = phase[d]
          /\ link'[c] = "none"
      BY <1>0, <2>3 DEF ClientEnds
    <3>3. QED
      BY <3>1, <3>2, PlacesAfterAnEnd
  <2>4. ASSUME UNCHANGED <<link, server, peer, backlog>>,
               NEW f \in ClientPhase, phase' = [phase EXCEPT ![c] = f],
               link[c] = "up" => f \in {"waiting", "connected", "sharing"}
        PROVE  Places'
    BY <1>0, <2>4
    DEF Places, QueueIsReal, PeerIsReal, ClosedIsEmpty, LinkedIsAlive, AcceptorOpen
  <2>5. CASE ClientStartFails(c)
    <3>1. link[c] # "up"
      BY <1>0, <2>5 DEF ClientStartFails, Places, LinkedIsAlive
    <3>2. QED
      BY <2>4, <2>5, <3>1 DEF ClientStartFails, ClientPhase
  <2>6. CASE ClientHandshakeDone(c) \/ ClientHandshakeFails(c) \/ HookRuns(c) \/ WriteFails(c)
    BY <2>4, <2>6
    DEF ClientHandshakeDone, ClientHandshakeFails, HookRuns, WriteFails, ClientPhase
  <2>7. QED
    BY <1>1, <2>1, <2>2, <2>3, <2>5, <2>6 DEF ClientNext
<1>2. CASE ServerStarts
  BY <1>0, <1>2
  DEF ServerStarts, Places, QueueIsReal, PeerIsReal, ClosedIsEmpty, LinkedIsAlive, AcceptorOpen
<1>3. CASE Accept
  <2>1. backlog # <<>> /\ peer' = Head(backlog) /\ backlog' = Tail(backlog)
        /\ server' = "handshaking" /\ UNCHANGED <<phase, link>>
    BY <1>3 DEF Accept
  <2>2. /\ DOMAIN backlog = 1 .. Len(backlog) /\ Len(backlog) \in Nat /\ Len(backlog) > 0
        /\ DOMAIN backlog' = 1 .. Len(backlog) - 1 /\ peer' = backlog[1]
        /\ \A j \in 1 .. Len(backlog) - 1 : backlog'[j] = backlog[j + 1]
    BY <1>0, <2>1, HeadTailProperties, LenProperties, EmptySeq
  <2>3. \A j \in DOMAIN backlog' : j + 1 \in DOMAIN backlog /\ j + 1 # 1 /\ backlog'[j] = backlog[j + 1]
    BY <2>2
  <2>4. QueueIsReal'
    <3> SUFFICES ASSUME NEW i \in DOMAIN backlog', backlog'[i] \in Clients
                 PROVE  /\ link[backlog'[i]] = "queued"
                        /\ backlog'[i] # peer'
                        /\ \A j \in DOMAIN backlog' : backlog'[j] = backlog'[i] => j = i
      BY <2>1 DEF QueueIsReal
    <3>1. /\ link[backlog[i + 1]] = "queued"
          /\ \A k \in DOMAIN backlog : backlog[k] = backlog[i + 1] => k = i + 1
      BY <1>0, <2>3 DEF Places, QueueIsReal
    <3>2. 1 \in DOMAIN backlog
      BY <2>2
    <3>3. backlog'[i] # peer'
      BY <2>2, <2>3, <3>1, <3>2
    <3>4. ASSUME NEW j \in DOMAIN backlog', backlog'[j] = backlog'[i] PROVE j = i
      <4>1. j + 1 = i + 1
        BY <2>3, <3>1, <3>4
      <4>2. QED
        BY <2>2, <4>1
    <3>5. QED
      BY <2>3, <3>1, <3>3, <3>4
  <2>5. PeerIsReal'
    BY <1>0, <2>1, <2>2 DEF Places, QueueIsReal, PeerIsReal
  <2>6. ClosedIsEmpty' /\ LinkedIsAlive'
    BY <1>0, <2>1 DEF Places, ClosedIsEmpty, LinkedIsAlive, AcceptorOpen
  <2>7. QED
    BY <2>4, <2>5, <2>6 DEF Places
<1>4. CASE LastMessageArrives
  <2>1. server' = "replying" /\ server = "handshaking" /\ UNCHANGED <<phase, link, peer, backlog>>
    BY <1>4 DEF LastMessageArrives
  <2>2. QED
    BY <1>0, <2>1
    DEF Places, QueueIsReal, PeerIsReal, ClosedIsEmpty, LinkedIsAlive, AcceptorOpen
<1>5. CASE ServerHandshakeDone
  <2>1. /\ server' = "serving" /\ server = "replying" /\ UNCHANGED <<phase, peer, backlog>>
        /\ peer \in Clients => link[peer] = "queued" /\ phase[peer] = "waiting" /\ link'[peer] = "up"
        /\ \A d \in Clients \ {peer} : link'[d] = link[d]
    BY <1>0, <1>5 DEF ServerHandshakeDone, Places, PeerIsReal, LendingInv, QueuedIsKnown
  <2>2. QED
    BY <1>0, <2>1
    DEF Places, QueueIsReal, PeerIsReal, ClosedIsEmpty, LinkedIsAlive, AcceptorOpen
<1>6. ASSUME ServerReturns PROVE Places'
  <2>1. DOMAIN backlog' = {} /\ backlog' = <<>> /\ peer' = Nobody
    BY <1>6 DEF ServerReturns
  <2>2. \A c \in Clients : link'[c] # "up"
    BY <1>0, <1>6 DEF ServerReturns
  <2>3. QED
    BY <2>1, <2>2 DEF Places, QueueIsReal, PeerIsReal, ClosedIsEmpty, LinkedIsAlive
<1>7. ASSUME NEW c \in Clients, NetworkNext(c) PROVE Places'
  <2>1. /\ Replaced(c, Nobody) \/ Replaced(c, Silent)
        /\ UNCHANGED <<server, phase>> /\ link'[c] # "up"
        /\ \A d \in Clients \ {c} : link'[d] = link[d] /\ phase'[d] = phase[d]
    BY <1>0, <1>7 DEF NetworkNext, ConnectionBreaks, NetworkCuts
  <2>2. QED
    BY <2>1, PlacesAfterAnEnd
<1>8. CASE UNCHANGED vars
  BY <1>0, <1>8
  DEF vars, Places, QueueIsReal, PeerIsReal, ClosedIsEmpty, LinkedIsAlive, AcceptorOpen
<1>9. QED
  BY <1>1, <1>2, <1>3, <1>4, <1>5, <1>6, <1>7, <1>8
  DEF Next, ServerNext, ServerHandshakeFails, SessionEnds, ServerEnds

LEMMA AlwaysInPlace == Spec => []LendingInv
<1>1. LendingInv <=> TypeOK /\ LinkedMeansServed /\ QueuedIsKnown /\ ServedInv /\ Places
  BY DEF LendingInv
<1>2. QED
  BY <1>1, PlacesInit, PlacesStep, TypeCorrect, LinkedIsServed, QueuedIsNeverForgotten,
     AlwaysServed, PTL DEF Spec

-----------------------------------------------------------------------------
(* The desktop is held by the client whose connection is up, if any.       *)
HolderIsLinked ==
  /\ \A c \in Clients : link[c] = "up" => Holder = c
  /\ (\A c \in Clients : link[c] # "up") => Holder = Nobody

LEMMA HolderOfTheDesktop == LinkedMeansServed => HolderIsLinked
<1> SUFFICES ASSUME LinkedMeansServed PROVE HolderIsLinked
  OBVIOUS
<1>1. \A c, d \in Clients : link[c] = "up" /\ link[d] = "up" => c = d
  BY DEF LinkedMeansServed
<1>2. QED
  BY <1>1 DEF HolderIsLinked, Holder

(* What does not concern connections that are up or queued does not show.  *)
LEMMA SameHolder ==
  ASSUME HolderIsLinked, HolderIsLinked',
         \A c \in Clients : link[c] = "up" <=> link'[c] = "up"
  PROVE  Holder' = Holder
<1>1. CASE \E c \in Clients : link[c] = "up"
  BY <1>1 DEF HolderIsLinked
<1>2. CASE \A c \in Clients : link[c] # "up"
  BY <1>2 DEF HolderIsLinked
<1>3. QED
  BY <1>1, <1>2

LEMMA LendingStarts == Init => Desktop!Init
<1> SUFFICES ASSUME Init PROVE Desktop!Init
  OBVIOUS
<1>1. \A c \in Clients : link[c] = "none"
  BY DEF Init
<1>2. Waiting = {} /\ Holder = Nobody
  BY <1>1 DEF Waiting, Holder
<1>3. QED
  BY <1>2 DEF Init, Desktop!Init, AcceptorOpen, InHandshake

(* Whoever's connection ends gives up waiting, or gives the desktop back.  *)
LEMMA EndLends ==
  ASSUME LendingInv, HolderIsLinked, HolderIsLinked', NEW c \in Clients,
         UNCHANGED <<server, served>>, link'[c] \notin {"up", "queued"},
         \A d \in Clients \ {c} : link'[d] = link[d]
  PROVE  Desktop!Next \/ UNCHANGED Desktop!vars
<1>0. Nobody \notin Clients /\ UNCHANGED <<AcceptorOpen, served>>
  BY SessionAssumption DEF AcceptorOpen, InHandshake
<1>1. CASE link[c] \notin {"up", "queued"}
  <2>1. Holder' = Holder
    BY <1>1, SameHolder
  <2>2. Waiting' = Waiting
    BY <1>1 DEF Waiting
  <2>3. QED
    BY <1>0, <2>1, <2>2 DEF Desktop!vars
<1>2. CASE link[c] = "queued"
  <2>1. Holder' = Holder
    BY <1>2, SameHolder
  <2>2. c \in Waiting /\ Waiting' = Waiting \ {c}
    BY <1>2 DEF Waiting
  <2>3. Desktop!GiveUp(c)
    BY <1>0, <2>1, <2>2 DEF Desktop!GiveUp
  <2>4. QED
    BY <2>3 DEF Desktop!Next
<1>3. CASE link[c] = "up"
  <2>1. \A d \in Clients : link'[d] # "up"
    BY <1>3 DEF LendingInv, LinkedMeansServed
  <2>2. Holder = c /\ Holder' = Nobody
    BY <1>3, <2>1 DEF HolderIsLinked
  <2>3. Waiting' = Waiting
    BY <1>3 DEF Waiting
  <2>4. Desktop!GiveBack
    BY <1>0, <2>2, <2>3 DEF Desktop!GiveBack
  <2>5. QED
    BY <2>4 DEF Desktop!Next
<1>4. QED
  BY <1>1, <1>2, <1>3

LEMMA ClientsLend ==
  ASSUME LendingInv, HolderIsLinked, HolderIsLinked', NEW c \in Clients, ClientNext(c)
  PROVE  Desktop!Next \/ UNCHANGED Desktop!vars
<1>0. /\ link \in [Clients -> Link] /\ Nobody \notin Clients
      /\ \A d \in Clients : link[d] = "queued" => phase[d] = "waiting"
      /\ \A d \in Clients : link[d] = "up" => phase[d] \in {"waiting", "connected", "sharing"}
  BY SessionAssumption DEF LendingInv, TypeOK, QueuedIsKnown, Places, LinkedIsAlive
<1>1. ASSUME \A d \in Clients : link[d] \in {"up", "queued"} \/ link'[d] \in {"up", "queued"}
                                  => link'[d] = link[d],
             UNCHANGED <<server, served>>
      PROVE  UNCHANGED Desktop!vars
  <2>1. Holder' = Holder
    BY <1>1, SameHolder
  <2>2. Waiting' = Waiting
    BY <1>1 DEF Waiting
  <2>3. QED
    BY <1>1, <2>1, <2>2 DEF Desktop!vars, AcceptorOpen, InHandshake
<1>2. CASE ClientStarts(c)
  <2>1. link[c] \notin {"up", "queued"}
    BY <1>0, <1>2 DEF ClientStarts
  <2>2. QED
    BY <1>0, <1>1, <1>2, <2>1 DEF ClientStarts
<1>3. CASE Connect(c)
  <2>1. /\ link[c] \notin {"up", "queued"} /\ link'[c] = "queued"
        /\ \A d \in Clients \ {c} : link'[d] = link[d]
        /\ AcceptorOpen /\ UNCHANGED <<server, served>>
    BY <1>0, <1>3 DEF Connect
  <2>2. Holder' = Holder
    BY <2>1, SameHolder
  <2>3. Holder # c
    BY <1>0, <2>1 DEF HolderIsLinked
  <2>4. c \notin Waiting /\ Waiting' = Waiting \cup {c}
    BY <2>1 DEF Waiting
  <2>5. Desktop!Wait(c)
    BY <2>1, <2>2, <2>3, <2>4 DEF Desktop!Wait, AcceptorOpen, InHandshake
  <2>6. QED
    BY <2>5 DEF Desktop!Next
<1>4. CASE ClientEnds(c)
  <2>1. /\ link'[c] = "none" /\ \A d \in Clients \ {c} : link'[d] = link[d]
        /\ UNCHANGED <<server, served>>
    BY <1>0, <1>4 DEF ClientEnds
  <2>2. QED
    BY <2>1, EndLends
<1>5. CASE UNCHANGED <<link, server, served>>
  BY <1>1, <1>5
<1>6. QED
  BY <1>2, <1>3, <1>4, <1>5
  DEF ClientNext, ClientStartFails, ClientHandshakeDone, ClientHandshakeFails, HookRuns, WriteFails

LEMMA ServerLends ==
  ASSUME LendingInv, HolderIsLinked, HolderIsLinked', ServerNext
  PROVE  Desktop!Next \/ UNCHANGED Desktop!vars
<1>0. link \in [Clients -> Link] /\ peer \in Connections /\ Nobody \notin Clients
  BY SessionAssumption DEF LendingInv, TypeOK, Connections
<1>1. ASSUME UNCHANGED link PROVE Holder' = Holder /\ Waiting' = Waiting
  BY <1>1 DEF Holder, Waiting
<1>2. CASE ServerStarts
  <2>1. Desktop!Open
    BY <1>1, <1>2 DEF ServerStarts, Desktop!Open, AcceptorOpen, InHandshake
  <2>2. QED
    BY <2>1 DEF Desktop!Next
<1>3. CASE Accept
  BY <1>1, <1>3 DEF Accept, Desktop!vars, AcceptorOpen, InHandshake
<1>4. CASE LastMessageArrives
  BY <1>1, <1>4 DEF LastMessageArrives, Desktop!vars, AcceptorOpen, InHandshake
<1>5. CASE ServerHandshakeDone /\ peer \in Clients
  <2>1. /\ peer \in Clients /\ link[peer] = "queued" /\ served = {}
        /\ server = "replying" /\ server' = "serving" /\ served' = {peer}
        /\ link'[peer] = "up" /\ \A d \in Clients \ {peer} : link'[d] = link[d]
    BY <1>5 DEF ServerHandshakeDone, LendingInv, ServedInv, Places, PeerIsReal, InHandshake
  <2>2. Holder' = peer
    BY <2>1 DEF HolderIsLinked
  <2>3. peer \in Waiting /\ Waiting' = Waiting \ {peer}
    BY <2>1 DEF Waiting
  <2>4. Desktop!Lend(peer)
    BY <2>1, <2>2, <2>3 DEF Desktop!Lend, AcceptorOpen, InHandshake
  <2>5. QED
    BY <2>1, <2>4 DEF Desktop!Next
<1>6. CASE ServerHandshakeDone /\ peer \notin Clients
  <2>1. link' = link /\ served' = served /\ server = "replying" /\ server' = "serving"
    BY <1>0, <1>6 DEF ServerHandshakeDone, LendingInv, TypeOK
  <2>2. QED
    BY <1>1, <2>1 DEF Desktop!vars, AcceptorOpen, InHandshake
<1>7. ASSUME ServerReturns, AcceptorOpen PROVE Desktop!Next
  <2>1. \A c \in Clients : link'[c] \notin {"up", "queued"}
    BY <1>0, <1>7 DEF ServerReturns
  <2>2. Holder' = Nobody /\ Waiting' = {}
    BY <2>1 DEF HolderIsLinked, Waiting
  <2>3. Desktop!Close
    BY <1>7, <2>2 DEF ServerReturns, Desktop!Close, AcceptorOpen, InHandshake
  <2>4. QED
    BY <2>3 DEF Desktop!Next
<1>8. QED
  BY <1>2, <1>3, <1>4, <1>5, <1>6, <1>7
  DEF ServerNext, ServerHandshakeFails, SessionEnds, ServerEnds, AcceptorOpen, InHandshake

LEMMA NetworkLends ==
  ASSUME LendingInv, HolderIsLinked, HolderIsLinked', NEW c \in Clients, NetworkNext(c)
  PROVE  Desktop!Next \/ UNCHANGED Desktop!vars
<1>1. /\ link'[c] \notin {"up", "queued"} /\ UNCHANGED <<server, served>>
      /\ \A d \in Clients \ {c} : link'[d] = link[d]
  BY DEF NetworkNext, ConnectionBreaks, NetworkCuts, LendingInv, TypeOK
<1>2. QED
  BY <1>1, EndLends

(* However many clients there are, and whatever is started, killed or      *)
(* broken: a run of the server lends its desktop to one client that waits  *)
(* for it, never passes it on, and leaves nobody waiting when it returns.  *)
THEOREM SessionImplementsLending == Spec => ImplementsLending
<1>1. LendingInv => HolderIsLinked
  BY HolderOfTheDesktop DEF LendingInv
<1>2. LendingInv /\ HolderIsLinked /\ HolderIsLinked' /\ [Next]_vars
        => [Desktop!Next]_(Desktop!vars)
  <2> SUFFICES ASSUME LendingInv, HolderIsLinked, HolderIsLinked', [Next]_vars
               PROVE  Desktop!Next \/ UNCHANGED Desktop!vars
    OBVIOUS
  <2>1. CASE UNCHANGED vars
    BY <2>1 DEF vars, Desktop!vars, AcceptorOpen, InHandshake, Holder, Waiting
  <2>2. QED
    BY <2>1, ClientsLend, ServerLends, NetworkLends DEF Next
<1>3. QED
  BY <1>1, <1>2, AlwaysInPlace, LendingStarts, PTL DEF Spec, Desktop!Spec, ImplementsLending
=============================================================================
