------------------------------ MODULE Session ------------------------------
(***************************************************************************)
(* The life of the two programs: one network_server, any number of         *)
(* network_clients that want to share with it, and users who start, kill   *)
(* and restart them.  The server accepts one connection per run and        *)
(* returns when it ends; its acceptor stays open meanwhile, so the kernel  *)
(* completes the connections of other clients and queues them.             *)
(*                                                                         *)
(* Nobody stands for a connection whose client has gone, and the server's  *)
(* machine knows; Silent for one that carries nothing more, and no machine *)
(* knows: the network is cut, or the client's machine has been suspended.  *)
(* No code here has a timeout or asks for keep-alives; whether and when    *)
(* the kernel gives such a connection up is left open.                     *)
(***************************************************************************)
EXTENDS Integers, Sequences, FiniteSets

CONSTANTS
  Clients,
  Nobody,
  Silent,
  MaxBacklog   (* the connections the kernel queues for the acceptor      *)

ASSUME SessionAssumption ==
  /\ Nobody \notin Clients /\ Silent \notin Clients /\ Nobody # Silent
  /\ MaxBacklog \in Nat \ {0}

VARIABLES
  phase,     (* how far main of each client is                             *)
  link,      (* the connection of each client, as the client will find it  *)
  server,    (* how far main of the server is                              *)
  peer,      (* who is at the other end of the server's socket             *)
  backlog,   (* the connections waiting to be accepted                     *)
  served     (* history: the clients this run of the server has served     *)

vars == <<phase, link, server, peer, backlog, served>>

(* starting: up to connect; waiting: in handshake; connected: before       *)
(* hook_run; sharing: in hook_run.                                         *)
ClientPhase == {"off", "starting", "waiting", "connected", "sharing", "exited"}

(* none; queued: not yet through the handshake; up: the server has         *)
(* completed the handshake; reset and broken: queued and up, and then      *)
(* ended, and the client is told; cut and lost: queued and up, and then    *)
(* silent.                                                                 *)
Link == {"none", "queued", "up", "reset", "broken", "cut", "lost"}

(* handshaking: in handshake, until the client's last message arrives;     *)
(* replying: in handshake, to send the last message of all.                *)
ServerPhase == {"off", "listening", "handshaking", "replying", "serving", "exited"}

Init ==
  /\ phase = [c \in Clients |-> "off"]
  /\ link = [c \in Clients |-> "none"]
  /\ server = "off"
  /\ peer = Nobody
  /\ backlog = <<>>
  /\ served = {}

Enter(c, p) == phase' = [phase EXCEPT ![c] = p]

-----------------------------------------------------------------------------
(* main of the client up to connect: the threshold is set, the certificate *)
(* loaded, the address resolved.                                           *)
ClientStarts(c) ==
  /\ phase[c] \in {"off", "exited"}
  /\ Enter(c, "starting")
  /\ link' = [link EXCEPT ![c] = "none"]
  /\ UNCHANGED <<server, peer, backlog, served>>

(* No certificate, an unknown host, a refused connection or a timeout.     *)
ClientStartFails(c) ==
  /\ phase[c] = "starting"
  /\ Enter(c, "exited")
  /\ UNCHANGED <<link, server, peer, backlog, served>>

InHandshake == server \in {"handshaking", "replying"}

AcceptorOpen == server \in {"listening", "serving"} \/ InHandshake

(* Mutant: connections are queued without a limit.                         *)
ConnectUnbounded(c) ==
  /\ phase[c] = "starting"
  /\ AcceptorOpen
  /\ Enter(c, "waiting")
  /\ link' = [link EXCEPT ![c] = "queued"]
  /\ backlog' = Append(backlog, c)
  /\ UNCHANGED <<server, peer, served>>

(* connect: the kernel completes the connection and queues it.             *)
Connect(c) ==
  /\ phase[c] = "starting"
  /\ AcceptorOpen
  /\ Len(backlog) < MaxBacklog
  /\ Enter(c, "waiting")
  /\ link' = [link EXCEPT ![c] = "queued"]
  /\ backlog' = Append(backlog, c)
  /\ UNCHANGED <<server, peer, served>>

(* The server's last message of the handshake has arrived; the connection  *)
(* may already have ended again.                                           *)
ClientHandshakeDone(c) ==
  /\ phase[c] = "waiting"
  /\ link[c] \in {"up", "broken", "lost"}
  /\ Enter(c, "connected")
  /\ UNCHANGED <<link, server, peer, backlog, served>>

(* The client is told, or its kernel has given up.                         *)
ClientHandshakeFails(c) ==
  /\ phase[c] = "waiting"
  /\ link[c] \in {"reset", "broken", "cut", "lost"}
  /\ Enter(c, "exited")
  /\ UNCHANGED <<link, server, peer, backlog, served>>

HookRuns(c) ==
  /\ phase[c] = "connected"
  /\ Enter(c, "sharing")
  /\ UNCHANGED <<link, server, peer, backlog, served>>

(* The user acts, the write of the event fails, and main returns.          *)
WriteFails(c) ==
  /\ phase[c] = "sharing"
  /\ link[c] \in {"broken", "lost"}
  /\ Enter(c, "exited")
  /\ UNCHANGED <<link, server, peer, backlog, served>>

Replace(c, by, connections) ==
  [i \in DOMAIN connections |-> IF connections[i] = c THEN by ELSE connections[i]]

(* At the server's end of the connection of c is Nobody, or Silent.        *)
Replaced(c, by) ==
  /\ backlog' = Replace(c, by, backlog)
  /\ peer' = IF peer = c THEN by ELSE peer

(* The client ends with its connection: it is killed, hook_run fails or an *)
(* event makes the callback throw.  The server's end remains.              *)
ClientEnds(c) ==
  /\ phase[c] \in {"waiting", "connected", "sharing"}
  /\ Enter(c, "exited")
  /\ link' = [link EXCEPT ![c] = "none"]
  /\ Replaced(c, Nobody)
  /\ UNCHANGED <<server, served>>

(* The network ends the connection, and both ends are told.                *)
ConnectionBreaks(c) ==
  /\ link[c] \in {"queued", "up"}
  /\ link' = [link EXCEPT ![c] = IF @ = "up" THEN "broken" ELSE "reset"]
  /\ Replaced(c, Nobody)
  /\ UNCHANGED <<phase, server, served>>

(* From now on the network carries nothing from c or to it.  (A reset that *)
(* is lost on its way is one that the server's machine sends after that.)  *)
NetworkCuts(c) ==
  /\ link[c] \in {"queued", "up"}
  /\ link' = [link EXCEPT ![c] = IF @ = "up" THEN "lost" ELSE "cut"]
  /\ Replaced(c, Silent)
  /\ UNCHANGED <<phase, server, served>>

-----------------------------------------------------------------------------
(* main of the server up to accept.                                        *)
ServerStarts ==
  /\ server \in {"off", "exited"}
  /\ server' = "listening"
  /\ served' = {}
  /\ UNCHANGED <<phase, link, peer, backlog>>

Accept ==
  /\ server = "listening"
  /\ backlog # <<>>
  /\ server' = "handshaking"
  /\ peer' = Head(backlog)
  /\ backlog' = Tail(backlog)
  /\ UNCHANGED <<phase, link, served>>

(* The client, which is in handshake too, has sent its last message.       *)
LastMessageArrives ==
  /\ server = "handshaking"
  /\ peer \in Clients
  /\ server' = "replying"
  /\ UNCHANGED <<phase, link, peer, backlog, served>>

(* The client need not live to see it.                                     *)
ServerHandshakeDone ==
  /\ server = "replying"
  /\ server' = "serving"
  /\ link' = [c \in Clients |-> IF c = peer THEN "up" ELSE link[c]]
  /\ served' = served \cup ({peer} \cap Clients)
  /\ UNCHANGED <<phase, peer, backlog>>

(* Mutant: main returns and leaves the sockets open.                       *)
ServerReturnsSilently ==
  /\ server' = "exited"
  /\ peer' = Nobody
  /\ backlog' = <<>>
  /\ UNCHANGED <<phase, link, served>>

(* main returns: its socket and its acceptor close, and with them every    *)
(* connection in the queue.                                                *)
ServerReturns ==
  /\ server' = "exited"
  /\ peer' = Nobody
  /\ backlog' = <<>>
  /\ link' = [c \in Clients |->
                CASE link[c] = "up"     -> "broken"
                  [] link[c] = "queued" -> "reset"
                  [] OTHER              -> link[c]]
  /\ UNCHANGED <<phase, served>>

(* Mutant: the handshake with a client that has gone never ends.           *)
HandshakeHangs ==
  /\ InHandshake
  /\ peer \in Clients
  /\ ServerReturns

(* The handshake throws, or the server is killed in it.                    *)
ServerHandshakeFails ==
  /\ InHandshake
  /\ ServerReturns

(* Mutant: when its client has gone, the server accepts the next one.      *)
SessionEndsAcceptsNext ==
  /\ server = "serving"
  /\ peer = Nobody
  /\ server' = "listening"
  /\ UNCHANGED <<phase, link, peer, backlog, served>>

(* The read loop finds that the client has gone.                           *)
SessionEnds ==
  /\ server = "serving"
  /\ peer = Nobody
  /\ ServerReturns

(* The server is killed, or fails: while it listens, or in the read loop.  *)
ServerEnds ==
  /\ server \in {"listening", "serving"}
  /\ ServerReturns

-----------------------------------------------------------------------------
ClientNext(c) ==
  \/ ClientStarts(c) \/ ClientStartFails(c) \/ Connect(c)
  \/ ClientHandshakeDone(c) \/ ClientHandshakeFails(c)
  \/ HookRuns(c) \/ WriteFails(c) \/ ClientEnds(c)

NetworkNext(c) == ConnectionBreaks(c) \/ NetworkCuts(c)

ServerNext ==
  \/ ServerStarts \/ Accept \/ LastMessageArrives
  \/ ServerHandshakeDone \/ ServerHandshakeFails
  \/ SessionEnds \/ ServerEnds

Next == (\E c \in Clients : ClientNext(c) \/ NetworkNext(c)) \/ ServerNext

Told(c) == link[c] \notin {"cut", "lost"}

(* The programs go on where they can: handshake returns when the message   *)
(* it waits for or the end of the connection arrives, and a message of a   *)
(* client that lives does unless the network is cut.  Nothing ends a wait  *)
(* for a silent end.  The users owe nothing: they need not start, restart  *)
(* or kill a program, nor act on a client that shares.                     *)
Fairness ==
  /\ \A c \in Clients :
       /\ WF_vars(Told(c) /\ (ClientHandshakeDone(c) \/ ClientHandshakeFails(c)))
       /\ WF_vars(HookRuns(c))
  /\ WF_vars(Accept)
  /\ WF_vars(LastMessageArrives)
  /\ WF_vars(ServerHandshakeDone)
  /\ WF_vars(peer = Nobody /\ ServerHandshakeFails)
  /\ WF_vars(SessionEnds)

Spec == Init /\ [][Next]_vars
FairSpec == Spec /\ Fairness

-----------------------------------------------------------------------------
(* Type invariant of the two programs' lives.                              *)
TypeOK ==
  /\ phase \in [Clients -> ClientPhase]
  /\ link \in [Clients -> Link]
  /\ server \in ServerPhase
  /\ peer \in Clients \cup {Nobody, Silent}
  /\ backlog \in Seq(Clients \cup {Nobody, Silent}) /\ Len(backlog) <= MaxBacklog
  /\ served \in SUBSET Clients

(* A client whose connection is up is the one the server reads from, and   *)
(* so there is at most one: the connections in the queue, the races        *)
(* between handshake and exit and the restarts of either program never     *)
(* leave two clients acting on one desktop.                                *)
LinkedMeansServed ==
  \A c \in Clients : link[c] = "up" => server = "serving" /\ peer = c

(* A run of the server serves one client: what one client has left pressed *)
(* is never mixed with the events of another in the same run.              *)
OneClientPerRun == Cardinality(served) <= 1

(* A client that waits for the handshake is known to the server's machine: *)
(* it is in the queue or its handshake is under way, so that the server    *)
(* gets to it or, returning, lets it go.                                   *)
QueuedIsKnown ==
  \A c \in Clients :
    link[c] = "queued" =>
      /\ phase[c] = "waiting"
      /\ \/ InHandshake /\ peer = c
         \/ \E i \in DOMAIN backlog : backlog[i] = c

(* The client whose events the server gets, and those that wait for it.    *)
Holder ==
  IF \E c \in Clients : link[c] = "up" THEN CHOOSE c \in Clients : link[c] = "up" ELSE Nobody

Waiting == {c \in Clients : link[c] = "queued"}

Desktop == INSTANCE Lending WITH
  open <- AcceptorOpen, lent <- served # {}, holder <- Holder, waiting <- Waiting

(* Whatever is started, killed or broken, and in whatever order: a run of  *)
(* the server lends its desktop to one client, of those that wait for it,  *)
(* passes it on to no other, and when it returns leaves nobody waiting.    *)
ImplementsLending == Desktop!Spec

(* A client queued behind another one is let go when the server returns:   *)
(* with main return its socket and its acceptor, of which nothing else     *)
(* would tell the client.  Only one that the network has cut off may wait  *)
(* on, for want of a timeout.                                              *)
WaitersReleased ==
  \A c \in Clients :
    phase[c] = "waiting" /\ server = "exited" ~> phase[c] # "waiting" \/ ~Told(c)

HeldUp == InHandshake /\ peer = Silent

(* A server with a client in its queue serves it or returns, even if the   *)
(* client it has accepted is long gone, with one exception, which it has   *)
(* no way out of: a client that has gone silent in the handshake keeps the *)
(* server, and all who queue behind it, waiting.                           *)
QueueMovesOn ==
  server = "listening" /\ backlog # <<>> ~> server \in {"serving", "exited"} \/ HeldUp
=============================================================================
