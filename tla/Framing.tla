------------------------------ MODULE Framing ------------------------------
(***************************************************************************)
(* How the read loop of network_server cuts packets out of the stream of   *)
(* bytes.  The client writes each packet with one write; the server calls  *)
(* read_some, takes what it returns for one packet, and drops or misreads  *)
(* whatever is not.  What one read_some returns is not in its hands:       *)
(*                                                                         *)
(*   record  the bytes of one write: one TLS record, what OpenSSL returns  *)
(*   whole   the bytes of one or more writes                               *)
(*   any     any bytes that have arrived, as the contract of read_some has *)
(*           it                                                            *)
(*                                                                         *)
(* A packet is known by its place in `sent'; injected is a history of what *)
(* went to the injectors, with Garbled for a payload no write contained.   *)
(***************************************************************************)
EXTENDS EventPacket, Sequences

CONSTANTS
  MaxSent   (* bounds the writes of the client, for each kind of stream    *)

Boundaries == {"record", "whole", "any"}

ASSUME FramingAssumption == MaxSent \in [Boundaries -> Nat]

VARIABLES
  boundary,   (* how reads cut the stream: one of the three, for ever      *)
  sent,       (* the types of the packets written                          *)
  ends,       (* the number of bytes written up to the end of each of them *)
  client,     (* running or exited                                         *)
  pos,        (* the number of bytes the server has read                   *)
  injected,   (* history                                                   *)
  server      (* serving, or why main has returned                         *)

vars == <<boundary, sent, ends, client, pos, injected, server>>

BufferSize == 4096
Garbled == 0

(* The number of bytes of the first i packets.                             *)
Offset(i) == IF i = 0 THEN 0 ELSE ends[i]

Ends == {Offset(i) : i \in 1 .. Len(sent)}

(* read_some may return the next n bytes.                                  *)
MayReturn(n) ==
  \/ boundary = "record" /\ pos + n \in Ends /\ \A e \in Ends : e > pos => pos + n <= e
  \/ boundary = "whole" /\ pos + n \in Ends
  \/ boundary = "any"

ReadLengths ==
  {n \in 1 .. (Offset(Len(sent)) - pos) : n <= BufferSize /\ MayReturn(n)}

Init ==
  /\ boundary \in Boundaries
  /\ sent = <<>>
  /\ ends = <<>>
  /\ client = "running"
  /\ pos = 0
  /\ injected = <<>>
  /\ server = "serving"

-----------------------------------------------------------------------------
WritePacket(t) ==
  /\ client = "running"
  /\ Len(sent) < MaxSent[boundary]
  /\ sent' = Append(sent, t)
  /\ ends' = Append(ends, Offset(Len(sent)) + WireSize(t))
  /\ UNCHANGED <<boundary, client, pos, injected, server>>

ClientExits ==
  /\ client = "running"
  /\ client' = "exited"
  /\ UNCHANGED <<boundary, sent, ends, pos, injected, server>>

Skip == UNCHANGED <<injected, server>>

Inject(i) ==
  /\ injected' = Append(injected, i)
  /\ UNCHANGED server

(* An exception, or the end of the process.                                *)
Fail(how) ==
  /\ server' = how
  /\ UNCHANGED injected

(* Mutant: a packet must be shorter than what was read.                    *)
HandleStrict(i, n) ==
  \/ n > WireSize(sent[i]) /\ Inject(i)
  \/ n <= WireSize(sent[i]) /\ Skip

(* fromBytes reads the type and the declared size of packet i.             *)
(* payload.assign then copies that many bytes, beyond the end of the data  *)
(* when fewer have arrived: what it finds there, or whether it returns, is *)
(* undefined.  The size of the copy is the declared size, so the check for *)
(* a mismatch always passes, and bytes after the packet are not looked at. *)
HandlePacket(i, n) ==
  \/ n >= WireSize(sent[i]) /\ Inject(i)
  \/ n < WireSize(sent[i]) /\ (Inject(Garbled) \/ Fail("crashed"))

(* The header is made of bytes from within a packet: the type may be       *)
(* unknown, the payload too small for the injector, or too large.          *)
HandleGarbage ==
  \/ Skip
  \/ Inject(Garbled)
  \/ Fail("rejected")
  \/ Fail("crashed")

(* Mutant: a packet that was handled is read again.                        *)
ReadAgain(n) ==
  /\ server = "serving"
  /\ pos' = IF n < HeaderSize THEN pos + n ELSE pos
  /\ \E i \in 1 .. Len(sent) : Offset(i - 1) = pos /\ HandlePacket(i, n)
  /\ UNCHANGED <<boundary, sent, ends, client>>

(* Mutant: every read takes a full buffer off the stream.                  *)
ReadFullBuffer(n) ==
  /\ server = "serving"
  /\ pos' = pos + BufferSize
  /\ \E i \in 1 .. Len(sent) : Offset(i - 1) = pos /\ HandlePacket(i, n)
  /\ UNCHANGED <<boundary, sent, ends, client>>

(* Mutant: the last byte of each read stays in the stream.                 *)
ReadOneShort(n) ==
  /\ server = "serving"
  /\ pos' = pos + n - 1
  /\ \/ \E i \in 1 .. Len(sent) : Offset(i - 1) = pos /\ HandlePacket(i, n)
     \/ (\A i \in 1 .. Len(sent) : Offset(i - 1) # pos) /\ HandleGarbage
  /\ UNCHANGED <<boundary, sent, ends, client>>

(* One turn of the loop.                                                   *)
Read(n) ==
  /\ server = "serving"
  /\ pos' = pos + n
  /\ \/ n < HeaderSize /\ Skip
     \/ /\ n >= HeaderSize
        /\ \E i \in 1 .. Len(sent) : Offset(i - 1) = pos /\ HandlePacket(i, n)
     \/ /\ n >= HeaderSize
        /\ \A i \in 1 .. Len(sent) : Offset(i - 1) # pos
        /\ HandleGarbage
  /\ UNCHANGED <<boundary, sent, ends, client>>

(* Mutant: the loop ends when there is nothing to read for now.            *)
EndWhenDrained ==
  /\ server = "serving"
  /\ pos = Offset(Len(sent))
  /\ Fail("closed")
  /\ UNCHANGED <<boundary, sent, ends, client, pos>>

EndOfStream ==
  /\ server = "serving"
  /\ client = "exited"
  /\ pos = Offset(Len(sent))
  /\ Fail("closed")
  /\ UNCHANGED <<boundary, sent, ends, client, pos>>

Finished ==
  /\ client = "exited"
  /\ server # "serving"
  /\ UNCHANGED vars

(* read_some returns n bytes, of those it may return.                      *)
ReadSome == \E n \in ReadLengths : Read(n)

Next ==
  \/ \E t \in EventType : WritePacket(t)
  \/ ClientExits
  \/ ReadSome
  \/ EndOfStream
  \/ Finished

Spec == Init /\ [][Next]_vars
FairSpec == Spec /\ WF_vars(ReadSome)

-----------------------------------------------------------------------------
(* Type invariant of the read loop.                                        *)
TypeOK ==
  /\ boundary \in Boundaries
  /\ sent \in Seq(EventType) /\ Len(sent) <= MaxSent[boundary]
  /\ ends \in Seq(Nat) /\ Len(ends) = Len(sent)
  /\ client \in {"running", "exited"}
  /\ pos \in 0 .. Offset(Len(sent))
  /\ injected \in Seq(0 .. MaxSent[boundary])
  /\ server \in {"serving", "closed", "rejected", "crashed"}

(* When a read returns one record, the loop is exact: after every turn the *)
(* packets injected are those whose bytes have been read, each once, in    *)
(* order and unchanged, and the server never fails on one.                 *)
ExactDelivery ==
  boundary = "record" =>
    /\ pos = Offset(Len(injected))
    /\ \A i \in 1 .. Len(injected) : injected[i] = i
    /\ server \in {"serving", "closed"}

(* When reads may return several packets, some are lost, but what is       *)
(* injected is never garbled and the server never fails.                   *)
NeverGarbled ==
  boundary # "any" =>
    /\ \A i \in 1 .. Len(injected) : injected[i] # Garbled
    /\ server \in {"serving", "closed"}

(* However the stream is cut, no packet is injected twice or out of order. *)
NoReplay ==
  \A i, j \in 1 .. Len(injected) :
    i < j /\ injected[i] # Garbled /\ injected[j] # Garbled
      => injected[i] < injected[j]

(* The packets the server has read to the end, and what went to the        *)
(* injectors: the packets themselves, where injected has their places.     *)
Taken == CHOOSE i \in 0 .. Len(sent) : pos = Offset(i)

Received ==
  [k \in 1 .. Len(injected) |->
     IF injected[k] \in 1 .. Len(sent) THEN sent[injected[k]] ELSE "garbled"]

Stream == INSTANCE PacketStream WITH
  Packet <- EventType, coalesces <- boundary = "whole", sent <- sent, taken <- Taken,
  received <- Received, sending <- client = "running", receiving <- server = "serving"

(* As long as a read ends where a write ended, the loop is the receiver of *)
(* PacketStream: it loses packets only to a read that returned several,    *)
(* and ends only after the client has, with nothing left to read.          *)
ImplementsStream ==
  /\ boundary # "any" => Stream!Init
  /\ [][boundary # "any" => Stream!Next \/ UNCHANGED Stream!vars]_vars

(* Every packet written is injected, when a read returns one record.       *)
EverythingInjected ==
  \A n \in 1 .. MaxSent["record"] :
    boundary = "record" /\ Len(sent) >= n ~> Len(injected) >= n

(* The comment in the loop: "Validate payload size matches declared size". *)
(* What is injected was then one packet, all of it and no more.            *)
MismatchedPayloadSkipped ==
  [][injected' # injected
       => \E i \in 1 .. Len(sent) : pos = Offset(i - 1) /\ pos' = Offset(i)]_vars
=============================================================================
