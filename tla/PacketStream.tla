---------------------------- MODULE PacketStream ----------------------------
(***************************************************************************)
(* What a receiver may rely on when each read ends where a write ended:    *)
(* the packets come one by one, in the order they were sent and as they    *)
(* were sent, and the receiver stops only when the sender has stopped and  *)
(* there is nothing left to take.  If reads may coalesce, all but the      *)
(* first of the packets taken together are lost.                           *)
(***************************************************************************)
EXTENDS Naturals, Sequences

CONSTANT Packet

VARIABLES
  coalesces,  (* packets may be taken several at a time, for ever          *)
  sent,       (* the packets sent                                          *)
  taken,      (* the number of them that were taken off the stream         *)
  received,   (* the packets received                                      *)
  sending, receiving

vars == <<coalesces, sent, taken, received, sending, receiving>>

Init ==
  /\ coalesces \in BOOLEAN
  /\ sent = <<>>
  /\ taken = 0
  /\ received = <<>>
  /\ sending = TRUE
  /\ receiving = TRUE

Send(p) ==
  /\ sending
  /\ sent' = Append(sent, p)
  /\ UNCHANGED <<coalesces, taken, received, sending, receiving>>

HangUp ==
  /\ sending
  /\ sending' = FALSE
  /\ UNCHANGED <<coalesces, sent, taken, received, receiving>>

Receive ==
  /\ receiving
  /\ taken' \in taken + 1 .. Len(sent)
  /\ coalesces \/ taken' = taken + 1
  /\ received' = Append(received, sent[taken + 1])
  /\ UNCHANGED <<coalesces, sent, sending, receiving>>

End ==
  /\ receiving
  /\ ~sending
  /\ taken = Len(sent)
  /\ receiving' = FALSE
  /\ UNCHANGED <<coalesces, sent, taken, received, sending>>

Next == (\E p \in Packet : Send(p)) \/ HangUp \/ Receive \/ End

Spec == Init /\ [][Next]_vars
=============================================================================
