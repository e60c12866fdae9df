----------------------------- MODULE RemoteDesk -----------------------------
(***************************************************************************)
(* What sharing promises, without sockets, threads or processes: the       *)
(* events the host forwards are applied to the desktop of the peer one by  *)
(* one, in the order they were forwarded, each once, and each button as    *)
(* itself.  When sharing ends, the latest events may never be applied,     *)
(* but no earlier one is skipped.                                          *)
(***************************************************************************)
EXTENDS EventPacket, Sequences

CONSTANT Events   (* the packets that may be forwarded                     *)

VARIABLES
  queue,     (* forwarded and not yet applied                              *)
  down,      (* the keys that are down on the peer                         *)
  pressed,   (* the mouse buttons that are down on the peer                *)
  at,        (* the x of the last mouse event applied, as it was sent      *)
  open       (* sharing goes on                                            *)

vars == <<queue, down, pressed, at, open>>

Init ==
  /\ queue = <<>>
  /\ down = {}
  /\ pressed = {}
  /\ at \in Int
  /\ open = TRUE

Forward(p) ==
  /\ open
  /\ queue' = Append(queue, p)
  /\ UNCHANGED <<down, pressed, at, open>>

After(p, set, press, release) ==
  IF p.type = press THEN set \cup {p.code}
  ELSE IF p.type = release THEN set \ {p.code}
  ELSE set

Apply ==
  /\ queue # <<>>
  /\ LET p == Head(queue)
     IN /\ down' = After(p, down, "KeyPress", "KeyRelease")
        /\ pressed' = After(p, pressed, "MouseButtonPress", "MouseButtonRelease")
        /\ at' = IF p.type \in KeyType THEN at ELSE p.x
  /\ queue' = Tail(queue)
  /\ UNCHANGED open

(* Sharing ends, or more of what was left behind is lost.                  *)
End ==
  /\ open' = FALSE
  /\ \E n \in 0 .. Len(queue) : queue' = SubSeq(queue, 1, n)
  /\ UNCHANGED <<down, pressed, at>>

Next == (\E p \in Events : Forward(p)) \/ Apply \/ End

Spec == Init /\ [][Next]_vars
=============================================================================
