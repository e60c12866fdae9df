------------------------------ MODULE Lending ------------------------------
(***************************************************************************)
(* What the server promises the owner of its desktop: each time it is      *)
(* opened it is lent once, to one client of those that wait for it, and    *)
(* never passed on; when it closes nobody holds it and nobody waits.       *)
(***************************************************************************)
CONSTANTS Clients, Nobody

VARIABLES
  open,      (* the desktop may be lent                                    *)
  lent,      (* it has been, since it was last opened                      *)
  holder,    (* the client whose events it gets                            *)
  waiting    (* the clients that wait for it                               *)

vars == <<open, lent, holder, waiting>>

Init ==
  /\ open = FALSE
  /\ lent = FALSE
  /\ holder = Nobody
  /\ waiting = {}

Open ==
  /\ ~open
  /\ open' = TRUE
  /\ lent' = FALSE
  /\ UNCHANGED <<holder, waiting>>

Wait(c) ==
  /\ open
  /\ c \notin waiting \cup {holder}
  /\ waiting' = waiting \cup {c}
  /\ UNCHANGED <<open, lent, holder>>

GiveUp(c) ==
  /\ c \in waiting
  /\ waiting' = waiting \ {c}
  /\ UNCHANGED <<open, lent, holder>>

Lend(c) ==
  /\ open
  /\ ~lent
  /\ c \in waiting
  /\ lent' = TRUE
  /\ holder' = c
  /\ waiting' = waiting \ {c}
  /\ UNCHANGED open

GiveBack ==
  /\ holder # Nobody
  /\ holder' = Nobody
  /\ UNCHANGED <<open, lent, waiting>>

Close ==
  /\ open
  /\ open' = FALSE
  /\ holder' = Nobody
  /\ waiting' = {}
  /\ UNCHANGED lent

Next ==
  \/ Open \/ GiveBack \/ Close
  \/ \E c \in Clients : Wait(c) \/ GiveUp(c) \/ Lend(c)

Spec == Init /\ [][Next]_vars
=============================================================================
