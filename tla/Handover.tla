------------------------------ MODULE Handover ------------------------------
(***************************************************************************)
(* What the server promises about client connections: a client attaches,   *)
(* is resumed while live traffic is shut off, goes live, and ends; and     *)
(* traffic is let through only by a client that is attached when it goes   *)
(* live, unless another was being resumed beside it.                       *)
(***************************************************************************)
CONSTANTS Clients, NoClient

VARIABLES current,    \* the attached client
          phase,      \* phase[c]: "new", "resuming", "live" or "over"
          gate,       \* live traffic is let through
          overlapped  \* clients resumed while another one was

vars == <<current, phase, gate, overlapped>>

Resuming == {c \in Clients : phase[c] = "resuming"}

Init ==
  /\ current = NoClient
  /\ phase = [c \in Clients |-> "new"]
  /\ gate = TRUE
  /\ overlapped = {}

\* A client that attaches takes the place of the one that is attached.
Attach(c) ==
  /\ phase[c] = "new"
  /\ current' = c
  /\ phase' = [phase EXCEPT ![c] = "resuming"]
  /\ gate' = FALSE
  /\ overlapped' = overlapped \cup {d \in Resuming' : Resuming' # {d}}

Refuse(c) ==
  /\ phase[c] = "new"
  /\ phase' = [phase EXCEPT ![c] = "over"]
  /\ UNCHANGED <<current, gate, overlapped>>

\* Only the attached client can go live; the gate is one for all, and a
\* resumption that was overtaken opens it for the one that overtook it.
GoLive(c) ==
  /\ phase[c] = "resuming"
  /\ current = c \/ c \in overlapped
  /\ phase' = [phase EXCEPT ![c] = "live"]
  /\ gate' = TRUE
  /\ UNCHANGED <<current, overlapped>>

Detach(c) ==
  /\ phase[c] = "live"
  /\ phase' = [phase EXCEPT ![c] = "over"]
  /\ current' = IF current = c THEN NoClient ELSE current
  /\ UNCHANGED <<gate, overlapped>>

Next == \E c \in Clients : Attach(c) \/ Refuse(c) \/ GoLive(c) \/ Detach(c)

Spec == Init /\ [][Next]_vars
=============================================================================
