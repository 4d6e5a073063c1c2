------------------------------ MODULE Channel ------------------------------
(***************************************************************************)
(* What the compressed link promises: each client is handed the commands   *)
(* encoded for it, as they were and in their order.  What is under way     *)
(* when a client goes is lost with it.                                     *)
(***************************************************************************)
EXTENDS Sequences

CONSTANT Commands

VARIABLES queue,    \* commands under way to the client
          received  \* commands the client has been handed

Init == queue = <<>> /\ received = <<>>

Send(c) == queue' = Append(queue, c) /\ UNCHANGED received

Receive ==
  /\ queue # <<>>
  /\ received' = Append(received, Head(queue))
  /\ queue' = Tail(queue)

NewClient == queue' = <<>> /\ received' = <<>>

Next == (\E c \in Commands : Send(c)) \/ Receive \/ NewClient

Spec == Init /\ [][Next]_<<queue, received>>
=============================================================================
