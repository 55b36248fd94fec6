---------------------------- MODULE MessageQueue ----------------------------
(***************************************************************************)
(* What a G-Link pipe promises to the two ends that share it: messages are *)
(* received whole, once, in the order in which they were sent, and every   *)
(* message sent is received.                                               *)
(***************************************************************************)
EXTENDS Sequences

CONSTANT Message    \* the messages that can be sent

VARIABLE queue      \* sent and not yet received, oldest first

Init == queue = <<>>

Send(m) == queue' = Append(queue, m)

Receive == queue # <<>> /\ queue' = Tail(queue)

Next == (\E m \in Message : Send(m)) \/ Receive

Spec == Init /\ [][Next]_queue /\ WF_queue(Receive)
=============================================================================
