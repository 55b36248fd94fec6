------------------------------ MODULE QrtrFlow ------------------------------
(***************************************************************************)
(* Transmit flow control of the QRTR router (net/qrtr/af_qrtr.c).          *)
(*                                                                         *)
(* One flow is modelled: all data packets from the sockets of this node    *)
(* (Senders) to one port of a neighbour node.  Every packet counts in      *)
(* flow->pending; the one that makes it QRTR_TX_FLOW_LOW carries           *)
(* confirm_rx, and the receiver answers with RESUME_TX when a thread reads *)
(* that packet.  RESUME_TX sets pending back to 0.  At QRTR_TX_FLOW_HIGH   *)
(* senders sleep, or get -EAGAIN and are remembered in flow->waiters.      *)
(*                                                                         *)
(* A step is one critical section under flow->lock or ep_lock, so a packet *)
(* is counted in one step and handed to the transport in a later one.  The *)
(* hello exchange with the neighbour is over.                              *)
(***************************************************************************)
EXTENDS Integers, Sequences, FiniteSets

CONSTANTS
    QRTR_TX_FLOW_HIGH, QRTR_TX_FLOW_LOW,
    Senders,    \* sockets with a thread in qrtr_sendmsg
    MaxSends,   \* bound: calls of qrtr_sendmsg in one behaviour
    Faults      \* what may go wrong: a subset of FaultKinds

\* "xmit": the transport refuses a packet; "drop": the receiving node, or
\* the transport on the way back, loses one; "unregister": the endpoint
\* goes away; "signal", "timeout": a blocked sender is interrupted or
\* reaches SO_SNDTIMEO.
FaultKinds == {"xmit", "drop", "unregister", "signal", "timeout"}

ASSUME FlowAssumption ==
    /\ QRTR_TX_FLOW_LOW \in Nat /\ QRTR_TX_FLOW_HIGH \in Nat
    /\ 0 < QRTR_TX_FLOW_LOW /\ QRTR_TX_FLOW_LOW <= QRTR_TX_FLOW_HIGH
ASSUME SendsAssumption ==
    /\ MaxSends \in Nat /\ Faults \subseteq FaultKinds
    /\ IsFiniteSet(Senders) /\ Senders # {}

VARIABLES
    pending,     \* flow->pending
    tx_failed,   \* flow->tx_failed
    waiters,     \* flow->waiters: sockets to tell when the flow resumes
    ep,          \* node->ep is not NULL
    pc,          \* where a sender is: idle, wait, xmit, failed
    confirm_rx,  \* the sender's local variable
    woken,       \* a sleeping sender is about to test its condition
    ret,         \* what its last qrtr_sendmsg returned
    chan,        \* packets in the transport: their confirm_rx flags
    rxq,         \* packets in the receiver's socket queue: likewise
    resume,      \* RESUME_TX packets on their way back
    inbox,       \* senders with a RESUME_TX in their own receive queue
    lost,        \* history: confirm_rx packets and RESUME_TX lost for good
    nsent        \* calls made so far (bounded by MaxSends)

flow   == <<pending, tx_failed, waiters>>
sender == <<pc, confirm_rx, woken, ret>>
net    == <<chan, rxq, resume, inbox, lost>>
vars   == <<pending, tx_failed, waiters, ep, pc, confirm_rx, woken, ret,
            chan, rxq, resume, inbox, lost, nsent>>

-----------------------------------------------------------------------------
(* qrtr_tx_wait *)

\* Mutant: nobody waits.
ConditionAlways == TRUE

\* The condition of wait_event_interruptible_lock_irq_timeout.
Condition == pending < QRTR_TX_FLOW_HIGH \/ tx_failed \/ ~ep

Return(s, value) ==
    /\ pc' = [pc EXCEPT ![s] = "idle"]
    /\ ret' = [ret EXCEPT ![s] = value]

\* qrtr_tx_wait returns confirm and the packet goes on to the transport.
Proceed(s, confirm) ==
    /\ pc' = [pc EXCEPT ![s] = "xmit"]
    /\ confirm_rx' = [confirm_rx EXCEPT ![s] = confirm]
    /\ UNCHANGED ret

\* The condition holds: what the branches after the wait decide.
TxDecide(s) ==
    /\ Condition
    /\ \/ /\ ~ep
          /\ Return(s, "EPIPE")
          /\ UNCHANGED <<pending, tx_failed, confirm_rx>>
       \/ /\ ep /\ tx_failed
          /\ tx_failed' = FALSE
          /\ Proceed(s, TRUE)
          /\ UNCHANGED pending
       \/ /\ ep /\ ~tx_failed
          /\ pending' = pending + 1
          /\ Proceed(s, pending + 1 = QRTR_TX_FLOW_LOW)
          /\ UNCHANGED tx_failed
    /\ UNCHANGED waiters

\* The wait ended at its timeout (0 with MSG_DONTWAIT) and the flow is
\* still full.
TxAgain(s) ==
    /\ ~Condition
    /\ waiters' = waiters \cup {s}
    /\ Return(s, "EAGAIN")
    /\ UNCHANGED <<pending, tx_failed, confirm_rx>>

\* The wait begins.
TxBlock(s) ==
    /\ ~Condition
    /\ pc' = [pc EXCEPT ![s] = "wait"]
    /\ UNCHANGED <<flow, confirm_rx, ret>>

\* A thread calls qrtr_sendmsg with a data packet, with or without
\* MSG_DONTWAIT.
Sendmsg(s, dontwait) ==
    /\ pc[s] = "idle"
    /\ nsent < MaxSends
    /\ nsent' = nsent + 1
    /\ inbox' = inbox \ {s}
    /\ \/ TxDecide(s)
       \/ dontwait /\ TxAgain(s)
       \/ ~dontwait /\ TxBlock(s)
    /\ woken' = [woken EXCEPT ![s] = FALSE]
    /\ UNCHANGED <<ep, chan, rxq, resume, lost>>

\* A woken sender tests the condition under flow->lock and goes on ...
Wake(s) ==
    /\ pc[s] = "wait" /\ woken[s]
    /\ TxDecide(s)
    /\ woken' = [woken EXCEPT ![s] = FALSE]
    /\ UNCHANGED <<ep, net, nsent>>

\* ... or sleeps again.
Sleep(s) ==
    /\ pc[s] = "wait" /\ woken[s] /\ ~Condition
    /\ woken' = [woken EXCEPT ![s] = FALSE]
    /\ UNCHANGED <<flow, ep, pc, confirm_rx, ret, net, nsent>>

\* SO_SNDTIMEO expires.  The condition is tested once more.
Timeout(s) ==
    /\ "timeout" \in Faults
    /\ pc[s] = "wait"
    /\ TxDecide(s) \/ TxAgain(s)
    /\ woken' = [woken EXCEPT ![s] = FALSE]
    /\ UNCHANGED <<ep, net, nsent>>

\* A signal ends the wait.
Signal(s) ==
    /\ "signal" \in Faults
    /\ pc[s] = "wait" /\ ~Condition
    /\ Return(s, "ERESTARTSYS")
    /\ woken' = [woken EXCEPT ![s] = FALSE]
    /\ UNCHANGED <<flow, ep, confirm_rx, net, nsent>>

-----------------------------------------------------------------------------
(* qrtr_node_enqueue after qrtr_tx_wait, and qrtr_tx_flow_failed *)

Xmit(s) ==
    /\ pc[s] = "xmit" /\ ep
    /\ chan' = Append(chan, confirm_rx[s])
    /\ Return(s, "0")
    /\ UNCHANGED <<flow, ep, confirm_rx, woken, rxq, resume, inbox, lost,
                   nsent>>

\* Mutant: qrtr_tx_flow_failed is not called.
XmitFailSilent(s) ==
    /\ pc[s] = "xmit"
    /\ ~ep \/ "xmit" \in Faults
    /\ Return(s, "ENODEV")
    /\ UNCHANGED <<flow, ep, confirm_rx, woken, net, nsent>>

\* Mutant: qrtr_tx_flow_failed is called for packets without confirm_rx too.
XmitFailAlways(s) ==
    /\ pc[s] = "xmit"
    /\ ~ep \/ "xmit" \in Faults
    /\ pc' = [pc EXCEPT ![s] = "failed"]
    /\ ret' = [ret EXCEPT ![s] = "ENODEV"]
    /\ UNCHANGED <<flow, ep, confirm_rx, woken, net, nsent>>

\* The endpoint is gone, or its xmit function reports an error.
XmitFail(s) ==
    /\ pc[s] = "xmit"
    /\ ~ep \/ "xmit" \in Faults
    /\ pc' = [pc EXCEPT ![s] = IF confirm_rx[s] THEN "failed" ELSE "idle"]
    /\ ret' = [ret EXCEPT ![s] = "ENODEV"]
    /\ UNCHANGED <<flow, ep, confirm_rx, woken, net, nsent>>

\* A lost confirm_rx is left to the next sender.  Nobody is woken.
FlowFailed(s) ==
    /\ pc[s] = "failed"
    /\ pc' = [pc EXCEPT ![s] = "idle"]
    /\ tx_failed' = TRUE
    /\ UNCHANGED <<pending, waiters, ep, confirm_rx, woken, ret, net, nsent>>

-----------------------------------------------------------------------------
(* The receiving node: qrtr_endpoint_post and qrtr_recvmsg *)

\* sock_queue_rcv_skb accepts the packet.
Post ==
    /\ chan # <<>>
    /\ rxq' = Append(rxq, Head(chan))
    /\ chan' = Tail(chan)
    /\ UNCHANGED <<flow, ep, sender, resume, inbox, lost, nsent>>

\* No socket has the port, or its receive buffer is full.
PostDrop ==
    /\ "drop" \in Faults
    /\ chan # <<>>
    /\ chan' = Tail(chan)
    /\ lost' = (IF Head(chan) THEN lost + 1 ELSE lost)
    /\ UNCHANGED <<flow, ep, sender, rxq, resume, inbox, nsent>>

\* A thread reads a packet; confirm_rx makes it send RESUME_TX, whose loss
\* nobody notices (the result of qrtr_send_resume_tx is not looked at).
Recvmsg ==
    /\ rxq # <<>>
    /\ rxq' = Tail(rxq)
    /\ \/ /\ resume' = (IF Head(rxq) THEN resume + 1 ELSE resume)
          /\ UNCHANGED lost
       \/ /\ "drop" \in Faults
          /\ lost' = (IF Head(rxq) THEN lost + 1 ELSE lost)
          /\ UNCHANGED resume
    /\ UNCHANGED <<flow, ep, sender, chan, inbox, nsent>>

-----------------------------------------------------------------------------
(* Back on this node: qrtr_tx_resume and qrtr_endpoint_unregister *)

WakeUpAll == woken' = [s \in Senders |-> pc[s] = "wait"]

\* Mutant: the sleepers are not woken.
ResumeWithoutWakeup ==
    /\ resume > 0
    /\ resume' = resume - 1
    /\ pending' = 0
    /\ inbox' = inbox \cup waiters
    /\ waiters' = {}
    /\ UNCHANGED <<tx_failed, ep, sender, chan, rxq, lost, nsent>>

\* Mutant: the list of waiters is freed without telling them.
ResumeWithoutNotice ==
    /\ resume > 0
    /\ resume' = resume - 1
    /\ pending' = 0
    /\ WakeUpAll
    /\ waiters' = {}
    /\ UNCHANGED <<tx_failed, ep, pc, confirm_rx, ret, chan, rxq, inbox, lost,
                   nsent>>

\* The worker of the node handles RESUME_TX: the counter starts again,
\* sleepers are woken, and the sockets that got -EAGAIN receive RESUME_TX.
qrtr_tx_resume ==
    /\ resume > 0
    /\ resume' = resume - 1
    /\ pending' = 0
    /\ WakeUpAll
    /\ inbox' = inbox \cup waiters
    /\ waiters' = {}
    /\ UNCHANGED <<tx_failed, ep, pc, confirm_rx, ret, chan, rxq, lost, nsent>>

\* The endpoint is cleared under ep_lock, then the sleepers are woken.
\* What they wait for does not change back, so one step is enough.
qrtr_endpoint_unregister ==
    /\ "unregister" \in Faults
    /\ ep
    /\ ep' = FALSE
    /\ WakeUpAll
    /\ UNCHANGED <<flow, pc, confirm_rx, ret, net, nsent>>

-----------------------------------------------------------------------------
Init ==
    /\ pending = 0 /\ tx_failed = FALSE /\ waiters = {} /\ ep = TRUE
    /\ pc = [s \in Senders |-> "idle"]
    /\ confirm_rx = [s \in Senders |-> FALSE]
    /\ woken = [s \in Senders |-> FALSE]
    /\ ret = [s \in Senders |-> "0"]
    /\ chan = <<>> /\ rxq = <<>> /\ resume = 0 /\ inbox = {}
    /\ lost = 0 /\ nsent = 0

SenderStep(s) ==
    \/ Wake(s) \/ Sleep(s) \/ Xmit(s) \/ XmitFail(s) \/ FlowFailed(s)

Receiver == Post \/ PostDrop \/ Recvmsg

Next ==
    \/ \E s \in Senders, b \in BOOLEAN : Sendmsg(s, b)
    \/ \E s \in Senders : SenderStep(s) \/ Timeout(s) \/ Signal(s)
    \/ Receiver \/ qrtr_tx_resume \/ qrtr_endpoint_unregister

\* Threads that can run do, the transport delivers, somebody reads the
\* receiving socket, the worker handles what it is given.  Nobody is
\* obliged to send, and no fault to happen.
Fairness ==
    /\ \A s \in Senders : WF_vars(SenderStep(s))
    /\ WF_vars(Post) /\ WF_vars(Recvmsg) /\ WF_vars(qrtr_tx_resume)

Spec == Init /\ [][Next]_vars
FairSpec == Spec /\ Fairness

-----------------------------------------------------------------------------
(* Properties *)

\* The types of the state.
TypeOK ==
    /\ pending \in 0 .. QRTR_TX_FLOW_HIGH
    /\ tx_failed \in BOOLEAN /\ ep \in BOOLEAN
    /\ waiters \subseteq Senders /\ inbox \subseteq Senders
    /\ pc \in [Senders -> {"idle", "wait", "xmit", "failed"}]
    /\ confirm_rx \in [Senders -> BOOLEAN]
    /\ woken \in [Senders -> BOOLEAN]
    /\ ret \in [Senders -> {"0", "EPIPE", "EAGAIN", "ERESTARTSYS", "ENODEV"}]
    /\ chan \in Seq(BOOLEAN) /\ rxq \in Seq(BOOLEAN)
    /\ resume \in Nat /\ lost \in Nat /\ nsent \in Nat

\* Senders that are about to transmit a packet with confirm_rx, or have
\* failed to and have not yet set tx_failed.
Confirming == {s \in Senders : pc[s] \in {"xmit", "failed"} /\ confirm_rx[s]}

\* Packets with confirm_rx in a queue.
Confirms(queue) == {i \in DOMAIN queue : queue[i]}

\* The places where the confirmation the flow waits for can be: with a
\* sender, in the transport, unread in the receiver's queue, on its way back
\* as RESUME_TX, left to the next sender in tx_failed, or lost.
Tokens ==
    {<<"sender", s>> : s \in Confirming}
    \cup {<<"chan", i>> : i \in Confirms(chan)}
    \cup {<<"rxq", i>> : i \in Confirms(rxq)}
    \cup {<<"resume", i>> : i \in 1 .. resume}
    \cup {<<"lost", i>> : i \in 1 .. lost}
    \cup {<<"tx_failed", i>> : i \in {j \in {0} : tx_failed}}

\* Whenever the low watermark has been passed a confirmation is under way
\* somewhere, or has been lost by the receiving side; a failed transmission
\* never loses it.  This is what makes waiting at the high watermark safe.
ConfirmationUnderWay == pending >= QRTR_TX_FLOW_LOW => Tokens # {}

\* There is never a second confirmation: one left over from an earlier
\* round would reset the counter too early and let senders run past the
\* high watermark.
OneConfirmation ==
    /\ \A x, y \in Tokens : x = y
    /\ pending < QRTR_TX_FLOW_LOW => Tokens = {}

\* A sender that got -EAGAIN is in flow->waiters, or RESUME_TX has been put
\* into its receive queue.
AgainIsNotified ==
    \A s \in Senders : pc[s] = "idle" /\ ret[s] = "EAGAIN" =>
        s \in waiters \/ s \in inbox

\* The receiver never has to buffer more than what was sent after the
\* confirmed packet, a whole round more, and one packet of each other sender
\* that was delayed between being counted and being transmitted.
UnreadBounded ==
    Len(chan) + Len(rxq) <= 2 * QRTR_TX_FLOW_HIGH - QRTR_TX_FLOW_LOW
                            + Cardinality(Senders) - 1

\* A sleeping sender does not sleep for ever, as long as the receiving side
\* loses nothing and no transmission of a confirmed packet has failed.
BlockedSenderProceeds ==
    \A s \in Senders :
        pc[s] = "wait" ~> (pc[s] # "wait" \/ lost > 0 \/ tx_failed)

\* "Work around this by marking the flow as having a failed transmission":
\* a flow with tx_failed set does not stall.
FailedConfirmDoesNotStall ==
    \A s \in Senders :
        (pc[s] = "wait" /\ tx_failed /\ ep) ~> (pc[s] # "wait" \/ ~ep)
=============================================================================
