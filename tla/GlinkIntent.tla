---------------------------- MODULE GlinkIntent ----------------------------
(***************************************************************************)
(* Receive intents of a G-Link channel (qcom_glink_native.c): the buffers  *)
(* the receiving end offers, the requests of the sending end for more, and *)
(* the data sent into them.                                                *)
(*                                                                         *)
(* Both ends run this driver.  The sending end has threads in              *)
(* __qcom_glink_send and an interrupt handler; it knows the offered        *)
(* buffers as riids.  The receiving end has an interrupt handler, a worker *)
(* (qcom_glink_work), one thread per channel (qcom_glink_rx_thread) and a  *)
(* client that may keep a buffer (RPMSG_DEFER) until it calls              *)
(* qcom_glink_rx_done; it owns the buffers as liids.                       *)
(*                                                                         *)
(* The pipes between the ends are the queues that GlinkFifo implements.    *)
(* The channel is open, zero-copy messages are left out, and a step is     *)
(* what one actor does between two places where another can interfere.     *)
(* The state is that of GlinkIntentState.                                  *)
(***************************************************************************)
EXTENDS GlinkIntentState

sender   == <<pc, call, ret, req_lock>>
request  == <<req_result, intent_received, intent_timeout_count>>
receiver == <<cb_irq, liids, next_id, work, rx_queue, rx_pc, rx_cur,
              defer_intents, owed>>
vars == <<pc, call, ret, riids, req_lock, req_result, intent_received,
          intent_timeout_count, abort_tx, ab, ba, cb_irq, liids, next_id, work,
          rx_queue, rx_pc, rx_cur, defer_intents, owed, nsends, sent, delivered>>

MAX_INTENT_TIMEOUTS == 2

-----------------------------------------------------------------------------
(* The sending end: __qcom_glink_send and qcom_glink_request_intent *)

Fits(len) == {i \in DOMAIN riids : riids[i].size >= len /\ ~riids[i].in_use}

\* The scan takes the smallest intent that fits, the first of equal ones.
Best(len) ==
    CHOOSE i \in Fits(len) : \A j \in Fits(len) :
        \/ riids[i].size < riids[j].size
        \/ riids[i].size = riids[j].size /\ i <= j

Return(t, value) ==
    /\ pc' = [pc EXCEPT ![t] = "idle"]
    /\ ret' = [ret EXCEPT ![t] = value]

\* A client calls rpmsg_send (wait) or rpmsg_trysend.
Send(t, len, wait) ==
    /\ pc[t] = "idle"
    /\ nsends < MaxSends
    /\ nsends' = nsends + 1
    /\ pc' = [pc EXCEPT ![t] = "scan"]
    /\ call' = [call EXCEPT ![t] = [len |-> len, wait |-> wait, offset |-> 0,
                                    iid |-> 0, n |-> nsends + 1]]
    /\ UNCHANGED <<ret, req_lock, riids, request, abort_tx, ab, ba, receiver,
                   sent, delivered>>

\* Mutant: the intent is not marked before the lock is dropped.
ScanWithoutMark(t) ==
    /\ pc[t] = "scan"
    /\ \/ /\ Fits(call[t].len) # {}
          /\ pc' = [pc EXCEPT ![t] = "send"]
          /\ call' = [call EXCEPT ![t].iid = Best(call[t].len)]
          /\ UNCHANGED <<riids, ret>>
       \/ /\ Fits(call[t].len) = {}
          /\ IF call[t].wait
               THEN pc' = [pc EXCEPT ![t] = "lock"] /\ UNCHANGED ret
               ELSE Return(t, "EBUSY")
          /\ UNCHANGED <<riids, call>>
    /\ UNCHANGED <<req_lock, request, abort_tx, ab, ba, receiver, nsends,
                   sent, delivered>>

\* The search for an intent under intent_lock: take one, or ask for one.
Scan(t) ==
    /\ pc[t] = "scan"
    /\ \/ /\ Fits(call[t].len) # {}
          /\ pc' = [pc EXCEPT ![t] = "send"]
          /\ call' = [call EXCEPT ![t].iid = Best(call[t].len)]
          /\ riids' = [riids EXCEPT ![Best(call[t].len)].in_use = TRUE]
          /\ UNCHANGED ret
       \/ /\ Fits(call[t].len) = {}
          /\ IF call[t].wait
               THEN pc' = [pc EXCEPT ![t] = "lock"] /\ UNCHANGED ret
               ELSE Return(t, "EBUSY")
          /\ UNCHANGED <<riids, call>>
    /\ UNCHANGED <<req_lock, request, abort_tx, ab, ba, receiver, nsends,
                   sent, delivered>>

\* qcom_glink_request_intent: the request goes out under intent_req_lock, or
\* fails because of abort_tx.
Request(t) ==
    /\ pc[t] = "lock" /\ req_lock = None
    /\ req_result' = -1
    /\ intent_received' = FALSE
    /\ \/ /\ ~abort_tx
          /\ ab' = Append(ab, [type |-> "req", size |-> call[t].len])
          /\ req_lock' = t
          /\ pc' = [pc EXCEPT ![t] = "wait"]
          /\ UNCHANGED ret
       \/ /\ abort_tx
          /\ Return(t, "EIO")
          /\ UNCHANGED <<ab, req_lock>>
    /\ UNCHANGED <<call, riids, intent_timeout_count, abort_tx, ba, receiver,
                   nsends, sent, delivered>>

Answered == (req_result >= 0 /\ intent_received) \/ abort_tx

\* The wait ends: a grant sends the thread back to the scan.
Granted(t) ==
    /\ pc[t] = "wait" /\ Answered
    /\ req_lock' = None
    /\ \/ /\ req_result # 0
          /\ pc' = [pc EXCEPT ![t] = "scan"]
          /\ UNCHANGED ret
       \/ req_result = 0 /\ Return(t, "ECANCELED")
    /\ UNCHANGED <<call, riids, request, abort_tx, ab, ba, receiver, nsends,
                   sent, delivered>>

\* Nothing more will happen by itself that could answer a request.
Quiet ==
    /\ ab = <<>> /\ ba = <<>> /\ work = <<>> /\ rx_queue = <<>>
    /\ rx_pc = "idle" /\ owed = {}
    /\ \A t \in Threads : pc[t] \in {"idle", "lock", "wait"}

\* Mutant: the error path returns with intent_req_lock held.
TimeoutHoldingLock(t) ==
    /\ pc[t] = "wait" /\ ~Answered
    /\ Quiet \/ "slow" \in Faults
    /\ intent_timeout_count' = intent_timeout_count + 1
    /\ Return(t, "ETIMEDOUT")
    /\ UNCHANGED <<call, req_lock, riids, req_result, intent_received,
                   abort_tx, ab, ba, receiver, nsends, sent, delivered>>

\* 10 s without an answer.
Timeout(t) ==
    /\ pc[t] = "wait" /\ ~Answered
    /\ Quiet \/ "slow" \in Faults
    /\ req_lock' = None
    /\ intent_timeout_count' = intent_timeout_count + 1
    /\ Return(t, "ETIMEDOUT")
    /\ UNCHANGED <<call, riids, req_result, intent_received, abort_tx, ab, ba,
                   receiver, nsends, sent, delivered>>

\* One turn of the loop that sends the chunks.
SendChunk(t) ==
    LET c == call[t]
        rest == c.len - c.offset
        chunk == IF rest > SZ_8K /\ c.wait THEN SZ_8K ELSE rest
        last == chunk = rest
    IN  /\ pc[t] = "send" /\ ~abort_tx
        /\ ab' = Append(ab, [type |-> "data", iid |-> c.iid, n |-> c.n,
                             chunk |-> chunk, left |-> rest - chunk])
        /\ call' = [call EXCEPT ![t].offset = c.offset + chunk]
        /\ IF last THEN Return(t, "0") ELSE UNCHANGED <<pc, ret>>
        /\ sent' = IF last THEN Append(sent, [n |-> c.n, len |-> c.len])
                           ELSE sent
        /\ UNCHANGED <<riids, req_lock, request, abort_tx, ba, receiver,
                       nsends, delivered>>

\* Mutant: the intent stays marked after a failure.
SendFailKeeping(t) ==
    /\ pc[t] = "send"
    /\ abort_tx \/ ~call[t].wait
    /\ Return(t, IF abort_tx THEN "EIO" ELSE "EAGAIN")
    /\ UNCHANGED <<call, req_lock, riids, request, abort_tx, ab, ba, receiver,
                   nsends, sent, delivered>>

\* qcom_glink_tx fails: transmission is aborted, or the ring is full and the
\* caller does not wait.
SendFail(t) ==
    /\ pc[t] = "send"
    /\ abort_tx \/ ~call[t].wait
    /\ riids' = [riids EXCEPT ![call[t].iid].in_use = FALSE]
    /\ Return(t, IF abort_tx THEN "EIO" ELSE "EAGAIN")
    /\ UNCHANGED <<call, req_lock, request, abort_tx, ab, ba, receiver,
                   nsends, sent, delivered>>

\* qcom_glink_early_ssr_notify
Abort ==
    /\ "abort" \in Faults /\ ~abort_tx
    /\ abort_tx' = TRUE
    /\ UNCHANGED <<sender, riids, request, ab, ba, receiver, nsends, sent,
                   delivered>>

-----------------------------------------------------------------------------
(* The sending end's interrupt handler *)

\* qcom_glink_handle_intent
RxIntent ==
    /\ ba # <<>> /\ Head(ba).type = "intent"
    /\ ba' = Tail(ba)
    /\ riids' = IF Head(ba).iid \in DOMAIN riids THEN riids
                ELSE With(riids, Head(ba).iid,
                          [size |-> Head(ba).size, in_use |-> FALSE])
    /\ intent_received' = TRUE
    /\ UNCHANGED <<sender, req_result, intent_timeout_count, abort_tx, ab,
                   receiver, nsends, sent, delivered>>

\* qcom_glink_handle_rx_done
HandleRxDone ==
    /\ ba # <<>> /\ Head(ba).type = "done"
    /\ ba' = Tail(ba)
    /\ \/ /\ Head(ba).iid \notin DOMAIN riids
          /\ UNCHANGED <<riids, intent_received>>
       \/ /\ Head(ba).iid \in DOMAIN riids /\ Head(ba).reuse
          /\ riids' = [riids EXCEPT ![Head(ba).iid].in_use = FALSE]
          /\ intent_received' = TRUE
       \/ /\ Head(ba).iid \in DOMAIN riids /\ ~Head(ba).reuse
          /\ riids' = Without(riids, Head(ba).iid)
          /\ UNCHANGED intent_received
    /\ UNCHANGED <<sender, req_result, intent_timeout_count, abort_tx, ab,
                   receiver, nsends, sent, delivered>>

\* Mutant: an answer does not end the row of timeouts.
HandleReqAckCounting ==
    /\ ba # <<>> /\ Head(ba).type = "ack"
    /\ ba' = Tail(ba)
    /\ req_result' = IF Head(ba).granted THEN 1 ELSE 0
    /\ UNCHANGED <<sender, riids, intent_received, intent_timeout_count,
                   abort_tx, ab, receiver, nsends, sent, delivered>>

\* qcom_glink_handle_intent_req_ack
HandleReqAck ==
    /\ ba # <<>> /\ Head(ba).type = "ack"
    /\ ba' = Tail(ba)
    /\ req_result' = IF Head(ba).granted THEN 1 ELSE 0
    /\ intent_timeout_count' = 0
    /\ UNCHANGED <<sender, riids, intent_received, abort_tx, ab, receiver,
                   nsends, sent, delivered>>

\* What the receiving end never touches.
senderside == <<sender, riids, request, abort_tx, nsends, sent, cb_irq>>

-----------------------------------------------------------------------------
(* The receiving end *)

AckMsg(granted) == [type |-> "ack", granted |-> granted]

\* Mutant: list_add for list_add_tail.
QueueDataFirst(id, reuse, done) ==
    rx_queue' = <<ToDeliver(id, reuse, done)>> \o rx_queue

\* Data is left to the channel's thread.
QueueData(id, reuse, done) ==
    rx_queue' = Append(rx_queue, ToDeliver(id, reuse, done))

\* qcom_glink_rx_defer leaves a request to the worker.
RxDefer ==
    /\ ab # <<>> /\ Head(ab).type = "req"
    /\ ab' = Tail(ab)
    /\ work' = Append(work, Head(ab).size)
    /\ UNCHANGED <<senderside, ba, liids, next_id, rx_queue, rx_pc, rx_cur,
                   defer_intents, owed, delivered>>

\* On a channel with cb_irq the client gets the data at once if nothing is
\* queued.  It keeps the buffer, or RX_DONE is tried without waiting and
\* left to the thread when the ring is full.
CallbackInIrq(id, idr) ==
    /\ cb_irq /\ rx_queue = <<>>
    /\ delivered' = Append(delivered,
                           [ns |-> idr[id].ns, len |-> idr[id].offset])
    /\ \/ /\ defer_intents' = defer_intents \cup {id}
          /\ owed' = owed \cup {id}
          /\ liids' = [idr EXCEPT ![id] = Emptied(idr[id])]
          /\ UNCHANGED <<rx_queue, ba>>
       \/ /\ ba' = Append(ba, DoneMsg(id, idr[id].reuse))
          /\ liids' = Released(idr, id)
          /\ UNCHANGED <<rx_queue, defer_intents, owed>>
       \/ /\ QueueData(id, idr[id].reuse, TRUE)
          /\ liids' = Released(idr, id)
          /\ UNCHANGED <<ba, defer_intents, owed>>

\* qcom_glink_rx_data and qcom_glink_rx_data_handler.
RxData ==
    LET m == Head(ab)
        filled == [liids EXCEPT ![m.iid] = Filled(@, m)]
    IN  /\ ab # <<>> /\ m.type = "data"
        /\ ab' = Tail(ab)
        /\ \/ /\ Dropped(m)
              /\ UNCHANGED <<liids, rx_queue, ba, defer_intents, owed,
                             delivered>>
           \/ /\ ~Dropped(m) /\ m.left > 0
              /\ liids' = filled
              /\ UNCHANGED <<rx_queue, ba, defer_intents, owed, delivered>>
           \/ /\ ~Dropped(m) /\ m.left = 0
              /\ liids' = filled
              /\ QueueData(m.iid, liids[m.iid].reuse, FALSE)
              /\ UNCHANGED <<ba, defer_intents, owed, delivered>>
           \/ /\ ~Dropped(m) /\ m.left = 0
              /\ CallbackInIrq(m.iid, filled)
        /\ UNCHANGED <<senderside, next_id, work, rx_pc, rx_cur>>

\* qcom_glink_handle_intent_req in the worker: a reusable intent that is
\* large enough answers the request, otherwise the thread allocates one.
HandleIntentReq ==
    LET size == Head(work)
        offered == \E i \in DOMAIN liids :
                        liids[i].reuse /\ liids[i].size >= size
    IN  /\ work # <<>>
        /\ work' = Tail(work)
        /\ \/ /\ offered
              /\ ba' = Append(ba, AckMsg(TRUE))
              /\ UNCHANGED rx_queue
           \/ /\ ~offered
              /\ rx_queue' = Append(rx_queue, ToAllocate(size, FALSE, TRUE))
              /\ UNCHANGED ba
           \/ /\ ~offered /\ "nomem" \in Faults
              /\ ba' = Append(ba, AckMsg(FALSE))
              /\ UNCHANGED rx_queue
        /\ UNCHANGED <<senderside, ab, liids, next_id, rx_pc, rx_cur,
                       defer_intents, owed, delivered>>

-----------------------------------------------------------------------------
(* The thread of the channel, qcom_glink_rx_thread, and the client *)

\* A buffer is allocated and gets its id ...
TakeAlloc ==
    /\ rx_pc = "idle" /\ rx_queue # <<>> /\ Head(rx_queue).kind = "alloc"
    /\ rx_queue' = Tail(rx_queue)
    /\ rx_cur' = [Head(rx_queue) EXCEPT !.iid = next_id]
    /\ liids' = With(liids, next_id,
                     [size |-> Head(rx_queue).size,
                      reuse |-> Head(rx_queue).reuse, offset |-> 0, ns |-> {}])
    /\ next_id' = next_id + 1
    /\ rx_pc' = "advertise"
    /\ UNCHANGED <<senderside, ab, ba, work, defer_intents, owed, delivered>>

\* ... is advertised ...
Advertise ==
    /\ rx_pc = "advertise"
    /\ ba' = Append(ba, [type |-> "intent", iid |-> rx_cur.iid,
                         size |-> rx_cur.size])
    /\ rx_pc' = IF rx_cur.ack_pending THEN "ack" ELSE "idle"
    /\ UNCHANGED <<senderside, ab, liids, next_id, work, rx_queue, rx_cur,
                   defer_intents, owed, delivered>>

\* ... and the request for it, if there was one, is acknowledged.
Ack ==
    /\ rx_pc = "ack"
    /\ ba' = Append(ba, AckMsg(TRUE))
    /\ rx_pc' = "idle"
    /\ UNCHANGED <<senderside, ab, liids, next_id, work, rx_queue, rx_cur,
                   defer_intents, owed, delivered>>

\* Data is taken off the queue; if the client has had it already only
\* RX_DONE is left to do.
TakeData ==
    /\ rx_pc = "idle" /\ rx_queue # <<>> /\ Head(rx_queue).kind = "data"
    /\ rx_queue' = Tail(rx_queue)
    /\ rx_cur' = Head(rx_queue)
    /\ defer_intents' = defer_intents \cup {Head(rx_queue).iid}
    /\ rx_pc' = IF Head(rx_queue).cb_irq_done THEN "done" ELSE "cb"
    /\ UNCHANGED <<senderside, ab, ba, liids, next_id, work, owed, delivered>>

\* The client's callback, which keeps the buffer (RPMSG_DEFER) or not.
Callback ==
    /\ rx_pc = "cb"
    /\ delivered' = Append(delivered, [ns |-> liids[rx_cur.iid].ns,
                                       len |-> liids[rx_cur.iid].offset])
    /\ \/ rx_pc' = "done" /\ UNCHANGED owed
       \/ rx_pc' = "idle" /\ owed' = owed \cup {rx_cur.iid}
    /\ UNCHANGED <<senderside, ab, ba, liids, next_id, work, rx_queue, rx_cur,
                   defer_intents>>

\* __qcom_glink_rx_done
ThreadRxDone ==
    /\ rx_pc = "done"
    /\ ba' = Append(ba, DoneMsg(rx_cur.iid, rx_cur.reuse))
    /\ liids' = Released(liids, rx_cur.iid)
    /\ defer_intents' = defer_intents \ {rx_cur.iid}
    /\ rx_pc' = "idle"
    /\ UNCHANGED <<senderside, ab, next_id, work, rx_queue, rx_cur, owed,
                   delivered>>

\* The client is done with a buffer it kept: qcom_glink_rx_done.
ClientRxDone(id) ==
    /\ id \in owed
    /\ owed' = owed \ {id}
    /\ defer_intents' = defer_intents \ {id}
    /\ ba' = Append(ba, DoneMsg(id, liids[id].reuse))
    /\ liids' = Released(liids, id)
    /\ UNCHANGED <<senderside, ab, next_id, work, rx_queue, rx_pc, rx_cur,
                   delivered>>

-----------------------------------------------------------------------------
\* qcom_glink_announce_create has made the channel ready, queued the base
\* set of intents and started the thread.
Init ==
    /\ pc = [t \in Threads |-> "idle"]
    /\ call = [t \in Threads |-> [len |-> 0, wait |-> FALSE, offset |-> 0,
                                  iid |-> 0, n |-> 0]]
    /\ ret = [t \in Threads |-> "0"]
    /\ riids = <<>>
    /\ req_lock = None /\ req_result = 0 /\ intent_received = FALSE
    /\ intent_timeout_count = 0
    /\ abort_tx = FALSE /\ ab = <<>> /\ ba = <<>>
    /\ cb_irq \in CbIrqs /\ liids = <<>> /\ next_id = 1 /\ work = <<>>
    /\ rx_queue = [i \in DOMAIN BaseIntents |->
                      ToAllocate(BaseIntents[i], TRUE, FALSE)]
    /\ rx_pc = "idle" /\ rx_cur = ToAllocate(0, FALSE, FALSE)
    /\ defer_intents = {} /\ owed = {}
    /\ nsends = 0 /\ sent = <<>> /\ delivered = <<>>

SenderStep(t) ==
    \/ Scan(t) \/ Request(t) \/ Granted(t) \/ Timeout(t) \/ SendChunk(t)
    \/ SendFail(t)

SenderIrq == RxIntent \/ HandleRxDone \/ HandleReqAck

ReceiverIrq == RxDefer \/ RxData

RxThread ==
    \/ TakeAlloc \/ Advertise \/ Ack \/ TakeData \/ Callback \/ ThreadRxDone

Client == \E id \in owed : ClientRxDone(id)

Next ==
    \/ \E t \in Threads, len \in Lens, wait \in BOOLEAN : Send(t, len, wait)
    \/ \E t \in Threads : SenderStep(t)
    \/ Abort \/ SenderIrq \/ ReceiverIrq \/ HandleIntentReq \/ RxThread
    \/ Client

\* Interrupts, the worker and the threads run; the timer of a waiting thread
\* expires; a client that kept a buffer gives it back.  Nobody is obliged to
\* send.
Fairness ==
    /\ \A t \in Threads : WF_vars(SenderStep(t))
    /\ WF_vars(SenderIrq) /\ WF_vars(ReceiverIrq) /\ WF_vars(HandleIntentReq)
    /\ WF_vars(RxThread) /\ WF_vars(Client)

Spec == Init /\ [][Next]_vars
FairSpec == Spec /\ Fairness

-----------------------------------------------------------------------------
(* Properties *)

\* The types of the state.
TypeOK ==
    /\ pc \in [Threads -> {"idle", "scan", "lock", "wait", "send"}]
    /\ call \in [Threads -> [len : Nat, wait : BOOLEAN, offset : Nat,
                             iid : Nat, n : Nat]]
    /\ ret \in [Threads -> {"0", "EBUSY", "EIO", "EAGAIN", "ECANCELED",
                            "ETIMEDOUT"}]
    /\ DOMAIN riids \subseteq 1 .. next_id - 1
    /\ \A i \in DOMAIN riids : riids[i] \in [size : Nat, in_use : BOOLEAN]
    /\ req_lock \in Threads \cup {None}
    /\ req_result \in -1 .. 1
    /\ intent_received \in BOOLEAN /\ abort_tx \in BOOLEAN
    /\ intent_timeout_count \in Nat
    /\ DOMAIN liids \subseteq 1 .. next_id - 1
    /\ \A i \in DOMAIN liids :
          /\ liids[i].offset \in 0 .. liids[i].size
          /\ liids[i].ns \subseteq 1 .. nsends
    /\ next_id \in Nat \ {0}
    /\ rx_pc \in {"idle", "advertise", "ack", "cb", "done"}
    /\ owed \subseteq defer_intents

\* Buffers whose contents the client has not finished with.
Busy ==
    {rx_queue[i].iid : i \in {j \in DOMAIN rx_queue :
                                 rx_queue[j].kind = "data"}}
    \cup defer_intents

\* When data arrives its intent exists, has room for it, and is not one the
\* client still reads: qcom_glink_rx_data never drops a message and never
\* writes over one.
DataHasRoom ==
    ab # <<>> /\ Head(ab).type = "data" =>
        ~Dropped(Head(ab)) /\ Head(ab).iid \notin Busy

\* The state is well typed and the two ends agree on the intents: an
\* advertised id is new to the sending end, and every RX_DONE is about an
\* intent that is in use there.
EndsAgree ==
    /\ TypeOK
    /\ ba # <<>> =>
          /\ Head(ba).type = "intent" => Head(ba).iid \notin DOMAIN riids
          /\ Head(ba).type = "done" =>
                Head(ba).iid \in DOMAIN riids /\ riids[Head(ba).iid].in_use

\* The client gets whole messages that were sent, each once: chunks of two
\* calls never end up in one buffer.  On a channel without cb_irq it gets them
\* in the order in which they were sent.  (With cb_irq a message may overtake
\* one that the thread has taken off rx_queue and not delivered.)
DeliveredAsSent ==
    \E k \in [DOMAIN delivered -> DOMAIN sent] :
        /\ \A i, j \in DOMAIN k : k[i] = k[j] => i = j
        /\ \A i \in DOMAIN k :
              /\ delivered[i] = [ns |-> {sent[k[i]].n}, len |-> sent[k[i]].len]
              /\ ~cb_irq => k[i] = i

\* When everything has settled no intent is lost: both ends know the same
\* ones and none is in use.
NoIntentLeaked ==
    Quiet /\ ~abort_tx =>
        /\ DOMAIN riids = DOMAIN liids
        /\ \A i \in DOMAIN riids : ~riids[i].in_use
        /\ \A i \in DOMAIN liids : liids[i].offset = 0

\* GLINK_BUG("... unresponsive") stops the kernel only if the remote end is
\* unresponsive: while every message is handled in time the count of timeouts
\* in a row stays below MAX_INTENT_TIMEOUTS, although single requests do time
\* out (when they are refused, and when the intent they hoped for came just
\* before intent_received was cleared).
NoFalseAlarm ==
    "slow" \notin Faults => intent_timeout_count < MAX_INTENT_TIMEOUTS

\* Every call of __qcom_glink_send returns, whatever intents other threads
\* take from it, and also when the subsystem goes away.
SendReturns == \A t \in Threads : (pc[t] # "idle") ~> (pc[t] = "idle")

\* What was sent reaches the client.
SentIsDelivered ==
    \A k \in 1 .. MaxSends : (Len(sent) >= k) ~> (Len(delivered) >= k)

\* "flag indicating that an intent has been received": a thread whose request
\* was granted, and for which a free intent that fits is there, does not sit
\* out the 10 s and report that the "intent request ack timed out".
ReceivedFlagIsCurrent ==
    \A t \in Threads :
        pc[t] = "wait" /\ Quiet /\ req_result = 1 /\ Fits(call[t].len) # {} =>
            Answered
=============================================================================
