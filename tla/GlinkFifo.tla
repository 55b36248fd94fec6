----------------------------- MODULE GlinkFifo -----------------------------
(***************************************************************************)
(* The shared-memory FIFO of the G-Link transport (qcom_glink_smem.c) and  *)
(* the locked transmit path above it, qcom_glink_tx (qcom_glink_native.c). *)
(*                                                                         *)
(* One direction is modelled: several threads (Writers) call qcom_glink_tx *)
(* on one end, the interrupt handler qcom_glink_native_rx of the other end *)
(* drains the ring.  head is written only by the sending end and tail only *)
(* by the receiving end; both live in shared memory.  A write that does    *)
(* not fit blocks the caller, which asks the reader for an interrupt with  *)
(* READ_NOTIF.  For that message the ring keeps TX_BLOCKED_CMD_RESERVE     *)
(* bytes, and FIFO_FULL_RESERVE bytes so that a full ring never looks      *)
(* empty.                                                                  *)
(*                                                                         *)
(* A step is one critical section under tx_lock, or one turn of the        *)
(* reader's loop.  The tail may move while a writer holds the lock; that   *)
(* only enlarges the space it has seen, so reading it once is enough.      *)
(***************************************************************************)
EXTENDS Integers

CONSTANTS
    Length,     \* glink_pipe.length: bytes in the ring
    Writers,    \* threads calling qcom_glink_tx
    Requests,   \* what they may ask for: records [hlen, dlen, wait]
    MaxSends    \* bound: calls of qcom_glink_tx in one behaviour

FIFO_FULL_RESERVE == 8
TX_BLOCKED_CMD_RESERVE == 8
MsgSize == 8                       \* sizeof(struct glink_msg)

\* The FIFO is allocated in SMEM with a size that is a multiple of 8
\* (SZ_16K), every message starts with a struct glink_msg, and lengths are
\* byte counts.
ASSUME LengthAssumption ==
    Length \in Nat /\ Length % 8 = 0 /\ Length >= 32
ASSUME RequestsAssumption ==
    /\ Requests \subseteq [hlen : Nat, dlen : Nat, wait : BOOLEAN]
    /\ \A r \in Requests : r.hlen >= MsgSize
ASSUME MaxSendsAssumption == MaxSends \in Nat

VARIABLES
    head,             \* *pipe->head
    tail,             \* *pipe->tail
    fifo,             \* pipe->fifo, byte by byte
    sent_read_notify, \* glink->sent_read_notify
    abort_tx,         \* glink->abort_tx
    pc,               \* "idle", or "wait" inside wait_event_timeout
    req,              \* the arguments of a thread's current call
    ret,              \* the value its last call returned
    woken,            \* a waiting thread is about to test its condition
    rx_irq,           \* mailbox interrupt pending at the reader
    rx_run,           \* the reader is inside qcom_glink_native_rx
    tx_irq,           \* mailbox interrupt pending at the writer
    nsent             \* calls made so far (bounded by MaxSends)

shared == <<head, tail, fifo>>
thread == <<pc, req, ret, woken>>
irqs   == <<rx_irq, rx_run, tx_irq>>
vars   == <<head, tail, fifo, sent_read_notify, abort_tx, pc, req, ret,
            woken, rx_irq, rx_run, tx_irq, nsent>>

-----------------------------------------------------------------------------
(* Messages and bytes.  A byte remembers which byte of which message it    *)
(* is.  id 0 marks memory never written, id 1 is READ_NOTIF.               *)

Message == [id : Nat, hlen : Nat, dlen : Nat]
NoMsg == [id |-> 0, hlen |-> MsgSize, dlen |-> 0]
ReadNotif == [id |-> 1, hlen |-> MsgSize, dlen |-> 0]

Byte(m, i) == [msg |-> m, off |-> i]
Index == 0 .. Length - 1

ALIGN(n) == ((n + 7) \div 8) * 8
Tlen(m) == m.hlen + m.dlen

-----------------------------------------------------------------------------
(* qcom_glink_smem.c *)

\* Bytes between head and tail going forward: what has not been written
\* over yet.  An empty ring has head = tail and Length bytes free.
RawFree == IF tail <= head THEN Length - head + tail ELSE tail - head

glink_smem_tx_avail ==
    IF RawFree < FIFO_FULL_RESERVE + TX_BLOCKED_CMD_RESERVE
    THEN 0
    ELSE RawFree - (FIFO_FULL_RESERVE + TX_BLOCKED_CMD_RESERVE)

glink_smem_rx_avail ==
    IF head < tail THEN Length - tail + head ELSE head - tail

Wrap(n) == IF n >= Length THEN n - Length ELSE n

\* Mutant: the second memcpy starts from the beginning of the data again.
WriteOneFromStart(mem, h, m, from, count) ==
    LET len == IF count <= Length - h THEN count ELSE Length - h
    IN  [i \in Index |->
            IF h <= i /\ i < h + len THEN Byte(m, from + i - h)
            ELSE IF i < count - len THEN Byte(m, from + i)
            ELSE mem[i]]

\* Copies count bytes of m, from its byte "from" on, to the ring at h; what
\* does not fit before the end of the ring continues at its beginning.
glink_smem_tx_write_one(mem, h, m, from, count) ==
    LET len == IF count <= Length - h THEN count ELSE Length - h
    IN  [i \in Index |->
            IF h <= i /\ i < h + len THEN Byte(m, from + i - h)
            ELSE IF i < count - len THEN Byte(m, from + len + i)
            ELSE mem[i]]

\* Header, then data, then head moves on to the next multiple of 8.
glink_smem_tx_write(m) ==
    LET h1 == Wrap(head + m.hlen)
        h2 == Wrap(h1 + m.dlen)
        withHdr == glink_smem_tx_write_one(fifo, head, m, 0, m.hlen)
    IN  /\ fifo' = glink_smem_tx_write_one(withHdr, h1, m, m.hlen, m.dlen)
        /\ head' = Wrap(ALIGN(h2))
        /\ UNCHANGED tail

\* What glink_smem_rx_peek copies out: the byte at offset from the tail.
glink_smem_rx_peek(offset) == fifo[Wrap(tail + offset)]

glink_smem_rx_advance(count) ==
    /\ tail' = IF tail + count >= Length THEN (tail + count) % Length
                                         ELSE tail + count
    /\ UNCHANGED <<head, fifo>>

-----------------------------------------------------------------------------
(* qcom_glink_native.c: the transmit path *)

Return(w, value) ==
    /\ pc' = [pc EXCEPT ![w] = "idle"]
    /\ ret' = [ret EXCEPT ![w] = value]
    /\ woken' = [woken EXCEPT ![w] = FALSE]

\* qcom_glink_tx_write followed by qcom_glink_tx_kick
WriteAndKick(m) ==
    /\ glink_smem_tx_write(m)
    /\ rx_irq' = TRUE
    /\ UNCHANGED <<rx_run, tx_irq>>

MessageOf(r) == [id |-> r.id, hlen |-> r.hlen, dlen |-> r.dlen]

\* One turn of the while loop of qcom_glink_tx, with tx_lock held and
\* sent_read_notify = flag, for the call r of thread w: write, give up, or
\* ask the reader for an interrupt (once) and wait.
TxLoop(w, r, flag) ==
    \/ /\ glink_smem_tx_avail >= Tlen(r)
       /\ WriteAndKick(MessageOf(r))
       /\ sent_read_notify' = flag
       /\ Return(w, "0")
    \/ /\ glink_smem_tx_avail < Tlen(r)
       /\ ~r.wait \/ abort_tx
       /\ Return(w, IF r.wait THEN "EIO" ELSE "EAGAIN")
       /\ sent_read_notify' = flag
       /\ UNCHANGED <<shared, irqs>>
    \/ /\ glink_smem_tx_avail < Tlen(r)
       /\ r.wait /\ ~abort_tx
       /\ IF flag THEN UNCHANGED <<shared, irqs>>
                  ELSE WriteAndKick(ReadNotif)
       /\ sent_read_notify' = TRUE
       /\ pc' = [pc EXCEPT ![w] = "wait"]
       /\ woken' = [woken EXCEPT ![w] = TRUE]
       /\ UNCHANGED ret

\* A thread calls qcom_glink_tx.  Ids 0 and 1 are taken, see NoMsg and
\* ReadNotif.
TxCall(w, q) ==
    LET r == [id |-> nsent + 2, hlen |-> q.hlen, dlen |-> q.dlen,
              wait |-> q.wait]
    IN  /\ pc[w] = "idle"
        /\ nsent < MaxSends
        /\ nsent' = nsent + 1
        /\ req' = [req EXCEPT ![w] = r]
        /\ \/ /\ Tlen(q) >= Length
              /\ Return(w, "EINVAL")
              /\ UNCHANGED <<shared, irqs, sent_read_notify>>
           \/ /\ Tlen(q) < Length
              /\ abort_tx
              /\ Return(w, "EIO")
              /\ UNCHANGED <<shared, irqs, sent_read_notify>>
           \/ /\ Tlen(q) < Length
              /\ ~abort_tx
              /\ TxLoop(w, r, sent_read_notify)
        /\ UNCHANGED abort_tx

\* The condition of wait_event_timeout.
Condition(w) == glink_smem_tx_avail >= Tlen(req[w]) \/ abort_tx

\* Mutant: the flag is cleared after every wait, message fitting or not.
TxResumeClearing(w) ==
    /\ TxLoop(w, req[w], FALSE)
    /\ UNCHANGED <<req, abort_tx, nsent>>

\* After wait_event_timeout: the lock is taken again, the flag is cleared
\* if the message now fits, and the loop continues.
TxResume(w) ==
    /\ TxLoop(w, req[w],
              sent_read_notify /\ glink_smem_tx_avail < Tlen(req[w]))
    /\ UNCHANGED <<req, abort_tx, nsent>>

\* A woken thread finds the condition true ...
TxWake(w) == pc[w] = "wait" /\ woken[w] /\ Condition(w) /\ TxResume(w)

\* ... or false, and sleeps.
TxSleep(w) ==
    /\ pc[w] = "wait" /\ woken[w] /\ ~Condition(w)
    /\ woken' = [woken EXCEPT ![w] = FALSE]
    /\ UNCHANGED <<shared, irqs, sent_read_notify, abort_tx, pc, req, ret,
                   nsent>>

\* Mutant: wait_event instead of wait_event_timeout.
TxNoTimeout(w) == pc[w] = "wait" /\ woken[w] /\ Condition(w) /\ TxResume(w)

\* The 10 s of wait_event_timeout run out.
TxTimeout(w) == pc[w] = "wait" /\ ~woken[w] /\ TxResume(w)

\* wake_up_all(&glink->tx_avail_notify)
WakeUpAll == woken' = [w \in Writers |-> pc[w] = "wait"]

\* The writer's end takes an interrupt: the first thing qcom_glink_native_rx
\* does is to wake the blocked writers.
TxInterrupt ==
    /\ tx_irq
    /\ tx_irq' = FALSE
    /\ WakeUpAll
    /\ UNCHANGED <<shared, rx_irq, rx_run, sent_read_notify, abort_tx, pc,
                   req, ret, nsent>>

\* qcom_glink_early_ssr_notify and the beginning of
\* qcom_glink_native_remove.
AbortTx ==
    /\ ~abort_tx
    /\ abort_tx' = TRUE
    /\ WakeUpAll
    /\ UNCHANGED <<shared, irqs, sent_read_notify, pc, req, ret, nsent>>

-----------------------------------------------------------------------------
(* qcom_glink_native.c: the receive loop *)

\* The interrupt enters qcom_glink_native_rx.
RxInterrupt ==
    /\ rx_irq /\ ~rx_run
    /\ rx_irq' = FALSE
    /\ rx_run' = TRUE
    /\ UNCHANGED <<shared, thread, tx_irq, sent_read_notify, abort_tx, nsent>>

\* The length a handler finds in the header it has peeked.
PeekedLen == Tlen(glink_smem_rx_peek(0).msg)

\* Every handler checks that the whole message has arrived before it
\* consumes it.
Complete ==
    glink_smem_rx_avail >= MsgSize /\ glink_smem_rx_avail >= PeekedLen

\* One turn of the loop.  qcom_glink_rx_read_notif answers with a kick.
RxMessage ==
    /\ rx_run /\ Complete
    /\ glink_smem_rx_advance(ALIGN(PeekedLen))
    /\ tx_irq' = (tx_irq \/ glink_smem_rx_peek(0).msg = ReadNotif)
    /\ UNCHANGED <<thread, rx_irq, rx_run, sent_read_notify, abort_tx, nsent>>

\* The loop ends when there is no message left.
RxStop ==
    /\ rx_run /\ ~Complete
    /\ rx_run' = FALSE
    /\ UNCHANGED <<shared, thread, rx_irq, tx_irq, sent_read_notify, abort_tx,
                   nsent>>

-----------------------------------------------------------------------------
Init ==
    /\ head = 0 /\ tail = 0
    /\ fifo = [i \in Index |-> Byte(NoMsg, 0)]
    /\ sent_read_notify = FALSE
    /\ abort_tx = FALSE
    /\ pc = [w \in Writers |-> "idle"]
    /\ req = [w \in Writers |->
                [id |-> 0, hlen |-> MsgSize, dlen |-> 0, wait |-> FALSE]]
    /\ ret = [w \in Writers |-> "0"]
    /\ woken = [w \in Writers |-> FALSE]
    /\ rx_irq = FALSE /\ rx_run = FALSE /\ tx_irq = FALSE
    /\ nsent = 0

Writer(w) ==
    \/ \E q \in Requests : TxCall(w, q)
    \/ TxWake(w) \/ TxSleep(w) \/ TxTimeout(w)

Reader == RxInterrupt \/ RxMessage \/ RxStop

Next == (\E w \in Writers : Writer(w)) \/ TxInterrupt \/ AbortTx \/ Reader

\* Interrupts are delivered, handlers run to their end, woken threads are
\* scheduled and timers expire.  Nobody is obliged to call qcom_glink_tx.
Fairness ==
    /\ WF_vars(Reader) /\ WF_vars(TxInterrupt)
    /\ \A w \in Writers : WF_vars(TxWake(w) \/ TxSleep(w) \/ TxTimeout(w))

Spec == Init /\ [][Next]_vars
FairSpec == Spec /\ Fairness

-----------------------------------------------------------------------------
(* Properties *)

HeaderLen == {n \in Nat : n >= MsgSize}
Request == [id : Nat, hlen : HeaderLen, dlen : Nat, wait : BOOLEAN]

\* The types of the state.
TypeOK ==
    /\ head \in Index /\ tail \in Index
    /\ fifo \in [Index -> [msg : Message, off : Nat]]
    /\ sent_read_notify \in BOOLEAN /\ abort_tx \in BOOLEAN
    /\ pc \in [Writers -> {"idle", "wait"}]
    /\ req \in [Writers -> Request]
    /\ ret \in [Writers -> {"0", "EINVAL", "EAGAIN", "EIO"}]
    /\ woken \in [Writers -> BOOLEAN]
    /\ rx_irq \in BOOLEAN /\ rx_run \in BOOLEAN /\ tx_irq \in BOOLEAN
    /\ nsent \in Nat

\* Both pointers stay multiples of 8 although messages have any length:
\* the write rounds head up, the reader rounds what it consumes up
\* ("Ensure head is always aligned to 8 bytes").
PointersAligned == head % 8 = 0 /\ tail % 8 = 0

\* The ring is never filled to the last byte, whatever the writers do, so
\* head = tail always means empty: FIFO_FULL_RESERVE does its work.
FullNeverLooksEmpty == RawFree >= FIFO_FULL_RESERVE

\* As long as no READ_NOTIF is outstanding there is room for one beyond
\* FIFO_FULL_RESERVE: qcom_glink_send_read_notify writes without looking
\* at the space, and relies on TX_BLOCKED_CMD_RESERVE and on
\* sent_read_notify to find it.
ReadNotifyFits ==
    ~sent_read_notify =>
        RawFree >= FIFO_FULL_RESERVE + TX_BLOCKED_CMD_RESERVE

\* Together they are what the transmit path relies on for never writing
\* over bytes the reader has not consumed.
RingInv == PointersAligned /\ FullNeverLooksEmpty /\ ReadNotifyFits

\* A thread whose message fits into an empty ring does not stay in
\* wait_event_timeout for ever: space freed while it sleeps, a READ_NOTIF
\* consumed before others filled the ring again, or an abort, all let it
\* return.
BlockedWriterReturns ==
    \A w \in Writers :
        (pc[w] = "wait" /\ Tlen(req[w]) <= Length - 16) ~> (pc[w] = "idle")
=============================================================================
