-------------------------- MODULE GlinkFifoProofs --------------------------
(***************************************************************************)
(* Proofs about GlinkFifo, for a ring of any length, any set of threads    *)
(* and any set of messages.                                                *)
(***************************************************************************)
EXTENDS GlinkFifo, TLAPS

\* The time a leaf may take, in seconds.
USE SMTT(20)

\* ALIGN rounds up to the next multiple of 8.
LEMMA AlignFacts ==
  ASSUME NEW n \in Nat
  PROVE  /\ ALIGN(n) \in Nat
         /\ ALIGN(n) % 8 = 0
         /\ n <= ALIGN(n)
         /\ ALIGN(n) < n + 8
BY DEF ALIGN

\* A multiple of 8 can be moved out of ALIGN.
LEMMA AlignShift ==
  ASSUME NEW n \in Nat, NEW b \in Int, b % 8 = 0, n + b \in Nat
  PROVE  ALIGN(n + b) = ALIGN(n) + b
BY DEF ALIGN

\* Rounding up does not pass a multiple of 8.
LEMMA AlignBound ==
  ASSUME NEW n \in Nat, NEW b \in Int, b % 8 = 0, n <= b
  PROVE  ALIGN(n) <= b
BY DEF ALIGN

\* The pointer of the reader wraps at most once.
LEMMA ModWrap ==
  ASSUME NEW a \in Nat, NEW L \in Nat, L > 0, L <= a, a < 2 * L
  PROVE  a % L = a - L
OBVIOUS

\* Where glink_smem_tx_write leaves head: the two copies and the final
\* rounding move it by the rounded length of the message.
LEMMA HeadAfterWrite ==
  ASSUME NEW h \in Index, h % 8 = 0,
         NEW a \in Nat, NEW b \in Nat, a + b < Length
  PROVE  /\ Wrap(h + a) \in Index
         /\ Wrap(Wrap(h + a) + b) \in Index
         /\ Wrap(ALIGN(Wrap(Wrap(h + a) + b))) = Wrap(h + ALIGN(a + b))
<1> DEFINE t == a + b
           r == ALIGN(t)
<1> USE LengthAssumption
<1>1. Wrap(h + a) \in Index /\ Wrap(Wrap(h + a) + b) = Wrap(h + t)
  BY DEF Wrap, Index
<1>2. Wrap(h + t) \in Index
  BY DEF Wrap, Index
<1>3. t \in Nat /\ t < Length /\ h \in Int /\ h >= 0 /\ h < Length
  BY DEF Index
<1>4. r \in Nat /\ r <= Length /\ t <= r
  BY <1>3, AlignFacts, AlignBound
<1> HIDE DEF t
<1>5. CASE h + t < Length
  <2>1. t + h \in Nat /\ Wrap(h + t) = t + h
    BY <1>3, <1>5 DEF Wrap
  <2>2. ALIGN(t + h) = r + h
    BY <1>3, <2>1, AlignShift, Zenon
  <2>3. r + h = h + r
    BY <1>3, <1>4
  <2>. QED  BY <1>1, <1>2, <2>1, <2>2, <2>3, Zenon DEF t
<1>6. CASE h + t >= Length
  <2> DEFINE d == h - Length
  <2>1. d \in Int /\ d % 8 = 0 /\ t + d \in Nat /\ Wrap(h + t) = t + d
    BY <1>3, <1>6 DEF Wrap
  <2> HIDE DEF d
  <2>2. ALIGN(t + d) = r + d
    BY <1>3, <2>1, AlignShift, Zenon
  <2> HIDE DEF r
  <2>3. Wrap(r + d) = r + d /\ Wrap(h + r) = r + d
    BY <1>3, <1>4, <1>6 DEF Wrap, d
  <2>. QED  BY <1>1, <1>2, <2>1, <2>2, <2>3, Zenon DEF t, r
<1>. QED  BY <1>1, <1>2, <1>3, <1>5, <1>6 DEF t

\* The ring after head has moved by a multiple of 8 that leaves "keep"
\* bytes free.
LEMMA HeadMoves ==
  ASSUME NEW L \in Nat, NEW h \in Nat, NEW t \in Nat, NEW n \in Nat,
         NEW keep \in Nat,
         h < L, t < L, keep >= 8, L % 8 = 0, h % 8 = 0, n % 8 = 0,
         n + keep <= (IF t <= h THEN L - h + t ELSE t - h)
  PROVE  LET hh == IF h + n >= L THEN h + n - L ELSE h + n
         IN  /\ hh \in 0 .. L - 1
             /\ hh % 8 = 0
             /\ (IF t <= hh THEN L - hh + t ELSE t - hh) >= keep
OBVIOUS

\* A message that leaves "keep" bytes of the ring free before rounding
\* leaves them free after rounding too, because everything else is a
\* multiple of 8; and head stays aligned and inside the ring.
LEMMA WriteKeeps ==
  ASSUME TypeOK, PointersAligned,
         NEW m \in Message, NEW keep \in Nat, keep % 8 = 0, keep >= 8,
         Tlen(m) + keep <= RawFree,
         glink_smem_tx_write(m)
  PROVE  /\ head' \in Index
         /\ tail' = tail
         /\ PointersAligned'
         /\ RawFree' >= keep
<1> DEFINE n == ALIGN(Tlen(m))
<1> USE LengthAssumption
<1>1. /\ head \in Nat /\ tail \in Nat /\ head < Length /\ tail < Length
      /\ head % 8 = 0 /\ tail % 8 = 0
  BY DEF TypeOK, Index, PointersAligned
<1>2. m.hlen \in Nat /\ m.dlen \in Nat /\ Tlen(m) \in Nat
  BY DEF Message, Tlen
<1>3. RawFree \in Nat /\ RawFree <= Length /\ RawFree % 8 = 0
  BY <1>1 DEF RawFree
<1>4. n \in Nat /\ n % 8 = 0
  BY <1>2, AlignFacts, Zenon
<1>5. n + keep <= RawFree
  <2> DEFINE b == RawFree - keep
  <2>1. b \in Int /\ Tlen(m) <= b /\ b % 8 = 0
    BY <1>2, <1>3
  <2> HIDE DEF b
  <2>2. n <= b
    BY <1>2, <2>1, AlignBound, Zenon
  <2> HIDE DEF n
  <2>. QED  BY <1>3, <1>4, <2>2 DEF b
<1>6. head' = Wrap(head + n) /\ tail' = tail
  <2>1. m.hlen + m.dlen < Length
    BY <1>2, <1>3 DEF Tlen
  <2>. QED
    BY <1>2, <2>1, HeadAfterWrite
       DEF glink_smem_tx_write, TypeOK, PointersAligned, Tlen
<1> HIDE DEF n
<1>7. head' \in 0 .. Length - 1 /\ head' % 8 = 0 /\ RawFree' >= keep
  BY <1>1, <1>4, <1>5, <1>6, HeadMoves DEF RawFree, Wrap
<1>. QED  BY <1>1, <1>6, <1>7, Zenon DEF PointersAligned, Index

-----------------------------------------------------------------------------
\* What every step keeps: the types and the three facts about the ring.
Inv == TypeOK /\ RingInv

\* The space a writer is told of, against the bytes that are really free.
LEMMA AvailFacts ==
  ASSUME Inv
  PROVE  /\ RawFree \in Nat /\ RawFree <= Length
         /\ glink_smem_tx_avail \in Nat
         /\ glink_smem_tx_avail > 0 => RawFree = glink_smem_tx_avail + 16
BY LengthAssumption
   DEF Inv, TypeOK, RingInv, PointersAligned, Index, RawFree,
       glink_smem_tx_avail, FIFO_FULL_RESERVE, TX_BLOCKED_CMD_RESERVE

\* The bytes of the ring stay bytes of messages.
LEMMA FifoType ==
  ASSUME NEW mem \in [Index -> [msg : Message, off : Nat]],
         NEW h \in Index, NEW m \in Message, NEW from \in Nat,
         NEW count \in Nat
  PROVE  glink_smem_tx_write_one(mem, h, m, from, count)
            \in [Index -> [msg : Message, off : Nat]]
<1> DEFINE len == IF count <= Length - h THEN count ELSE Length - h
<1>1. len \in Nat
  BY LengthAssumption DEF Index
<1>2. ASSUME NEW i \in Index
      PROVE  /\ h <= i => from + i - h \in Nat
             /\ from + len + i \in Nat
             /\ mem[i] \in [msg : Message, off : Nat]
  BY <1>1, LengthAssumption DEF Index
<1> HIDE DEF len
<1>. QED  BY <1>2, Zenon DEF glink_smem_tx_write_one, Byte, len

\* A write of a message that leaves at least 8 bytes keeps Inv, if the
\* space it leaves matches the value sent_read_notify is given with it.
LEMMA WriteKeepsInv ==
  ASSUME Inv, NEW m \in Message, NEW keep \in {8, 16},
         Tlen(m) + keep <= RawFree,
         glink_smem_tx_write(m),
         sent_read_notify' \in BOOLEAN,
         keep = 16 \/ sent_read_notify'
  PROVE  /\ RingInv'
         /\ head' \in Index /\ tail' \in Index
         /\ fifo' \in [Index -> [msg : Message, off : Nat]]
<1>1. head' \in Index /\ tail' = tail /\ PointersAligned' /\ RawFree' >= keep
  BY WriteKeeps DEF Inv, RingInv
<1>2. FullNeverLooksEmpty' /\ ReadNotifyFits'
  <2>1. RawFree' \in Int
    BY <1>1, LengthAssumption DEF RawFree, Inv, TypeOK, Index
  <2>. QED
    BY <1>1, <2>1 DEF FullNeverLooksEmpty, ReadNotifyFits, FIFO_FULL_RESERVE,
                      TX_BLOCKED_CMD_RESERVE
<1>3. fifo' \in [Index -> [msg : Message, off : Nat]]
  <2>1. m.hlen \in Nat /\ m.dlen \in Nat /\ m.hlen + m.dlen < Length
    <3>1. keep \in Nat /\ keep >= 8 /\ RawFree \in Nat /\ RawFree <= Length
      BY AvailFacts
    <3>2. m.hlen \in Nat /\ m.dlen \in Nat /\ m.hlen + m.dlen + keep <= RawFree
      BY Zenon DEF Message, Tlen
    <3>. QED  BY <3>1, <3>2, LengthAssumption
  <2>2. head \in Index /\ head % 8 = 0
        /\ fifo \in [Index -> [msg : Message, off : Nat]]
    BY Zenon DEF Inv, TypeOK, RingInv, PointersAligned
  <2>3. Wrap(head + m.hlen) \in Index
    BY <2>1, <2>2, HeadAfterWrite, Zenon
  <2>4. glink_smem_tx_write_one(fifo, head, m, 0, m.hlen)
            \in [Index -> [msg : Message, off : Nat]]
    BY <2>1, <2>2, FifoType, Zenon
  <2>. QED  BY <2>1, <2>3, <2>4, FifoType, Zenon DEF glink_smem_tx_write
<1>. QED  BY <1>1, <1>2, <1>3, Zenon DEF RingInv, Inv, TypeOK

\* Every outcome of one turn of the loop of qcom_glink_tx keeps Inv.  The
\* flag the loop runs with is the one in memory, or FALSE when the message
\* has been found to fit.
LEMMA TxLoopKeepsInv ==
  ASSUME Inv, NEW w \in Writers, NEW r \in Request, NEW flag \in BOOLEAN,
         flag = sent_read_notify \/ glink_smem_tx_avail >= Tlen(r),
         TxLoop(w, r, flag),
         UNCHANGED abort_tx, req' \in [Writers -> Request], nsent' \in Nat
  PROVE  Inv'
<1> DEFINE fits == glink_smem_tx_avail >= Tlen(r)
<1>1. /\ r.hlen \in Nat /\ r.dlen \in Nat /\ Tlen(r) \in Nat /\ Tlen(r) > 0
      /\ MessageOf(r) \in Message /\ Tlen(MessageOf(r)) = Tlen(r)
  BY DEF Request, HeaderLen, Tlen, MessageOf, Message, MsgSize
<1>2. /\ ReadNotif \in Message /\ Tlen(ReadNotif) = 8
  BY DEF ReadNotif, Message, Tlen, MsgSize
<1>3. CASE fits /\ WriteAndKick(MessageOf(r)) /\ sent_read_notify' = flag
           /\ Return(w, "0")
  <2>1. Tlen(MessageOf(r)) + 16 <= RawFree
    BY <1>1, <1>3, AvailFacts
  <2>2. /\ RingInv' /\ head' \in Index /\ tail' \in Index
        /\ fifo' \in [Index -> [msg : Message, off : Nat]]
    BY <1>1, <1>3, <2>1, WriteKeepsInv, Zenon DEF WriteAndKick
  <2>. QED
    BY <1>3, <2>2, Zenon DEF WriteAndKick, Return, Inv, TypeOK
<1>4. CASE ~fits /\ Return(w, IF r.wait THEN "EIO" ELSE "EAGAIN")
           /\ sent_read_notify' = flag /\ UNCHANGED <<shared, irqs>>
  <2>1. flag = sent_read_notify
    BY <1>1, <1>4, AvailFacts, Zenon
  <2>2. RingInv'
    BY <1>4, <2>1, Zenon DEF shared, Inv, RingInv, PointersAligned,
       FullNeverLooksEmpty, ReadNotifyFits, RawFree
  <2>. QED
    BY <1>4, <2>2, Zenon DEF shared, irqs, Return, Inv, TypeOK
<1>5. CASE /\ ~fits
           /\ IF flag THEN UNCHANGED <<shared, irqs>>
                      ELSE WriteAndKick(ReadNotif)
           /\ sent_read_notify' = TRUE
           /\ pc' = [pc EXCEPT ![w] = "wait"]
           /\ woken' = [woken EXCEPT ![w] = TRUE]
           /\ UNCHANGED ret
  <2>1. flag = sent_read_notify
    BY <1>1, <1>5, AvailFacts, Zenon
  <2>2. CASE flag
    <3>1. RingInv'
      BY <1>5, <2>1, <2>2, Zenon DEF shared, Inv, RingInv, PointersAligned,
         FullNeverLooksEmpty, ReadNotifyFits, RawFree
    <3>. QED  BY <1>5, <2>2, <3>1, Zenon DEF shared, irqs, Inv, TypeOK
  <2>3. CASE ~flag
    <3>1. Tlen(ReadNotif) + 8 <= RawFree
      BY <1>2, <2>1, <2>3, AvailFacts, Zenon DEF Inv, RingInv, ReadNotifyFits,
         FIFO_FULL_RESERVE, TX_BLOCKED_CMD_RESERVE
    <3>2. /\ RingInv' /\ head' \in Index /\ tail' \in Index
          /\ fifo' \in [Index -> [msg : Message, off : Nat]]
      BY <1>2, <1>5, <2>3, <3>1, WriteKeepsInv, Zenon DEF WriteAndKick
    <3>. QED  BY <1>5, <2>3, <3>2, Zenon DEF WriteAndKick, Inv, TypeOK
  <2>. QED  BY <2>2, <2>3, Zenon
<1>6. glink_smem_tx_avail < Tlen(r) => ~fits
  BY <1>1, AvailFacts
<1>. QED  BY <1>3, <1>4, <1>5, <1>6, Zenon DEF TxLoop

\* Consuming a message the reader has found complete only frees bytes: the
\* rounded length does not pass head, because what is available is a
\* multiple of 8 as well.
LEMMA AdvanceKeepsInv ==
  ASSUME Inv, Complete, glink_smem_rx_advance(ALIGN(PeekedLen)),
         UNCHANGED sent_read_notify
  PROVE  RingInv' /\ tail' \in Index /\ UNCHANGED <<head, fifo>>
<1> DEFINE n == ALIGN(PeekedLen)
<1> USE LengthAssumption
<1>1. /\ head \in Nat /\ tail \in Nat /\ head < Length /\ tail < Length
      /\ head % 8 = 0 /\ tail % 8 = 0
  BY DEF Inv, TypeOK, RingInv, PointersAligned, Index
<1>2. PeekedLen \in Nat
  <2>1. Wrap(tail + 0) \in Index
    BY <1>1 DEF Wrap, Index
  <2>. QED
    BY <2>1 DEF Inv, TypeOK, PeekedLen, glink_smem_rx_peek, Tlen, Message
<1>3. n \in Nat /\ n % 8 = 0 /\ n <= glink_smem_rx_avail
  <2>1. glink_smem_rx_avail \in Nat /\ glink_smem_rx_avail % 8 = 0
    BY <1>1 DEF glink_smem_rx_avail
  <2>2. PeekedLen <= glink_smem_rx_avail
    BY <1>2, <2>1, Zenon DEF Complete
  <2>3. n <= glink_smem_rx_avail
    BY <1>2, <2>1, <2>2, AlignBound
  <2>. QED  BY <1>2, <2>3, AlignFacts, Zenon
<1>4. tail' = IF tail + n >= Length THEN tail + n - Length ELSE tail + n
  <2>1. tail' = IF tail + n >= Length THEN (tail + n) % Length ELSE tail + n
    BY Zenon DEF glink_smem_rx_advance
  <2> HIDE DEF n
  <2>2. tail + n \in Nat /\ tail + n < 2 * Length
    BY <1>1, <1>3 DEF glink_smem_rx_avail
  <2>3. ASSUME NEW a \in Nat, a < 2 * Length, a >= Length
        PROVE  a % Length = a - Length
    BY <2>3, ModWrap
  <2>4. CASE tail + n >= Length
    <3>1. (tail + n) % Length = (tail + n) - Length
      BY <2>2, <2>3, <2>4, Zenon
    <3>. QED  BY <1>1, <1>3, <2>1, <2>2, <2>4, <3>1
  <2>5. CASE ~(tail + n >= Length)
    BY <2>1, <2>5, Zenon
  <2>. QED  BY <2>4, <2>5, Zenon
<1> HIDE DEF n
<1>5. tail' \in Index /\ tail' % 8 = 0 /\ UNCHANGED <<head, fifo>>
  BY <1>1, <1>3, <1>4
     DEF glink_smem_rx_advance, glink_smem_rx_avail, Index
<1>6. RawFree' >= RawFree /\ RawFree' \in Nat /\ RawFree \in Nat
  BY <1>1, <1>3, <1>4, <1>5 DEF glink_smem_rx_avail, RawFree
<1>. QED
  BY <1>1, <1>5, <1>6
     DEF Inv, RingInv, PointersAligned, FullNeverLooksEmpty, ReadNotifyFits,
         FIFO_FULL_RESERVE, TX_BLOCKED_CMD_RESERVE

\* The inductive step: each action of the driver keeps Inv.
LEMMA NextKeepsInv == Inv /\ [Next]_vars => Inv'
<1> SUFFICES ASSUME Inv, [Next]_vars PROVE Inv'
  BY Zenon
<1>0. ASSUME UNCHANGED <<head, tail, fifo, sent_read_notify>>
      PROVE  RingInv'
  BY <1>0, Zenon DEF Inv, RingInv, PointersAligned, FullNeverLooksEmpty,
     ReadNotifyFits, RawFree
<1>1. ASSUME NEW w \in Writers, NEW q \in Requests, TxCall(w, q)
      PROVE  Inv'
  <2> DEFINE r == [id |-> nsent + 2, hlen |-> q.hlen, dlen |-> q.dlen,
                   wait |-> q.wait]
  <2>1. r \in Request /\ nsent' \in Nat
    BY <1>1, RequestsAssumption
       DEF TxCall, Inv, TypeOK, Request, HeaderLen, MsgSize
  <2>2. req' \in [Writers -> Request] /\ UNCHANGED abort_tx
    BY <1>1, <2>1, Zenon DEF TxCall, Inv, TypeOK
  <2>3. CASE TxLoop(w, r, sent_read_notify)
    BY <2>1, <2>2, <2>3, TxLoopKeepsInv, Zenon DEF Inv, TypeOK
  <2>4. ASSUME NEW v \in {"EINVAL", "EIO"}, Return(w, v),
               UNCHANGED <<shared, irqs, sent_read_notify>>
        PROVE  Inv'
    <3>1. RingInv'
      BY <1>0, <2>4, Zenon DEF shared
    <3>. QED  BY <2>1, <2>2, <2>4, <3>1, Zenon
                 DEF shared, irqs, Return, Inv, TypeOK
  <2>. QED  BY <1>1, <2>3, <2>4, Zenon DEF TxCall
<1>2. ASSUME NEW w \in Writers, TxResume(w)
      PROVE  Inv'
  <2>1. req[w] \in Request /\ req' \in [Writers -> Request] /\ nsent' \in Nat
    BY <1>2, Zenon DEF TxResume, Inv, TypeOK
  <2>2. Tlen(req[w]) \in Nat /\ glink_smem_tx_avail \in Nat
    BY <2>1, AvailFacts DEF Request, HeaderLen, Tlen
  <2> DEFINE f == sent_read_notify /\ glink_smem_tx_avail < Tlen(req[w])
  <2>3. f \in BOOLEAN
        /\ (f = sent_read_notify \/ glink_smem_tx_avail >= Tlen(req[w]))
    BY <2>2 DEF Inv, TypeOK
  <2>. QED  BY <1>2, <2>1, <2>3, TxLoopKeepsInv, Zenon DEF TxResume
<1>3. ASSUME NEW w \in Writers, TxSleep(w)
      PROVE  Inv'
  BY <1>0, <1>3, Zenon DEF TxSleep, shared, irqs, Inv, TypeOK
<1>4. CASE TxInterrupt
  BY <1>0, <1>4, Zenon DEF TxInterrupt, WakeUpAll, shared, Inv, TypeOK
<1>5. CASE AbortTx
  BY <1>0, <1>5, Zenon DEF AbortTx, WakeUpAll, shared, irqs, Inv, TypeOK
<1>6. CASE RxInterrupt
  BY <1>0, <1>6, Zenon DEF RxInterrupt, shared, thread, Inv, TypeOK
<1>7. CASE RxMessage
  <2>1. RingInv' /\ tail' \in Index /\ UNCHANGED <<head, fifo>>
    BY <1>7, AdvanceKeepsInv, Zenon DEF RxMessage
  <2>. QED  BY <1>7, <2>1, Zenon DEF RxMessage, thread, Inv, TypeOK
<1>8. CASE RxStop
  BY <1>0, <1>8, Zenon DEF RxStop, shared, thread, Inv, TypeOK
<1>9. CASE UNCHANGED vars
  BY <1>0, <1>9, Zenon DEF vars, Inv, TypeOK
<1>. QED
  BY <1>1, <1>2, <1>3, <1>4, <1>5, <1>6, <1>7, <1>8, <1>9, Zenon
     DEF Next, Writer, Reader, TxWake, TxTimeout

\* The first state: an empty ring.
LEMMA InitInv == Init => Inv
<1>1. Byte(NoMsg, 0) \in [msg : Message, off : Nat]
  BY Zenon DEF Byte, NoMsg, Message, MsgSize
<1>2. Init => TypeOK
  <2>1. [id |-> 0, hlen |-> MsgSize, dlen |-> 0, wait |-> FALSE] \in Request
    BY DEF Request, HeaderLen, MsgSize
  <2>2. 0 \in Index
    BY LengthAssumption DEF Index
  <2>3. Init => /\ pc \in [Writers -> {"idle", "wait"}]
                /\ ret \in [Writers -> {"0", "EINVAL", "EAGAIN", "EIO"}]
                /\ woken \in [Writers -> BOOLEAN]
    BY DEF Init
  <2>4. Init => /\ fifo \in [Index -> [msg : Message, off : Nat]]
                /\ req \in [Writers -> Request]
    BY <1>1, <2>1 DEF Init
  <2>5. Init => head \in Index /\ tail \in Index /\ nsent \in Nat
    BY <2>2 DEF Init
  <2>6. Init => /\ sent_read_notify \in BOOLEAN /\ abort_tx \in BOOLEAN
                /\ rx_irq \in BOOLEAN /\ rx_run \in BOOLEAN
                /\ tx_irq \in BOOLEAN
    BY Zenon DEF Init
  <2>. QED  BY <2>3, <2>4, <2>5, <2>6, Zenon DEF TypeOK
<1>3. Init => RingInv
  BY LengthAssumption
     DEF Init, RingInv, PointersAligned, FullNeverLooksEmpty, ReadNotifyFits,
         RawFree, FIFO_FULL_RESERVE, TX_BLOCKED_CMD_RESERVE
<1>. QED  BY <1>2, <1>3, Zenon DEF Inv

\* Type correctness of the transmit path and the receive loop.
THEOREM TypeCorrect == Spec => []TypeOK
<1>1. Inv => TypeOK
  BY Zenon DEF Inv
<1>. QED  BY <1>1, InitInv, NextKeepsInv, PTL DEF Spec

\* For a ring of any length that is a multiple of 8, any number of
\* concurrent writers and messages of any length: the pointers stay
\* aligned, the ring is never filled so far that it looks empty, and
\* READ_NOTIF, which is written without a look at the space, always fits.
THEOREM RingSafe == Spec => []RingInv
<1>1. Inv => RingInv
  BY Zenon DEF Inv
<1>. QED  BY <1>1, InitInv, NextKeepsInv, PTL DEF Spec
=============================================================================
