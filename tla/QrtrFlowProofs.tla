--------------------------- MODULE QrtrFlowProofs ---------------------------
(***************************************************************************)
(* Proofs about QrtrFlow, for any number of senders, any watermarks and    *)
(* any combination of faults.                                              *)
(***************************************************************************)
EXTENDS QrtrFlow, FiniteSetTheorems, TLAPS

\* The time a leaf may take, in seconds.
USE SMTT(20)

\* The tokens, place by place.  Some place holds one ...
Some ==
    \/ Confirming # {} \/ Confirms(chan) # {} \/ Confirms(rxq) # {}
    \/ resume > 0 \/ lost > 0 \/ tx_failed

\* ... and no place holds two, or one while another place holds one.
AtMostOne ==
    /\ \A a, b \in Confirming : a = b
    /\ \A a, b \in Confirms(chan) : a = b
    /\ \A a, b \in Confirms(rxq) : a = b
    /\ resume <= 1 /\ lost <= 1
    /\ Confirming # {} =>
         Confirms(chan) = {} /\ Confirms(rxq) = {} /\ resume = 0 /\ lost = 0
         /\ ~tx_failed
    /\ Confirms(chan) # {} =>
         Confirms(rxq) = {} /\ resume = 0 /\ lost = 0 /\ ~tx_failed
    /\ Confirms(rxq) # {} => resume = 0 /\ lost = 0 /\ ~tx_failed
    /\ resume > 0 => lost = 0 /\ ~tx_failed
    /\ lost > 0 => ~tx_failed

\* qrtr_tx_flow_failed is called for packets with confirm_rx only.
FailedConfirms == \A s \in Senders : pc[s] = "failed" => confirm_rx[s]

\* The inductive invariant: a confirmation exists exactly from the moment
\* the low watermark is reached to the moment the counter is reset.
Inv ==
    /\ TypeOK
    /\ FailedConfirms
    /\ AtMostOne
    /\ Some <=> pending >= QRTR_TX_FLOW_LOW

\* The two descriptions of the tokens agree.
LEMMA TokensSome == TypeOK => (Tokens # {} <=> Some)
<1> SUFFICES ASSUME TypeOK PROVE Tokens # {} <=> Some
  BY Zenon
<1>1. resume \in Nat /\ lost \in Nat
  BY Zenon DEF TypeOK
<1>2. (1 .. resume # {} <=> resume > 0) /\ (1 .. lost # {} <=> lost > 0)
  BY <1>1
<1>. QED  BY <1>2, Zenon DEF Tokens, Some

\* At most one confirmation under way means that any two tokens are the same.
LEMMA TokensUnique == TypeOK /\ AtMostOne => \A x, y \in Tokens : x = y
<1> SUFFICES ASSUME TypeOK, AtMostOne, NEW x \in Tokens, NEW y \in Tokens
             PROVE  x = y
  BY Zenon
<1>1. resume \in {0, 1} /\ lost \in {0, 1}
  <2>1. resume \in Nat /\ lost \in Nat
    BY Zenon DEF TypeOK
  <2>2. resume <= 1 /\ lost <= 1
    BY Zenon DEF AtMostOne
  <2>. QED  BY <2>1, <2>2
<1>2. \A i \in 1 .. resume : i = 1 /\ resume > 0
  BY <1>1
<1>3. \A i \in 1 .. lost : i = 1 /\ lost > 0
  BY <1>1
<1>4. (resume > 0 <=> resume # 0) /\ (lost > 0 <=> lost # 0)
  BY <1>1
<1>. QED  BY <1>2, <1>3, <1>4, Zenon DEF Tokens, AtMostOne

\* The inductive invariant contains the two properties the runs check.
LEMMA InvImplies == Inv => ConfirmationUnderWay /\ OneConfirmation
<1> SUFFICES ASSUME Inv PROVE ConfirmationUnderWay /\ OneConfirmation
  BY Zenon
<1>1. pending \in Nat
  BY FlowAssumption DEF Inv, TypeOK
<1>2. pending < QRTR_TX_FLOW_LOW <=> ~(pending >= QRTR_TX_FLOW_LOW)
  BY <1>1, FlowAssumption
<1>. QED
  BY <1>2, TokensSome, TokensUnique, Zenon
     DEF Inv, ConfirmationUnderWay, OneConfirmation

-----------------------------------------------------------------------------
\* Queues of flags: what Append, Tail and Head do to the flagged positions.
LEMMA AppendConfirms ==
  ASSUME NEW q \in Seq(BOOLEAN), NEW b \in BOOLEAN
  PROVE  /\ Append(q, b) \in Seq(BOOLEAN)
         /\ Confirms(Append(q, b)) =
              IF b THEN Confirms(q) \cup {Len(q) + 1} ELSE Confirms(q)
<1>1. /\ Append(q, b) \in Seq(BOOLEAN)
      /\ DOMAIN Append(q, b) = 1 .. Len(q) + 1 /\ DOMAIN q = 1 .. Len(q)
      /\ Len(q) \in Nat
      /\ \A i \in 1 .. Len(q) : Append(q, b)[i] = q[i]
      /\ Append(q, b)[Len(q) + 1] = b
  OBVIOUS
<1>. QED  BY <1>1 DEF Confirms

\* Taking the first packet off a queue takes away its request to confirm.
LEMMA TailConfirms ==
  ASSUME NEW q \in Seq(BOOLEAN), q # <<>>
  PROVE  /\ Tail(q) \in Seq(BOOLEAN) /\ Head(q) \in BOOLEAN
         /\ Head(q) <=> 1 \in Confirms(q)
         /\ \A i \in Confirms(Tail(q)) : i \in Nat /\ i > 0 /\ i + 1 \in Confirms(q)
         /\ \A i \in Confirms(q) :
              i \in Nat /\ (i = 1 \/ i - 1 \in Confirms(Tail(q)))
<1>1. /\ Tail(q) \in Seq(BOOLEAN) /\ Head(q) \in BOOLEAN /\ Head(q) = q[1]
      /\ DOMAIN Tail(q) = 1 .. Len(q) - 1 /\ DOMAIN q = 1 .. Len(q)
      /\ Len(q) \in Nat /\ Len(q) >= 1
      /\ \A i \in 1 .. Len(q) - 1 : Tail(q)[i] = q[i + 1]
  OBVIOUS
<1>2. ASSUME NEW i \in Confirms(Tail(q))
      PROVE  i \in Nat /\ i + 1 \in Confirms(q)
  BY <1>1 DEF Confirms
<1>3. ASSUME NEW i \in Confirms(q), i # 1
      PROVE  i \in Nat /\ i - 1 \in Confirms(Tail(q))
  <2>1. i \in 1 .. Len(q) /\ q[i]
    BY <1>1, Zenon DEF Confirms
  <2>2. i - 1 \in 1 .. Len(q) - 1 /\ (i - 1) + 1 = i
    BY <1>1, <1>3, <2>1
  <2>. QED  BY <1>1, <2>1, <2>2 DEF Confirms
<1>4. Head(q) <=> 1 \in Confirms(q)
  <2>1. 1 \in DOMAIN q
    BY <1>1
  <2>. QED  BY <1>1, <2>1, Zenon DEF Confirms
<1>5. \A i \in Confirms(q) : i \in Nat
  BY <1>1 DEF Confirms
<1>6. \A i \in Confirms(Tail(q)) : i > 0
  BY <1>1 DEF Confirms
<1>. QED  BY <1>1, <1>2, <1>3, <1>4, <1>5, <1>6, Zenon

\* The same, as the invariant uses it: a queue with at most one flag.
LEMMA TailOne ==
  ASSUME NEW q \in Seq(BOOLEAN), q # <<>>,
         \A a, b \in Confirms(q) : a = b
  PROVE  /\ \A a, b \in Confirms(Tail(q)) : a = b
         /\ Head(q) => Confirms(q) # {} /\ Confirms(Tail(q)) = {}
         /\ ~Head(q) => (Confirms(Tail(q)) = {} <=> Confirms(q) = {})
<1>1. /\ Head(q) <=> 1 \in Confirms(q)
      /\ \A i \in Confirms(Tail(q)) : i \in Nat /\ i > 0 /\ i + 1 \in Confirms(q)
      /\ \A i \in Confirms(q) :
           i \in Nat /\ (i = 1 \/ i - 1 \in Confirms(Tail(q)))
  BY TailConfirms, Zenon
<1>2. ASSUME NEW a \in Confirms(Tail(q)), NEW b \in Confirms(Tail(q))
      PROVE  a = b
  <2>1. a \in Nat /\ b \in Nat
    BY <1>1, Zenon
  <2>2. a + 1 \in Confirms(q) /\ b + 1 \in Confirms(q)
    BY <1>1, Zenon
  <2>3. a + 1 = b + 1
    BY <2>2, Zenon
  <2>. QED  BY <2>1, <2>3
<1>3. ASSUME Head(q), NEW a \in Confirms(Tail(q))
      PROVE  FALSE
  <2>1. a \in Nat /\ a > 0
    BY <1>1, Zenon
  <2>2. a + 1 \in Confirms(q) /\ 1 \in Confirms(q)
    BY <1>1, <1>3, Zenon
  <2>3. a + 1 = 1
    BY <2>2, Zenon
  <2>. QED  BY <2>1, <2>3
<1>4. Head(q) => Confirms(q) # {}
  BY <1>1, Zenon
<1>5. ASSUME ~Head(q)
      PROVE  Confirms(Tail(q)) = {} <=> Confirms(q) = {}
  BY <1>1, <1>5, Zenon
<1>. QED  BY <1>2, <1>3, <1>4, <1>5, Zenon

-----------------------------------------------------------------------------
\* Init and the steps.  In each, Confirming' is worked out first: it changes
\* only where a sender enters or leaves "xmit" or "failed".
LEMMA InitInv == Init => Inv
<1> SUFFICES ASSUME Init PROVE Inv
  BY Zenon
<1> USE FlowAssumption
<1>1. pending \in 0 .. QRTR_TX_FLOW_HIGH /\ resume \in Nat /\ lost \in Nat
      /\ nsent \in Nat
  BY DEF Init
<1>2. /\ tx_failed \in BOOLEAN /\ ep \in BOOLEAN
      /\ waiters \subseteq Senders /\ inbox \subseteq Senders
      /\ chan \in Seq(BOOLEAN) /\ rxq \in Seq(BOOLEAN)
  <2>1. tx_failed \in BOOLEAN /\ ep \in BOOLEAN
    BY Zenon DEF Init
  <2>2. chan \in Seq(BOOLEAN) /\ rxq \in Seq(BOOLEAN)
    BY SMT DEF Init
  <2>3. waiters \subseteq Senders /\ inbox \subseteq Senders
    BY Zenon DEF Init
  <2>. QED  BY <2>1, <2>2, <2>3, Zenon
<1>3. /\ pc \in [Senders -> {"idle", "wait", "xmit", "failed"}]
      /\ confirm_rx \in [Senders -> BOOLEAN]
      /\ woken \in [Senders -> BOOLEAN]
      /\ ret \in [Senders -> {"0", "EPIPE", "EAGAIN", "ERESTARTSYS", "ENODEV"}]
  BY Zenon DEF Init
<1>4. Confirming = {} /\ Confirms(chan) = {} /\ Confirms(rxq) = {}
  BY DEF Init, Confirming, Confirms
<1>5. resume = 0 /\ lost = 0 /\ ~tx_failed /\ pending = 0
  BY Zenon DEF Init
<1>6. AtMostOne
  BY <1>4, <1>5 DEF AtMostOne
<1>7. ~Some
  BY <1>4, <1>5 DEF Some
<1>8. ~(pending >= QRTR_TX_FLOW_LOW)
  BY <1>5
<1>9. FailedConfirms
  BY Zenon DEF Init, FailedConfirms
<1>. QED  BY <1>1, <1>2, <1>3, <1>6, <1>7, <1>8, <1>9, Zenon DEF Inv, TypeOK

\* A sender that is not transmitting decides.
LEMMA DecideKeepsInv ==
  ASSUME Inv, NEW s \in Senders, pc[s] \in {"idle", "wait"}, TxDecide(s),
         woken' = [woken EXCEPT ![s] = FALSE],
         inbox' \subseteq Senders, nsent' \in Nat,
         UNCHANGED <<ep, chan, rxq, resume, lost>>
  PROVE  Inv'
<1> USE FlowAssumption DEF Inv
<1>1. s \notin Confirming
  BY Zenon DEF Confirming
<1>2. FailedConfirms'
  BY Zenon DEF TxDecide, Return, Proceed, FailedConfirms, TypeOK
<1>3. CASE ~ep
  <2>1. /\ Return(s, "EPIPE")
        /\ UNCHANGED <<pending, tx_failed, confirm_rx, waiters>>
    BY <1>3, Zenon DEF TxDecide
  <2>2. TypeOK'
    BY <2>1, Zenon DEF Return, TypeOK
  <2>3. Confirming' = Confirming
    BY <2>1, <1>1, Zenon DEF Return, Confirming, TypeOK
  <2>. QED  BY <1>2, <2>1, <2>2, <2>3, Zenon DEF AtMostOne, Some, Confirms
<1>4. CASE ep /\ tx_failed
  <2>1. /\ Proceed(s, TRUE) /\ ~tx_failed'
        /\ tx_failed' = FALSE
        /\ UNCHANGED <<pending, waiters>>
    BY <1>4, Zenon DEF TxDecide
  <2>2. TypeOK'
    BY <2>1, Zenon DEF Proceed, TypeOK
  <2>3. Confirming' = Confirming \cup {s}
    BY <2>1, Zenon DEF Proceed, Confirming, TypeOK
  <2>4. Confirming = {}
    BY <1>4, Zenon DEF AtMostOne
  <2>5. /\ Confirms(chan) = {} /\ Confirms(rxq) = {}
        /\ ~(resume > 0) /\ ~(lost > 0)
    BY <1>4, Zenon DEF AtMostOne
  <2>6. resume = 0 /\ lost = 0
    BY <2>5 DEF TypeOK
  <2>7. AtMostOne'
    BY <2>1, <2>3, <2>4, <2>5, <2>6, Zenon DEF AtMostOne, Confirms
  <2>8. Some' /\ Some
    BY <1>4, <2>3, Zenon DEF Some
  <2>. QED  BY <1>2, <2>1, <2>2, <2>7, <2>8, Zenon
<1>5. CASE ep /\ ~tx_failed
  <2> DEFINE low == pending + 1 = QRTR_TX_FLOW_LOW
  <2>1. /\ pending < QRTR_TX_FLOW_HIGH
        /\ pending' = pending + 1
        /\ Proceed(s, low)
        /\ UNCHANGED <<tx_failed, waiters>>
    BY <1>5, Zenon DEF TxDecide, Condition
  <2>2. low \in BOOLEAN
    BY Zenon
  <2>3. pending' \in 0 .. QRTR_TX_FLOW_HIGH
    BY <2>1 DEF TypeOK
  <2>4. (pending' >= QRTR_TX_FLOW_LOW <=> (pending >= QRTR_TX_FLOW_LOW \/ low))
        /\ (low => ~(pending >= QRTR_TX_FLOW_LOW))
    BY <2>1 DEF TypeOK
  <2> HIDE DEF low
  <2>5. TypeOK'
    BY <2>1, <2>2, <2>3, Zenon DEF Proceed, TypeOK
  <2>6. Confirming' = IF low THEN Confirming \cup {s} ELSE Confirming
    BY <1>1, <2>1, <2>2, Zenon DEF Proceed, Confirming, TypeOK
  <2>7. UNCHANGED <<tx_failed, chan, rxq, resume, lost>>
    BY <2>1, Zenon
  <2>8. CASE low
    <3>1. ~Some
      BY <2>4, <2>8, Zenon
    <3>2. /\ Confirming = {} /\ Confirms(chan) = {} /\ Confirms(rxq) = {}
          /\ ~(resume > 0) /\ ~(lost > 0) /\ ~tx_failed
      BY <3>1, Zenon DEF Some
    <3>3. resume = 0 /\ lost = 0
      BY <3>2 DEF TypeOK
    <3>4. AtMostOne'
      BY <2>6, <2>7, <2>8, <3>2, <3>3, Zenon DEF AtMostOne, Confirms
    <3>5. Some'
      BY <2>6, <2>8, Zenon DEF Some
    <3>. QED  BY <1>2, <2>4, <2>5, <2>8, <3>4, <3>5, Zenon
  <2>9. CASE ~low
    <3>1. Confirming' = Confirming
      BY <2>6, <2>9, Zenon
    <3>2. (AtMostOne' <=> AtMostOne) /\ (Some' <=> Some)
      BY <2>7, <3>1, Zenon DEF AtMostOne, Some, Confirms
    <3>. QED  BY <1>2, <2>4, <2>5, <2>9, <3>2, Zenon
  <2>. QED  BY <2>8, <2>9, Zenon
<1>. QED  BY <1>3, <1>4, <1>5, Zenon DEF TypeOK

\* A step that leaves every place of the confirmation alone.
LEMMA QuietKeepsInv ==
  ASSUME Inv, TypeOK', FailedConfirms', Confirming' = Confirming,
         UNCHANGED <<pending, tx_failed, chan, rxq, resume, lost>>
  PROVE  Inv'
BY Zenon DEF Inv, AtMostOne, Some, Confirms

\* A sender that is not transmitting returns or sleeps.
LEMMA WaitKeepsInv ==
  ASSUME Inv, NEW s \in Senders, pc[s] \in {"idle", "wait"},
         TxAgain(s) \/ TxBlock(s) \/ Sleep(s) \/ Signal(s),
         woken' = [woken EXCEPT ![s] = FALSE],
         inbox' \subseteq Senders, nsent' \in Nat,
         UNCHANGED <<ep, chan, rxq, resume, lost>>
  PROVE  Inv'
<1>1. TypeOK'
  BY Zenon DEF Inv, TypeOK, TxAgain, TxBlock, Sleep, Signal, Return, flow
<1>2. Confirming' = Confirming
  BY DEF Inv, TypeOK, TxAgain, TxBlock, Sleep, Signal, Return, Confirming
<1>3. UNCHANGED <<pending, tx_failed, chan, rxq, resume, lost>>
  BY Zenon DEF TxAgain, TxBlock, Sleep, Signal, flow
<1>4. FailedConfirms'
  BY Zenon
     DEF Inv, TypeOK, TxAgain, TxBlock, Sleep, Signal, Return, FailedConfirms
<1>. QED  BY <1>1, <1>2, <1>3, <1>4, QuietKeepsInv, Zenon

\* The confirmation passes from the sender into the transport.
LEMMA XmitKeepsInv ==
  ASSUME Inv, NEW s \in Senders, Xmit(s)
  PROVE  Inv'
<1> USE DEF Inv
<1>1. /\ chan \in Seq(BOOLEAN) /\ confirm_rx[s] \in BOOLEAN
      /\ chan' = Append(chan, confirm_rx[s])
      /\ UNCHANGED <<flow, ep, confirm_rx, woken, rxq, resume, inbox, lost,
                     nsent>>
  BY Zenon DEF TypeOK, Xmit
<1>2. /\ chan' \in Seq(BOOLEAN)
      /\ Confirms(chan') = IF confirm_rx[s]
                             THEN Confirms(chan) \cup {Len(chan) + 1}
                             ELSE Confirms(chan)
  BY <1>1, AppendConfirms, Zenon
<1>3. TypeOK'
  BY <1>1, <1>2, Zenon DEF TypeOK, Xmit, Return, flow
<1>4. Confirming' = Confirming \ {s}
  BY Zenon DEF TypeOK, Xmit, Return, Confirming
<1>5. confirm_rx[s] <=> s \in Confirming
  BY Zenon DEF Xmit, Confirming
<1>6. UNCHANGED <<pending, tx_failed, rxq, resume, lost>>
  BY <1>1, Zenon DEF flow
<1>0. FailedConfirms'
  BY Zenon DEF TypeOK, Xmit, Return, FailedConfirms
<1>7. CASE confirm_rx[s]
  <2>1. Confirming' = {} /\ Confirms(chan) = {} /\ Confirming # {}
    BY <1>4, <1>5, <1>7, Zenon DEF AtMostOne
  <2>2. Confirms(chan') = {Len(chan) + 1}
    BY <1>2, <1>7, <2>1, Zenon
  <2>3. AtMostOne'
    BY <1>6, <2>1, <2>2, Zenon DEF AtMostOne, Confirms
  <2>4. Some' /\ Some
    BY <2>1, <2>2, Zenon DEF Some, Confirms
  <2>. QED  BY <1>0, <1>3, <1>6, <2>3, <2>4, Zenon
<1>8. CASE ~confirm_rx[s]
  <2>1. Confirming' = Confirming /\ Confirms(chan') = Confirms(chan)
    BY <1>2, <1>4, <1>5, <1>8, Zenon
  <2>2. (AtMostOne' <=> AtMostOne) /\ (Some' <=> Some)
    BY <1>6, <2>1, Zenon DEF AtMostOne, Some, Confirms
  <2>. QED  BY <1>0, <1>3, <1>6, <2>2, Zenon
<1>. QED  BY <1>7, <1>8, Zenon

\* A failed transmission keeps it with the sender, and then in tx_failed.
LEMMA FailKeepsInv ==
  ASSUME Inv, NEW s \in Senders, XmitFail(s) \/ FlowFailed(s)
  PROVE  Inv'
<1> USE DEF Inv
<1>0. FailedConfirms'
  BY Zenon DEF TypeOK, XmitFail, FlowFailed, FailedConfirms
<1>1. CASE XmitFail(s)
  <2>1. TypeOK'
    BY <1>1, Zenon DEF TypeOK, XmitFail, flow, net
  <2>2. Confirming' = Confirming
    BY <1>1, Zenon DEF TypeOK, XmitFail, Confirming
  <2>3. UNCHANGED <<pending, tx_failed, chan, rxq, resume, lost>>
    BY <1>1, Zenon DEF XmitFail, flow, net
  <2>. QED  BY <1>0, <2>1, <2>2, <2>3, QuietKeepsInv, Zenon
<1>2. CASE FlowFailed(s)
  <2>1. TypeOK'
    BY <1>2, Zenon DEF TypeOK, FlowFailed, net
  <2>2. s \in Confirming /\ Confirming' = Confirming \ {s}
    BY <1>2, Zenon DEF TypeOK, FlowFailed, FailedConfirms, Confirming
  <2>3. UNCHANGED <<pending, chan, rxq, resume, lost>> /\ tx_failed' = TRUE
    BY <1>2, Zenon DEF FlowFailed, net
  <2>4. Confirming' = {}
    BY <2>2, Zenon DEF AtMostOne
  <2>5. /\ Confirms(chan) = {} /\ Confirms(rxq) = {} /\ resume = 0 /\ lost = 0
    BY <2>2, Zenon DEF AtMostOne
  <2>6. AtMostOne'
    BY <2>3, <2>4, <2>5 DEF AtMostOne, Confirms
  <2>7. Some' /\ Some
    BY <2>2, <2>3, Zenon DEF Some
  <2>. QED  BY <1>0, <2>1, <2>3, <2>6, <2>7, Zenon
<1>. QED  BY <1>1, <1>2, Zenon

-----------------------------------------------------------------------------
\* The receiving node moves the confirmation on, turns it into RESUME_TX, or
\* loses it.
LEMMA ReceiverKeepsInv ==
  ASSUME Inv, Receiver
  PROVE  Inv'
<1> USE DEF Inv
<1>1. UNCHANGED <<pending, tx_failed, waiters, ep, pc, confirm_rx, woken, ret,
                  inbox, nsent>>
  BY Zenon DEF Receiver, Post, PostDrop, Recvmsg, flow, sender
<1>2. Confirming' = Confirming /\ FailedConfirms'
  BY <1>1, Zenon DEF Confirming, FailedConfirms
<1>3. chan \in Seq(BOOLEAN) /\ rxq \in Seq(BOOLEAN) /\ resume \in Nat /\ lost \in Nat
  BY Zenon DEF TypeOK
<1>4. CASE Post
  <2>1. /\ chan # <<>> /\ rxq' = Append(rxq, Head(chan)) /\ chan' = Tail(chan)
        /\ resume' = resume /\ lost' = lost
    BY <1>4, Zenon DEF Post
  <2>2. /\ chan' \in Seq(BOOLEAN) /\ Head(chan) \in BOOLEAN
    BY <1>3, <2>1, TailConfirms, Zenon
  <2>3. /\ \A a, b \in Confirms(chan') : a = b
        /\ Head(chan) => Confirms(chan) # {} /\ Confirms(chan') = {}
        /\ ~Head(chan) => (Confirms(chan') = {} <=> Confirms(chan) = {})
    BY <1>3, <2>1, TailOne, Zenon DEF AtMostOne
  <2>4. /\ rxq' \in Seq(BOOLEAN)
        /\ Confirms(rxq') = IF Head(chan) THEN Confirms(rxq) \cup {Len(rxq) + 1}
                                          ELSE Confirms(rxq)
    BY <1>3, <2>1, <2>2, AppendConfirms, Zenon
  <2>5. TypeOK'
    BY <1>1, <2>1, <2>2, <2>4, Zenon DEF TypeOK
  <2>6. AtMostOne'
    <3>1. Confirms(chan)' = Confirms(chan') /\ Confirms(rxq)' = Confirms(rxq')
      BY Zenon DEF Confirms
    <3>. QED  BY <1>1, <1>2, <2>1, <2>3, <2>4, <3>1, Zenon DEF AtMostOne
  <2>7. Some' <=> Some
    <3>1. Confirms(chan)' = Confirms(chan') /\ Confirms(rxq)' = Confirms(rxq')
      BY Zenon DEF Confirms
    <3>. QED  BY <1>1, <1>2, <2>1, <2>2, <2>3, <2>4, <3>1, Zenon DEF Some
  <2>. QED  BY <1>1, <1>2, <2>5, <2>6, <2>7, Zenon
<1>5. CASE PostDrop
  <2>1. /\ chan # <<>> /\ chan' = Tail(chan) /\ rxq' = rxq /\ resume' = resume
        /\ Head(chan) => lost' = lost + 1
        /\ ~Head(chan) => lost' = lost
    BY <1>5, Zenon DEF PostDrop
  <2>2. chan' \in Seq(BOOLEAN)
    BY <1>3, <2>1, TailConfirms, Zenon
  <2>3. /\ \A a, b \in Confirms(chan') : a = b
        /\ Head(chan) => Confirms(chan) # {} /\ Confirms(chan') = {}
        /\ ~Head(chan) => (Confirms(chan') = {} <=> Confirms(chan) = {})
    BY <1>3, <2>1, TailOne, Zenon DEF AtMostOne
  <2>4. Confirms(chan)' = Confirms(chan') /\ Confirms(rxq)' = Confirms(rxq)
    BY <2>1, Zenon DEF Confirms
  <2>5. CASE Head(chan)
    <3>1. Confirms(chan) # {} /\ Confirms(chan') = {} /\ lost' = lost + 1
      BY <2>1, <2>3, <2>5, Zenon
    <3>2. /\ Confirming = {} /\ Confirms(rxq) = {} /\ resume = 0 /\ lost = 0
          /\ ~tx_failed
      BY <3>1, Zenon DEF AtMostOne
    <3>3. lost' = 1
      BY <3>1, <3>2
    <3>4. TypeOK'
      BY <1>1, <2>1, <2>2, <3>3, Zenon DEF TypeOK
    <3>5. AtMostOne'
      <4>1. /\ Confirming' = {} /\ Confirms(chan)' = {} /\ Confirms(rxq)' = {}
            /\ resume' = 0 /\ ~tx_failed'
        BY <1>1, <1>2, <2>1, <2>4, <3>1, <3>2, Zenon
      <4>. QED  BY <3>3, <4>1 DEF AtMostOne
    <3>6. Some' /\ Some
      BY <3>1, <3>3 DEF Some
    <3>. QED  BY <1>1, <1>2, <3>4, <3>5, <3>6, Zenon
  <2>6. CASE ~Head(chan)
    <3>1. lost' = lost /\ (Confirms(chan') = {} <=> Confirms(chan) = {})
      BY <2>1, <2>3, <2>6, Zenon
    <3>2. TypeOK'
      BY <1>1, <2>1, <2>2, <3>1, Zenon DEF TypeOK
    <3>3. AtMostOne'
      BY <1>1, <1>2, <2>1, <2>3, <2>4, <3>1, Zenon DEF AtMostOne
    <3>4. Some' <=> Some
      BY <1>1, <1>2, <2>1, <2>4, <3>1, Zenon DEF Some
    <3>. QED  BY <1>1, <1>2, <3>2, <3>3, <3>4, Zenon
  <2>. QED  BY <2>5, <2>6, Zenon
<1>6. CASE Recvmsg
  <2>1. /\ rxq # <<>> /\ rxq' = Tail(rxq) /\ chan' = chan
        /\ Head(rxq) => \/ resume' = resume + 1 /\ lost' = lost
                        \/ resume' = resume /\ lost' = lost + 1
        /\ ~Head(rxq) => resume' = resume /\ lost' = lost
    BY <1>6, Zenon DEF Recvmsg
  <2>2. rxq' \in Seq(BOOLEAN)
    BY <1>3, <2>1, TailConfirms, Zenon
  <2>3. /\ \A a, b \in Confirms(rxq') : a = b
        /\ Head(rxq) => Confirms(rxq) # {} /\ Confirms(rxq') = {}
        /\ ~Head(rxq) => (Confirms(rxq') = {} <=> Confirms(rxq) = {})
    BY <1>3, <2>1, TailOne, Zenon DEF AtMostOne
  <2>4. Confirms(rxq)' = Confirms(rxq') /\ Confirms(chan)' = Confirms(chan)
    BY <2>1, Zenon DEF Confirms
  <2>5. CASE Head(rxq)
    <3>1. /\ Confirms(rxq) # {} /\ Confirms(rxq') = {}
          /\ \/ resume' = resume + 1 /\ lost' = lost
             \/ resume' = resume /\ lost' = lost + 1
      BY <2>1, <2>3, <2>5, Zenon
    <3>2. /\ Confirming = {} /\ Confirms(chan) = {} /\ resume = 0 /\ lost = 0
          /\ ~tx_failed
      BY <3>1, Zenon DEF AtMostOne
    <3>3. (resume' = 1 /\ lost' = 0) \/ (resume' = 0 /\ lost' = 1)
      BY <3>1, <3>2
    <3>4. TypeOK'
      <4>1. resume' \in Nat /\ lost' \in Nat
        BY <3>3
      <4>. QED  BY <1>1, <2>1, <2>2, <4>1, Zenon DEF TypeOK
    <3>5. AtMostOne'
      BY <1>1, <1>2, <2>4, <3>1, <3>2, <3>3 DEF AtMostOne
    <3>6. Some' /\ Some
      BY <3>1, <3>3 DEF Some
    <3>. QED  BY <1>1, <1>2, <3>4, <3>5, <3>6, Zenon
  <2>6. CASE ~Head(rxq)
    <3>1. /\ resume' = resume /\ lost' = lost
          /\ Confirms(rxq') = {} <=> Confirms(rxq) = {}
      BY <2>1, <2>3, <2>6, Zenon
    <3>2. TypeOK'
      BY <1>1, <2>1, <2>2, <3>1, Zenon DEF TypeOK
    <3>3. AtMostOne'
      BY <1>1, <1>2, <2>3, <2>4, <3>1, Zenon DEF AtMostOne
    <3>4. Some' <=> Some
      BY <1>1, <1>2, <2>4, <3>1, Zenon DEF Some
    <3>. QED  BY <1>1, <1>2, <3>2, <3>3, <3>4, Zenon
  <2>. QED  BY <2>5, <2>6, Zenon
<1>. QED  BY <1>4, <1>5, <1>6, Zenon DEF Receiver

\* RESUME_TX takes the only confirmation and resets the counter.
LEMMA ResumeKeepsInv ==
  ASSUME Inv, qrtr_tx_resume
  PROVE  Inv'
<1> USE FlowAssumption DEF Inv
<1>1. /\ resume > 0 /\ resume' = resume - 1 /\ pending' = 0
      /\ UNCHANGED <<tx_failed, ep, pc, confirm_rx, ret, chan, rxq, lost, nsent>>
  BY Zenon DEF qrtr_tx_resume
<1>2. resume = 1 /\ lost = 0 /\ ~tx_failed
  BY <1>1 DEF AtMostOne, TypeOK
<1>3. Confirming = {} /\ Confirms(chan) = {} /\ Confirms(rxq) = {}
  BY <1>1, <1>2 DEF AtMostOne
<1>4. resume' = 0
  BY <1>1, <1>2
<1>5. woken' \in [Senders -> BOOLEAN]
  BY Zenon DEF qrtr_tx_resume, WakeUpAll
<1>6. waiters' \subseteq Senders /\ inbox' \subseteq Senders
  BY Zenon DEF qrtr_tx_resume, TypeOK
<1>7. TypeOK'
  BY <1>1, <1>4, <1>5, <1>6 DEF TypeOK
<1>8. Confirming' = {} /\ Confirms(chan)' = {} /\ Confirms(rxq)' = {}
      /\ FailedConfirms'
  BY <1>1, <1>3, Zenon DEF Confirming, Confirms, FailedConfirms
<1>9. AtMostOne' /\ ~Some'
  BY <1>1, <1>2, <1>4, <1>8 DEF AtMostOne, Some
<1>10. ~(pending' >= QRTR_TX_FLOW_LOW)
  BY <1>1
<1>. QED  BY <1>7, <1>8, <1>9, <1>10, Zenon

\* The end of the endpoint wakes everybody and touches no counter.
LEMMA UnregisterKeepsInv ==
  ASSUME Inv, qrtr_endpoint_unregister
  PROVE  Inv'
<1>1. UNCHANGED <<pending, tx_failed, waiters, pc, confirm_rx, ret, chan, rxq,
                  resume, inbox, lost, nsent>> /\ ep' = FALSE
  BY Zenon DEF qrtr_endpoint_unregister, flow, net
<1>2. woken' \in [Senders -> BOOLEAN]
  BY Zenon DEF qrtr_endpoint_unregister, WakeUpAll
<1>3. TypeOK'
  BY <1>1, <1>2, Zenon DEF Inv, TypeOK
<1>4. Confirming' = Confirming /\ FailedConfirms'
  BY <1>1, Zenon DEF Inv, Confirming, FailedConfirms
<1>. QED  BY <1>1, <1>3, <1>4, QuietKeepsInv, Zenon

\* Every step keeps the inductive invariant.
LEMMA NextKeepsInv == Inv /\ [Next]_vars => Inv'
<1> SUFFICES ASSUME Inv, [Next]_vars PROVE Inv'
  BY Zenon
<1>1. ASSUME NEW s \in Senders, NEW b \in BOOLEAN, Sendmsg(s, b)
      PROVE  Inv'
  <2>1. /\ pc[s] \in {"idle", "wait"}
        /\ woken' = [woken EXCEPT ![s] = FALSE]
        /\ UNCHANGED <<ep, chan, rxq, resume, lost>>
    BY <1>1, Zenon DEF Sendmsg
  <2>2. inbox' \subseteq Senders /\ nsent' \in Nat
    BY <1>1 DEF Sendmsg, Inv, TypeOK
  <2>3. TxDecide(s) \/ TxAgain(s) \/ TxBlock(s)
    BY <1>1, Zenon DEF Sendmsg
  <2>. QED  BY <2>1, <2>2, <2>3, DecideKeepsInv, WaitKeepsInv, Zenon
<1>2. ASSUME NEW s \in Senders, Wake(s) \/ Timeout(s) \/ Sleep(s) \/ Signal(s)
      PROVE  Inv'
  <2>1. /\ pc[s] \in {"idle", "wait"}
        /\ woken' = [woken EXCEPT ![s] = FALSE]
        /\ UNCHANGED <<ep, chan, rxq, resume, lost>>
    BY <1>2, Zenon DEF Wake, Timeout, Sleep, Signal, net
  <2>2. inbox' \subseteq Senders /\ nsent' \in Nat
    BY <1>2, Zenon DEF Wake, Timeout, Sleep, Signal, net, Inv, TypeOK
  <2>3. TxDecide(s) \/ TxAgain(s) \/ Sleep(s) \/ Signal(s)
    BY <1>2, Zenon DEF Wake, Timeout
  <2>. QED  BY <2>1, <2>2, <2>3, DecideKeepsInv, WaitKeepsInv, Zenon
<1>3. ASSUME NEW s \in Senders, Xmit(s) \/ XmitFail(s) \/ FlowFailed(s)
      PROVE  Inv'
  BY <1>3, XmitKeepsInv, FailKeepsInv, Zenon
<1>4. CASE Receiver
  BY <1>4, ReceiverKeepsInv, Zenon
<1>5. CASE qrtr_tx_resume
  BY <1>5, ResumeKeepsInv, Zenon
<1>6. CASE qrtr_endpoint_unregister
  BY <1>6, UnregisterKeepsInv, Zenon
<1>7. CASE UNCHANGED vars
  BY <1>7, Zenon DEF vars, Inv, TypeOK, AtMostOne, Some, Confirming, Confirms,
              FailedConfirms
<1>. QED  BY <1>1, <1>2, <1>3, <1>4, <1>5, <1>6, <1>7, Zenon
             DEF Next, SenderStep

-----------------------------------------------------------------------------
\* The state of the flow and of its senders keeps its types; in particular
\* flow->pending never passes QRTR_TX_FLOW_HIGH, however many senders wake
\* at once (qrtr_tx_wait).
THEOREM TypeCorrect == Spec => []TypeOK
<1>1. Inv => TypeOK
  BY Zenon DEF Inv
<1>. QED  BY <1>1, InitInv, NextKeepsInv, PTL DEF Spec

\* From the packet that reaches QRTR_TX_FLOW_LOW until qrtr_tx_resume there is
\* a confirmation somewhere between the two nodes, whatever transmissions
\* fail: qrtr_tx_flow_failed keeps it in tx_failed.
THEOREM ConfirmationKept == Spec => []ConfirmationUnderWay
<1>1. Inv => ConfirmationUnderWay
  BY InvImplies, Zenon
<1>. QED  BY <1>1, InitInv, NextKeepsInv, PTL DEF Spec

\* There is never a second confirmation, nor one before the low watermark: a
\* failed confirm_rx that is sent again (tx_failed) does not duplicate it.
THEOREM ConfirmationUnique == Spec => []OneConfirmation
<1>1. Inv => OneConfirmation
  BY InvImplies, Zenon
<1>. QED  BY <1>1, InitInv, NextKeepsInv, PTL DEF Spec

-----------------------------------------------------------------------------
\* What keeps AgainIsNotified: a sender whose transmission failed has its
\* result already when it comes back from qrtr_tx_flow_failed.
FailedReturns == \A s \in Senders : pc[s] = "failed" => ret[s] = "ENODEV"

AgainInv == FailedReturns /\ AgainIsNotified

\* A step of one sender that leaves the others and their notices alone.
LEMMA OneSenderKeepsAgain ==
  ASSUME AgainInv, NEW s \in Senders,
         \A d \in Senders \ {s} : pc'[d] = pc[d] /\ ret'[d] = ret[d],
         waiters \subseteq waiters', inbox \ {s} \subseteq inbox',
         pc'[s] = "failed" => ret'[s] = "ENODEV",
         pc'[s] = "idle" /\ ret'[s] = "EAGAIN" => s \in waiters' \/ s \in inbox'
  PROVE  AgainInv'
<1>1. FailedReturns'
  BY Zenon DEF AgainInv, FailedReturns
<1>2. AgainIsNotified'
  BY Zenon DEF AgainInv, AgainIsNotified
<1>. QED  BY <1>1, <1>2, Zenon DEF AgainInv

\* Every way out of qrtr_tx_wait: EPIPE, EAGAIN with the sender in
\* flow->waiters, a signal, or on to the transport.
LEMMA WaitKeepsAgain ==
  ASSUME TypeOK, AgainInv, NEW s \in Senders, pc[s] \in {"idle", "wait"},
         \/ TxDecide(s) \/ TxAgain(s) \/ TxBlock(s)
         \/ Signal(s)
         \/ pc[s] = "wait" /\ pc' = pc /\ ret' = ret /\ waiters' = waiters,
         inbox \ {s} \subseteq inbox'
  PROVE  AgainInv'
<1>1. /\ \A d \in Senders \ {s} : pc'[d] = pc[d] /\ ret'[d] = ret[d]
      /\ waiters \subseteq waiters'
  BY Zenon
     DEF TxDecide, TxAgain, TxBlock, Signal, Return, Proceed, flow, TypeOK
<1>2. pc'[s] # "failed"
  BY Zenon DEF TxDecide, TxAgain, TxBlock, Signal, Return, Proceed, TypeOK
<1>3. pc'[s] = "idle" /\ ret'[s] = "EAGAIN" => s \in waiters'
  BY Zenon DEF TxDecide, TxAgain, TxBlock, Signal, Return, Proceed, TypeOK
<1>. QED  BY <1>1, <1>2, <1>3, OneSenderKeepsAgain, Zenon

\* No step forgets a sender that was told to come back.
LEMMA NextKeepsAgain == TypeOK /\ AgainInv /\ [Next]_vars => AgainInv'
<1> SUFFICES ASSUME TypeOK, AgainInv, [Next]_vars PROVE AgainInv'
  BY Zenon
<1>1. ASSUME NEW s \in Senders, NEW b \in BOOLEAN, Sendmsg(s, b)
      PROVE  AgainInv'
  <2>1. /\ pc[s] \in {"idle", "wait"} /\ inbox \ {s} \subseteq inbox'
        /\ TxDecide(s) \/ TxAgain(s) \/ TxBlock(s)
    BY <1>1, Zenon DEF Sendmsg
  <2>. QED  BY <2>1, WaitKeepsAgain, Zenon
<1>2. ASSUME NEW s \in Senders, Wake(s) \/ Timeout(s) \/ Sleep(s) \/ Signal(s)
      PROVE  AgainInv'
  <2>1. /\ pc[s] = "wait" /\ inbox' = inbox
        /\ \/ TxDecide(s) \/ TxAgain(s) \/ Signal(s)
           \/ pc' = pc /\ ret' = ret /\ waiters' = waiters
    BY <1>2, Zenon DEF Wake, Timeout, Sleep, Signal, net, flow
  <2>2. pc[s] \in {"idle", "wait"} /\ inbox \ {s} \subseteq inbox'
    BY <2>1, Zenon
  <2>3. \/ TxDecide(s) \/ TxAgain(s) \/ TxBlock(s)
        \/ Signal(s)
        \/ pc[s] = "wait" /\ pc' = pc /\ ret' = ret /\ waiters' = waiters
    BY <2>1, Zenon
  <2>. QED  BY <2>2, <2>3, WaitKeepsAgain, Zenon
<1>3. ASSUME NEW s \in Senders, Xmit(s) \/ XmitFail(s) \/ FlowFailed(s)
      PROVE  AgainInv'
  <2>1. /\ \A d \in Senders \ {s} : pc'[d] = pc[d] /\ ret'[d] = ret[d]
        /\ waiters' = waiters /\ inbox' = inbox
    BY <1>3, Zenon DEF Xmit, XmitFail, FlowFailed, Return, flow, net, TypeOK
  <2>2. pc'[s] = "failed" => ret'[s] = "ENODEV"
    BY <1>3, Zenon DEF Xmit, XmitFail, FlowFailed, Return, TypeOK
  <2>3. ret'[s] # "EAGAIN"
    <3>1. CASE Xmit(s) \/ XmitFail(s)
      BY <3>1, Zenon DEF Xmit, XmitFail, Return, TypeOK
    <3>2. CASE FlowFailed(s)
      BY <3>2, Zenon DEF FlowFailed, AgainInv, FailedReturns
    <3>. QED  BY <1>3, <3>1, <3>2, Zenon
  <2>. QED  BY <2>1, <2>2, <2>3, OneSenderKeepsAgain, Zenon
<1>4. CASE Receiver \/ qrtr_endpoint_unregister \/ UNCHANGED vars
  <2>1. UNCHANGED <<pc, ret, waiters, inbox>>
    BY <1>4, Zenon DEF Receiver, Post, PostDrop, Recvmsg,
       qrtr_endpoint_unregister, flow, sender, net, vars
  <2>. QED  BY <2>1, Zenon DEF AgainInv, FailedReturns, AgainIsNotified
<1>5. CASE qrtr_tx_resume
  <2>1. UNCHANGED <<pc, ret>> /\ inbox' = inbox \cup waiters
    BY <1>5, Zenon DEF qrtr_tx_resume
  <2>. QED  BY <2>1, Zenon DEF AgainInv, FailedReturns, AgainIsNotified
<1>. QED  BY <1>1, <1>2, <1>3, <1>4, <1>5, Zenon DEF Next, SenderStep

\* A sender that got -EAGAIN is in flow->waiters until RESUME_TX has been put
\* into its receive queue (qrtr_tx_wait, qrtr_tx_resume).
THEOREM AgainNotified == Spec => []AgainIsNotified
<1>1. Init => AgainInv
  BY Zenon DEF Init, AgainInv, FailedReturns, AgainIsNotified
<1>2. AgainInv => AgainIsNotified
  BY Zenon DEF AgainInv
<1>. QED  BY <1>1, <1>2, NextKeepsAgain, TypeCorrect, PTL DEF Spec

-----------------------------------------------------------------------------
(***************************************************************************)
(* What keeps UnreadBounded.  Leaving are the senders with a packet that   *)
(* is counted and not transmitted.  Whatever was sent behind the confirmed *)
(* packet was counted after it, or was delayed with one of the other       *)
(* senders when it was sent (Behind).  So when RESUME_TX resets the        *)
(* counter no more than that is left of the round, and to it the next      *)
(* round adds what it counts (InAll).  A confirmation that failed will be  *)
(* transmitted once more without being counted (Again).                    *)
(***************************************************************************)
Leaving == {s \in Senders : pc[s] = "xmit"}
Spare == Cardinality(Senders) - 1 - Cardinality(Leaving)
Failed == tx_failed \/ \E s \in Senders : pc[s] = "failed"
Again == IF Failed THEN 1 ELSE 0
Extra == pending - QRTR_TX_FLOW_LOW + Spare

Behind ==
    /\ \A i \in Confirms(chan) : Len(chan) - i <= Extra
    /\ \A i \in Confirms(rxq) : Len(rxq) - i + Len(chan) <= Extra
    /\ resume > 0 => Len(chan) + Len(rxq) <= Extra

InAll == Len(chan) + Len(rxq) + Again <= QRTR_TX_FLOW_HIGH + Extra

CountInv == Behind /\ InAll

\* The numbers are integers, and the queues have lengths.
LEMMA CountTypes ==
  ASSUME TypeOK
  PROVE  /\ IsFiniteSet(Leaving) /\ Cardinality(Leaving) \in Nat
         /\ Cardinality(Senders) \in Nat /\ Cardinality(Senders) > 0
         /\ Spare \in Int /\ Extra \in Int /\ Again \in 0 .. 1
         /\ Len(chan) \in Nat /\ Len(rxq) \in Nat /\ pending \in Nat
<1>1. IsFiniteSet(Leaving)
  <2>1. Leaving \in SUBSET Senders
    BY Zenon DEF Leaving
  <2>. QED  BY <2>1, SendsAssumption, FS_Subset, Zenon
<1>2. Cardinality(Leaving) \in Nat /\ Cardinality(Senders) \in Nat
  BY <1>1, SendsAssumption, FS_CardinalityType, Zenon
<1>3. Cardinality(Senders) # 0
  BY SendsAssumption, FS_EmptySet, Zenon
<1>4. pending \in Nat /\ Len(chan) \in Nat /\ Len(rxq) \in Nat
  BY FlowAssumption DEF TypeOK
<1>5. Spare \in Int
  BY <1>2 DEF Spare
<1>. QED  BY <1>1, <1>2, <1>3, <1>4, <1>5, FlowAssumption DEF Extra, Again

\* So they are after a step.
LEMMA CountTypesNext ==
  ASSUME TypeOK'
  PROVE  Spare' \in Int /\ Extra' \in Int /\ Again' \in 0 .. 1
<1>1. Leaving' \in SUBSET Senders
  BY Zenon DEF Leaving
<1>2. IsFiniteSet(Leaving')
  BY <1>1, SendsAssumption, FS_Subset, Zenon
<1>3. Cardinality(Leaving') \in Nat /\ Cardinality(Senders) \in Nat
  BY <1>2, SendsAssumption, FS_CardinalityType, Zenon
<1>4. pending' \in Int
  BY FlowAssumption DEF TypeOK
<1>5. Spare' \in Int
  BY <1>3 DEF Spare
<1>. QED  BY <1>4, <1>5, FlowAssumption DEF Extra, Again

\* A sender goes on to transmit ...
LEMMA OneMoreLeaves ==
  ASSUME TypeOK, NEW s \in Senders, pc[s] # "xmit",
         pc' = [pc EXCEPT ![s] = "xmit"]
  PROVE  Spare' = Spare - 1
<1>1. Leaving' = Leaving \cup {s} /\ s \notin Leaving
  BY Zenon DEF Leaving, TypeOK
<1>2. Cardinality(Leaving') = Cardinality(Leaving) + 1
  BY <1>1, CountTypes, FS_AddElement, Zenon
<1>. QED  BY <1>2, CountTypes DEF Spare

\* ... or has done so, and then at most the others are on their way.
LEMMA OneLessLeaves ==
  ASSUME TypeOK, NEW s \in Senders, pc[s] = "xmit", NEW w, w # "xmit",
         pc' = [pc EXCEPT ![s] = w]
  PROVE  Spare' = Spare + 1 /\ Spare' >= 0
<1>1. Leaving' = Leaving \ {s} /\ s \in Leaving
  BY Zenon DEF Leaving, TypeOK
<1>2. Cardinality(Leaving') = Cardinality(Leaving) - 1
  BY <1>1, CountTypes, FS_RemoveElement, Zenon
<1>3. Leaving \in SUBSET Senders
  BY Zenon DEF Leaving
<1>4. Cardinality(Leaving) <= Cardinality(Senders)
  BY <1>3, SendsAssumption, FS_Subset, Zenon
<1>. QED  BY <1>2, <1>4, CountTypes DEF Spare

\* A step that sends and receives nothing and counts nothing, and after which
\* at most the same packets will be transmitted.
LEMMA CountStays ==
  ASSUME TypeOK, TypeOK', CountInv, UNCHANGED <<chan, rxq, resume>>,
         Extra' >= Extra, Again' - Extra' <= Again - Extra
  PROVE  CountInv'
<1>1. /\ Extra \in Int /\ Extra' \in Int /\ Again \in Int /\ Again' \in Int
      /\ Len(chan) \in Nat /\ Len(rxq) \in Nat
      /\ QRTR_TX_FLOW_HIGH \in Nat
  BY CountTypes, CountTypesNext, FlowAssumption
<1>2. Confirms(chan)' = Confirms(chan) /\ Confirms(rxq)' = Confirms(rxq)
  BY Zenon DEF Confirms
<1>3. \A i \in Confirms(chan) \cup Confirms(rxq) : i \in Int
  BY DEF Confirms, TypeOK
<1>4. Behind'
  BY <1>1, <1>2, <1>3 DEF CountInv, Behind
<1>5. InAll'
  <2>1. Len(chan) + Len(rxq) + Again <= QRTR_TX_FLOW_HIGH + Extra
    BY Zenon DEF CountInv, InAll
  <2>2. Len(chan) + Len(rxq) + Again' <= QRTR_TX_FLOW_HIGH + Extra'
    <3>1. \A a, b, g, h, x, y, z \in Int :
             a + b + g <= h + x /\ z - y <= g - x => a + b + z <= h + y
      OBVIOUS
    <3>2. /\ Len(chan) \in Int /\ Len(rxq) \in Int /\ QRTR_TX_FLOW_HIGH \in Int
      BY <1>1
    <3>. QED  BY <1>1, <2>1, <3>1, <3>2, Zenon
  <2>. QED  BY <2>2, Zenon DEF InAll
<1>. QED  BY <1>4, <1>5, Zenon DEF CountInv

\* The case in which the numbers stay.
LEMMA CountSame ==
  ASSUME TypeOK, TypeOK', Extra' = Extra, Again' = Again
  PROVE  Extra' >= Extra /\ Again' - Extra' <= Again - Extra
<1>1. Extra \in Int /\ Again \in Int
  BY CountTypes
<1>. QED  BY <1>1

\* Nobody starts or ends a transmission, and the counter stays.
LEMMA NobodyLeaves ==
  ASSUME UNCHANGED <<pending, tx_failed>>,
         \A s \in Senders : /\ pc'[s] = "xmit" <=> pc[s] = "xmit"
                            /\ pc'[s] = "failed" <=> pc[s] = "failed"
  PROVE  Extra' = Extra /\ Again' = Again
<1>1. Leaving' = Leaving
  BY Zenon DEF Leaving
<1>2. Failed' <=> Failed
  BY Zenon DEF Failed
<1>. QED  BY <1>1, <1>2, Zenon DEF Extra, Spare, Again

\* While a confirmation is somewhere else none has failed.
LEMMA NoneFailed ==
  ASSUME Inv, Confirms(chan) # {} \/ Confirms(rxq) # {} \/ resume > 0
  PROVE  ~Failed
<1>1. Confirming = {} /\ ~tx_failed
  <2>1. resume \in Nat
    BY Zenon DEF Inv, TypeOK
  <2>2. resume > 0 => resume # 0
    BY <2>1
  <2>. QED  BY <2>2, Zenon DEF Inv, AtMostOne
<1>. QED  BY <1>1, Zenon DEF Inv, FailedConfirms, Confirming, Failed

\* A sender that is not transmitting decides.
LEMMA DecideCounts ==
  ASSUME Inv, TypeOK', CountInv, NEW s \in Senders, pc[s] \in {"idle", "wait"},
         TxDecide(s), UNCHANGED <<chan, rxq, resume>>
  PROVE  CountInv'
<1> USE DEF Inv
<1>0. pc[s] # "xmit" /\ pc[s] # "failed" /\ TypeOK
  BY Zenon
<1>n. /\ Extra \in Int /\ Extra' \in Int /\ Spare \in Int /\ Spare' \in Int
      /\ pending \in Int /\ QRTR_TX_FLOW_LOW \in Int /\ QRTR_TX_FLOW_HIGH \in Int
      /\ Len(chan) \in Int /\ Len(rxq) \in Int
  <2>1. \A n \in Nat : n \in Int
    OBVIOUS
  <2>. QED  BY <1>0, <2>1, CountTypes, CountTypesNext, FlowAssumption, Zenon
<1>1. CASE ~ep
  <2>1. /\ pc' = [pc EXCEPT ![s] = "idle"] /\ UNCHANGED <<pending, tx_failed>>
    BY <1>1, Zenon DEF TxDecide, Return
  <2>2. Extra' = Extra /\ Again' = Again
    BY <1>0, <2>1, NobodyLeaves, Zenon DEF TypeOK
  <2>. QED  BY <1>0, <2>2, CountStays, CountSame, Zenon
<1>2. CASE ep /\ tx_failed
  <2>1. /\ pc' = [pc EXCEPT ![s] = "xmit"] /\ ~tx_failed' /\ pending' = pending
    BY <1>2, Zenon DEF TxDecide, Proceed
  <2>2. Spare' = Spare - 1
    BY <1>0, <2>1, OneMoreLeaves, Zenon
  <2>3. Again = 1
    BY <1>2, Zenon DEF Again, Failed
  <2>4. /\ Confirms(chan) = {} /\ Confirms(rxq) = {} /\ Confirming = {}
        /\ ~(resume > 0)
    BY <1>2, Zenon DEF AtMostOne
  <2>5. Again' = 0
    <3>1. \A d \in Senders : pc[d] # "failed"
      BY <2>4, Zenon DEF FailedConfirms, Confirming
    <3>2. \A d \in Senders : pc'[d] # "failed"
      BY <1>0, <2>1, <3>1, Zenon DEF TypeOK
    <3>. QED  BY <2>1, <3>2, Zenon DEF Again, Failed
  <2>6. Behind'
    BY <2>4, Zenon DEF Behind, Confirms
  <2>7. InAll'
    <3>1. \A p, l, h, a, b, x, y \in Int :
             /\ y = x - 1
             /\ a + b + 1 <= h + (p - l + x)
             => a + b + 0 <= h + (p - l + y)
      OBVIOUS
    <3>2. Len(chan) + Len(rxq) + 1
             <= QRTR_TX_FLOW_HIGH + (pending - QRTR_TX_FLOW_LOW + Spare)
      BY <2>3, Zenon DEF CountInv, InAll, Extra
    <3>3. Len(chan) + Len(rxq) + 0
             <= QRTR_TX_FLOW_HIGH + (pending - QRTR_TX_FLOW_LOW + Spare')
      BY <1>n, <2>2, <3>1, <3>2, Zenon
    <3>. QED  BY <2>1, <2>5, <3>3, Zenon DEF InAll, Extra
  <2>. QED  BY <2>6, <2>7, Zenon DEF CountInv
<1>3. CASE ep /\ ~tx_failed
  <2>1. /\ pc' = [pc EXCEPT ![s] = "xmit"] /\ tx_failed' = tx_failed
        /\ pending' = pending + 1
    BY <1>3, Zenon DEF TxDecide, Proceed
  <2>2. Spare' = Spare - 1
    BY <1>0, <2>1, OneMoreLeaves, Zenon
  <2>3. Again' = Again
    <3>1. \A d \in Senders : pc'[d] = "failed" <=> pc[d] = "failed"
      BY <1>0, <2>1, Zenon DEF TypeOK
    <3>2. Failed' <=> Failed
      BY <2>1, <3>1, Zenon DEF Failed
    <3>. QED  BY <3>2, Zenon DEF Again
  <2>4. Extra' = Extra
    <3>1. /\ Spare \in Int /\ Spare' \in Int /\ pending \in Int
          /\ QRTR_TX_FLOW_LOW \in Int
      BY <1>n, Zenon
    <3>. QED  BY <2>1, <2>2, <3>1 DEF Extra
  <2>. QED  BY <1>0, <2>3, <2>4, CountStays, CountSame, Zenon
<1>. QED  BY <1>1, <1>2, <1>3, Zenon

\* What the inductive invariant says of the numbers, as integers.
LEMMA CountInts ==
  ASSUME TypeOK, TypeOK'
  PROVE  /\ Extra \in Int /\ Extra' \in Int /\ Spare \in Int /\ Spare' \in Int
         /\ Again \in Int /\ Again' \in Int
         /\ pending \in Int /\ QRTR_TX_FLOW_LOW \in Int /\ QRTR_TX_FLOW_HIGH \in Int
         /\ Len(chan) \in Int /\ Len(rxq) \in Int
         /\ \A i \in Confirms(chan) \cup Confirms(rxq) : i \in Int
<1>1. \A n \in Nat : n \in Int
  OBVIOUS
<1>2. \A n \in 0 .. 1 : n \in Int
  OBVIOUS
<1>3. \A i \in Confirms(chan) \cup Confirms(rxq) : i \in Int
  BY DEF Confirms, TypeOK
<1>. QED  BY <1>1, <1>2, <1>3, CountTypes, CountTypesNext, FlowAssumption,
             Zenon

\* A transmission.  A packet with confirm_rx has none behind it, and the low
\* watermark has been reached.
LEMMA XmitCounts ==
  ASSUME Inv, TypeOK', CountInv, NEW s \in Senders, Xmit(s)
  PROVE  CountInv'
<1> USE DEF Inv
<1>0. pc[s] = "xmit" /\ TypeOK /\ confirm_rx[s] \in BOOLEAN /\ chan \in Seq(BOOLEAN)
  BY Zenon DEF Xmit, TypeOK
<1>1. /\ pc' = [pc EXCEPT ![s] = "idle"] /\ chan' = Append(chan, confirm_rx[s])
      /\ UNCHANGED <<pending, tx_failed, rxq, resume>>
  BY Zenon DEF Xmit, Return, flow
<1>2. Spare' = Spare + 1 /\ Spare' >= 0
  BY <1>0, <1>1, OneLessLeaves, Zenon
<1>3. Again' = Again
  <2>1. \A d \in Senders : pc'[d] = "failed" <=> pc[d] = "failed"
    BY <1>0, <1>1, Zenon DEF TypeOK
  <2>2. Failed' <=> Failed
    BY <1>1, <2>1, Zenon DEF Failed
  <2>. QED  BY <2>2, Zenon DEF Again
<1>4. Extra' = Extra + 1
  <2>1. /\ Spare \in Int /\ Spare' \in Int /\ pending \in Int
        /\ QRTR_TX_FLOW_LOW \in Int
    BY <1>0, CountInts, Zenon
  <2>. QED  BY <1>1, <1>2, <2>1 DEF Extra
<1>5. Len(chan') = Len(chan) + 1
  BY <1>0, <1>1
<1>6. \A i \in Confirms(chan') :
         i \in Confirms(chan) \/ (confirm_rx[s] /\ i = Len(chan) + 1)
  BY <1>0, <1>1, AppendConfirms, Zenon
<1>7. confirm_rx[s] => 0 <= Extra'
  <2>1. confirm_rx[s] => pending >= QRTR_TX_FLOW_LOW
    BY <1>0, Zenon DEF Some, Confirming
  <2>2. \A p, l, y \in Int : p >= l /\ y >= 0 => 0 <= p - l + y
    OBVIOUS
  <2>. QED  BY <1>0, <1>1, <1>2, <2>1, <2>2, CountInts, Zenon DEF Extra
<1>8. Behind'
  <2>1. ASSUME NEW i \in Confirms(chan') PROVE Len(chan') - i <= Extra'
    <3>1. CASE i \in Confirms(chan)
      <4>1. \A n, j, x \in Int : n - j <= x => (n + 1) - j <= x + 1
        OBVIOUS
      <4>2. Len(chan) - i <= Extra
        BY <3>1, Zenon DEF CountInv, Behind
      <4>3. i \in Int /\ Len(chan) \in Int /\ Extra \in Int
        BY <1>0, <3>1, CountInts, Zenon
      <4>. QED  BY <1>4, <1>5, <4>1, <4>2, <4>3, Zenon
    <3>2. CASE confirm_rx[s] /\ i = Len(chan) + 1
      <4>1. \A n \in Int : (n + 1) - (n + 1) = 0
        OBVIOUS
      <4>. QED  BY <1>0, <1>5, <1>7, <3>2, <4>1, CountInts, Zenon
    <3>. QED  BY <1>6, <3>1, <3>2, Zenon
  <2>2. ASSUME NEW i \in Confirms(rxq)
        PROVE  Len(rxq) - i + Len(chan') <= Extra'
    <3>1. \A m, j, n, x \in Int : m - j + n <= x => m - j + (n + 1) <= x + 1
      OBVIOUS
    <3>2. Len(rxq) - i + Len(chan) <= Extra
      BY Zenon DEF CountInv, Behind
    <3>3. i \in Int /\ Len(chan) \in Int /\ Len(rxq) \in Int /\ Extra \in Int
      BY <1>0, CountInts, Zenon
    <3>. QED  BY <1>4, <1>5, <3>1, <3>2, <3>3, Zenon
  <2>3. ASSUME resume > 0 PROVE Len(chan') + Len(rxq) <= Extra'
    <3>1. \A m, n, x \in Int : n + m <= x => (n + 1) + m <= x + 1
      OBVIOUS
    <3>2. Len(chan) + Len(rxq) <= Extra
      BY <2>3, Zenon DEF CountInv, Behind
    <3>. QED  BY <1>0, <1>4, <1>5, <3>1, <3>2, CountInts, Zenon
  <2>. QED  BY <1>1, <2>1, <2>2, <2>3, Zenon DEF Behind, Confirms
<1>9. InAll'
  <2>1. \A m, n, a, h, x \in Int :
           n + m + a <= h + x => (n + 1) + m + a <= h + (x + 1)
    OBVIOUS
  <2>2. Len(chan) + Len(rxq) + Again <= QRTR_TX_FLOW_HIGH + Extra
    BY Zenon DEF CountInv, InAll
  <2>3. Len(chan') + Len(rxq) + Again <= QRTR_TX_FLOW_HIGH + Extra'
    BY <1>0, <1>4, <1>5, <2>1, <2>2, CountInts, Zenon
  <2>. QED  BY <1>1, <1>3, <2>3, Zenon DEF InAll
<1>. QED  BY <1>8, <1>9, Zenon DEF CountInv

\* A transmission that failed: one more may come, without being counted.
LEMMA XmitFailCounts ==
  ASSUME Inv, TypeOK', CountInv, NEW s \in Senders, XmitFail(s)
  PROVE  CountInv'
<1> USE DEF Inv
<1>0. pc[s] = "xmit" /\ TypeOK
  BY Zenon DEF XmitFail
<1>1. UNCHANGED <<pending, tx_failed, chan, rxq, resume>>
  BY Zenon DEF XmitFail, flow, net
<1>2. PICK w \in {"failed", "idle"} : pc' = [pc EXCEPT ![s] = w]
  BY Zenon DEF XmitFail
<1>3. w # "xmit"
  BY <1>2, Zenon
<1>4. Spare' = Spare + 1
  BY <1>0, <1>2, <1>3, OneLessLeaves, Zenon
<1>5. Extra' = Extra + 1
  <2>1. /\ Spare \in Int /\ Spare' \in Int /\ pending \in Int
        /\ QRTR_TX_FLOW_LOW \in Int
    BY <1>0, CountInts, Zenon
  <2>. QED  BY <1>1, <1>4, <2>1 DEF Extra
<1>6. Extra' >= Extra /\ Again' - Extra' <= Again - Extra
  <2>1. \A a, b \in 0 .. 1 : \A x, y \in Int :
           y = x + 1 => y >= x /\ a - y <= b - x
    OBVIOUS
  <2>2. Again \in 0 .. 1 /\ Again' \in 0 .. 1 /\ Extra \in Int /\ Extra' \in Int
    BY <1>0, CountTypes, CountTypesNext, Zenon
  <2>. QED  BY <1>5, <2>1, <2>2, Zenon
<1>. QED  BY <1>0, <1>1, <1>6, CountStays, Zenon

\* qrtr_tx_flow_failed: the confirmation is left to the next sender.
LEMMA FlowFailedCounts ==
  ASSUME Inv, TypeOK', CountInv, NEW s \in Senders, FlowFailed(s)
  PROVE  CountInv'
<1> USE DEF Inv
<1>0. pc[s] = "failed" /\ TypeOK
  BY Zenon DEF FlowFailed
<1>1. /\ pc' = [pc EXCEPT ![s] = "idle"] /\ tx_failed'
      /\ UNCHANGED <<pending, chan, rxq, resume>>
  BY Zenon DEF FlowFailed, net
<1>2. Leaving' = Leaving
  <2>1. \A d \in Senders : pc'[d] = "xmit" <=> pc[d] = "xmit"
    BY <1>0, <1>1, Zenon DEF TypeOK
  <2>. QED  BY <2>1, Zenon DEF Leaving
<1>3. Failed /\ Failed'
  BY <1>0, <1>1, Zenon DEF Failed
<1>4. Extra' = Extra
  BY <1>1, <1>2, Zenon DEF Extra, Spare
<1>5. Again' = Again
  BY <1>3, Zenon DEF Again
<1>. QED  BY <1>0, <1>1, <1>4, <1>5, CountSame, CountStays, Zenon

\* The first packet leaves the transport or a socket's queue.
LEMMA TailBehind ==
  ASSUME NEW q \in Seq(BOOLEAN), q # <<>>, NEW m \in Int, NEW x \in Int,
         \A i \in Confirms(q) : Len(q) - i + m <= x
  PROVE  /\ Len(Tail(q)) = Len(q) - 1
         /\ \A i \in Confirms(Tail(q)) : Len(Tail(q)) - i + m <= x
         /\ Head(q) => Len(Tail(q)) + m <= x
<1>1. Len(Tail(q)) = Len(q) - 1 /\ Len(q) \in Int
  OBVIOUS
<1>2. ASSUME NEW i \in Confirms(Tail(q)) PROVE Len(Tail(q)) - i + m <= x
  <2>1. i \in Nat /\ i + 1 \in Confirms(q)
    BY TailConfirms, Zenon
  <2>2. Len(q) - (i + 1) + m <= x
    BY <2>1, Zenon
  <2>. QED  BY <1>1, <2>1, <2>2
<1>3. ASSUME Head(q) PROVE Len(Tail(q)) + m <= x
  <2>1. 1 \in Confirms(q)
    BY <1>3, TailConfirms, Zenon
  <2>2. Len(q) - 1 + m <= x
    BY <2>1, Zenon
  <2>. QED  BY <1>1, <2>2, Zenon
<1>. QED  BY <1>1, <1>2, <1>3, Zenon

\* What the receiver leaves alone.
LEMMA ReceiverCounts ==
  ASSUME UNCHANGED <<flow, sender>>
  PROVE  Extra' = Extra /\ Again' = Again
BY NobodyLeaves, Zenon DEF flow, sender

\* A packet arrives in the receiver's queue ...
LEMMA PostCounts ==
  ASSUME Inv, TypeOK', CountInv, Post
  PROVE  CountInv'
<1> USE DEF Inv
<1>0. TypeOK /\ chan \in Seq(BOOLEAN) /\ rxq \in Seq(BOOLEAN) /\ chan # <<>>
  BY Zenon DEF Post, TypeOK
<1>1. /\ rxq' = Append(rxq, Head(chan)) /\ chan' = Tail(chan) /\ resume' = resume
      /\ Extra' = Extra /\ Again' = Again
  BY ReceiverCounts, Zenon DEF Post
<1>2. /\ Len(chan) \in Int /\ Len(rxq) \in Int /\ Extra \in Int /\ Again \in Int
      /\ \A i \in Confirms(chan) \cup Confirms(rxq) : i \in Int
  BY <1>0, CountInts, Zenon
<1>3. /\ Len(chan') = Len(chan) - 1 /\ Len(rxq') = Len(rxq) + 1
  BY <1>0, <1>1
<1>4. \A i \in Confirms(chan) : Len(chan) - i + 0 <= Extra
  <2>1. \A i \in Confirms(chan) : Len(chan) - i <= Extra
    BY Zenon DEF CountInv, Behind
  <2>. QED  BY <1>2, <2>1
<1>5. /\ \A i \in Confirms(chan') : Len(chan') - i + 0 <= Extra
      /\ Head(chan) => Len(chan') + 0 <= Extra
  <2>1. 0 \in Int
    OBVIOUS
  <2>. QED  BY <1>0, <1>1, <1>2, <1>4, <2>1, TailBehind, Zenon
<1>6. ASSUME NEW i \in Confirms(chan') PROVE Len(chan') - i <= Extra
  <2>1. i \in Nat /\ Len(chan') - i + 0 <= Extra
    BY <1>0, <1>1, <1>5, TailConfirms, Zenon
  <2>. QED  BY <1>2, <1>3, <2>1
<1>7. ASSUME NEW i \in Confirms(rxq') PROVE Len(rxq') - i + Len(chan') <= Extra
  <2>1. Head(chan) \in BOOLEAN
    BY <1>0, TailConfirms, Zenon
  <2>2. i \in Confirms(rxq) \/ (Head(chan) /\ i = Len(rxq) + 1)
    BY <1>0, <1>1, <2>1, AppendConfirms, Zenon
  <2>3. CASE i \in Confirms(rxq)
    <3>1. Len(rxq) - i + Len(chan) <= Extra /\ i \in Int
      BY <1>2, <2>3, Zenon DEF CountInv, Behind
    <3>. QED  BY <1>2, <1>3, <3>1
  <2>4. CASE Head(chan) /\ i = Len(rxq) + 1
    <3>1. Len(chan') + 0 <= Extra
      BY <1>5, <2>4, Zenon
    <3>2. Len(chan') \in Int /\ i \in Int /\ Len(rxq') = i
      <4>1. Len(chan) - 1 \in Int /\ Len(rxq) + 1 \in Int
        BY <1>2
      <4>. QED  BY <1>3, <2>4, <4>1, Zenon
    <3>3. \A j, n, x \in Int : n + 0 <= x => j - j + n <= x
      OBVIOUS
    <3>. QED  BY <1>2, <3>1, <3>2, <3>3, Zenon
  <2>. QED  BY <2>2, <2>3, <2>4, Zenon
<1>8. Len(chan') + Len(rxq') = Len(chan) + Len(rxq)
  BY <1>2, <1>3
<1>9. Behind'
  BY <1>1, <1>6, <1>7, <1>8, Zenon DEF CountInv, Behind, Confirms
<1>10. InAll'
  BY <1>1, <1>8, Zenon DEF CountInv, InAll
<1>. QED  BY <1>9, <1>10, Zenon DEF CountInv

\* ... or is dropped ...
LEMMA PostDropCounts ==
  ASSUME Inv, TypeOK', CountInv, PostDrop
  PROVE  CountInv'
<1> USE DEF Inv
<1>0. TypeOK /\ chan \in Seq(BOOLEAN) /\ rxq \in Seq(BOOLEAN) /\ chan # <<>>
  BY Zenon DEF PostDrop, TypeOK
<1>1. /\ rxq' = rxq /\ chan' = Tail(chan) /\ resume' = resume
      /\ Extra' = Extra /\ Again' = Again
  BY ReceiverCounts, Zenon DEF PostDrop
<1>2. /\ Len(chan) \in Int /\ Len(rxq) \in Int /\ Extra \in Int /\ Again \in Int
      /\ QRTR_TX_FLOW_HIGH \in Int
      /\ \A i \in Confirms(chan) \cup Confirms(rxq) : i \in Int
  BY <1>0, CountInts, Zenon
<1>3. Len(chan') = Len(chan) - 1
  BY <1>0, <1>1
<1>4. \A i \in Confirms(chan) : Len(chan) - i + 0 <= Extra
  <2>1. \A i \in Confirms(chan) : Len(chan) - i <= Extra
    BY Zenon DEF CountInv, Behind
  <2>. QED  BY <1>2, <2>1
<1>5. \A i \in Confirms(chan') : Len(chan') - i + 0 <= Extra
  <2>1. 0 \in Int
    OBVIOUS
  <2>. QED  BY <1>0, <1>1, <1>2, <1>4, <2>1, TailBehind, Zenon
<1>6. ASSUME NEW i \in Confirms(chan') PROVE Len(chan') - i <= Extra
  <2>1. i \in Nat /\ Len(chan') - i + 0 <= Extra
    BY <1>0, <1>1, <1>5, TailConfirms, Zenon
  <2>. QED  BY <1>2, <1>3, <2>1
<1>7. ASSUME NEW i \in Confirms(rxq) PROVE Len(rxq) - i + Len(chan') <= Extra
  <2>1. Len(rxq) - i + Len(chan) <= Extra /\ i \in Int
    BY <1>2, Zenon DEF CountInv, Behind
  <2>. QED  BY <1>2, <1>3, <2>1
<1>8. ASSUME resume > 0 PROVE Len(chan') + Len(rxq) <= Extra
  <2>1. Len(chan) + Len(rxq) <= Extra
    BY <1>8, Zenon DEF CountInv, Behind
  <2>. QED  BY <1>2, <1>3, <2>1
<1>9. Behind'
  BY <1>1, <1>6, <1>7, <1>8, Zenon DEF Behind, Confirms
<1>10. InAll'
  <2>1. Len(chan) + Len(rxq) + Again <= QRTR_TX_FLOW_HIGH + Extra
    BY Zenon DEF CountInv, InAll
  <2>2. Len(chan') + Len(rxq) + Again <= QRTR_TX_FLOW_HIGH + Extra
    BY <1>2, <1>3, <2>1
  <2>. QED  BY <1>1, <2>2, Zenon DEF InAll
<1>. QED  BY <1>9, <1>10, Zenon DEF CountInv

\* ... and is read, with confirm_rx when all that is left came behind it.
LEMMA RecvmsgCounts ==
  ASSUME Inv, TypeOK', CountInv, Recvmsg
  PROVE  CountInv'
<1> USE DEF Inv
<1>0. TypeOK /\ chan \in Seq(BOOLEAN) /\ rxq \in Seq(BOOLEAN) /\ rxq # <<>>
  BY Zenon DEF Recvmsg, TypeOK
<1>1. /\ rxq' = Tail(rxq) /\ chan' = chan
      /\ resume' = resume \/ Head(rxq)
      /\ Extra' = Extra /\ Again' = Again
  BY ReceiverCounts, Zenon DEF Recvmsg
<1>2. /\ Len(chan) \in Int /\ Len(rxq) \in Int /\ Extra \in Int /\ Again \in Int
      /\ QRTR_TX_FLOW_HIGH \in Int
  BY <1>0, CountInts, Zenon
<1>3. \A i \in Confirms(rxq) : Len(rxq) - i + Len(chan) <= Extra
  BY Zenon DEF CountInv, Behind
<1>4. /\ Len(rxq') = Len(rxq) - 1
      /\ \A i \in Confirms(rxq') : Len(rxq') - i + Len(chan) <= Extra
      /\ Head(rxq) => Len(rxq') + Len(chan) <= Extra
  BY <1>0, <1>1, <1>2, <1>3, TailBehind, Zenon
<1>5. ASSUME resume' > 0 PROVE Len(chan) + Len(rxq') <= Extra
  <2>1. CASE Head(rxq)
    <3>1. Len(rxq') + Len(chan) <= Extra
      BY <1>4, <2>1, Zenon
    <3>2. \A m, n, x \in Int : m - 1 + n <= x => n + (m - 1) <= x
      OBVIOUS
    <3>. QED  BY <1>2, <1>4, <3>1, <3>2, Zenon
  <2>2. CASE resume' = resume
    <3>1. Len(chan) + Len(rxq) <= Extra
      BY <1>5, <2>2, Zenon DEF CountInv, Behind
    <3>2. \A m, n, x \in Int : n + m <= x => n + (m - 1) <= x
      OBVIOUS
    <3>. QED  BY <1>2, <1>4, <3>1, <3>2, Zenon
  <2>. QED  BY <1>1, <2>1, <2>2, Zenon
<1>6. Behind'
  <2>1. \A i \in Confirms(chan) : Len(chan) - i <= Extra
    BY Zenon DEF CountInv, Behind
  <2>. QED  BY <1>1, <1>4, <1>5, <2>1, Zenon DEF Behind, Confirms
<1>7. InAll'
  <2>1. Len(chan) + Len(rxq) + Again <= QRTR_TX_FLOW_HIGH + Extra
    BY Zenon DEF CountInv, InAll
  <2>2. Len(chan) + Len(rxq') + Again <= QRTR_TX_FLOW_HIGH + Extra
    <3>1. \A m, n, a, h, x \in Int : n + m + a <= h + x => n + (m - 1) + a <= h + x
      OBVIOUS
    <3>. QED  BY <1>2, <1>4, <2>1, <3>1, Zenon
  <2>. QED  BY <1>1, <2>2, Zenon DEF InAll
<1>. QED  BY <1>6, <1>7, Zenon DEF CountInv

\* RESUME_TX arrives.  What is unread came behind the confirmed packet, and
\* the counter starts again.
LEMMA ResumeCounts ==
  ASSUME Inv, TypeOK', CountInv, qrtr_tx_resume
  PROVE  CountInv'
<1> USE DEF Inv
<1>0. TypeOK /\ resume > 0
  BY Zenon DEF qrtr_tx_resume
<1>1. /\ resume' = resume - 1 /\ pending' = 0
      /\ UNCHANGED <<tx_failed, pc, chan, rxq>>
  BY Zenon DEF qrtr_tx_resume
<1>2. Confirms(chan) = {} /\ Confirms(rxq) = {} /\ ~(resume' > 0)
  <2>1. resume \in Nat /\ resume <= 1
    BY Zenon DEF TypeOK, AtMostOne
  <2>2. resume # 0 /\ ~(resume - 1 > 0)
    BY <1>0, <2>1
  <2>. QED  BY <1>1, <2>2, Zenon DEF AtMostOne
<1>3. Again' = 0
  <2>1. ~Failed
    BY <1>0, NoneFailed, Zenon
  <2>. QED  BY <1>1, <2>1, Zenon DEF Again, Failed
<1>4. Spare' = Spare
  BY <1>1, Zenon DEF Spare, Leaving
<1>5. Len(chan) + Len(rxq) <= pending - QRTR_TX_FLOW_LOW + Spare
  BY <1>0, Zenon DEF CountInv, Behind, Extra
<1>6. Len(chan) + Len(rxq) + 0
         <= QRTR_TX_FLOW_HIGH + (0 - QRTR_TX_FLOW_LOW + Spare)
  <2>1. pending <= QRTR_TX_FLOW_HIGH
    BY FlowAssumption DEF TypeOK
  <2>2. \A a, b, p, l, h, x \in Int :
           a + b <= p - l + x /\ p <= h => a + b + 0 <= h + (0 - l + x)
    OBVIOUS
  <2>. QED  BY <1>0, <1>5, <2>1, <2>2, CountInts, Zenon
<1>7. InAll'
  BY <1>1, <1>3, <1>4, <1>6, Zenon DEF InAll, Extra
<1>8. Behind'
  BY <1>1, <1>2, Zenon DEF Behind, Confirms
<1>. QED  BY <1>7, <1>8, Zenon DEF CountInv

\* The steps that neither transmit nor count.
LEMMA QuietCounts ==
  ASSUME Inv, TypeOK', CountInv, NEW s \in Senders,
         UNCHANGED <<pending, tx_failed, chan, rxq, resume>>,
         \/ pc' = pc
         \/ /\ pc[s] \in {"idle", "wait"}
            /\ \/ pc' = [pc EXCEPT ![s] = "idle"]
               \/ pc' = [pc EXCEPT ![s] = "wait"]
  PROVE  CountInv'
<1>1. \A d \in Senders : /\ pc'[d] = "xmit" <=> pc[d] = "xmit"
                         /\ pc'[d] = "failed" <=> pc[d] = "failed"
  BY Zenon DEF Inv, TypeOK
<1>2. Extra' = Extra /\ Again' = Again
  BY <1>1, NobodyLeaves, Zenon
<1>. QED  BY <1>2, CountSame, CountStays, Zenon DEF Inv

\* At the start nothing is under way.
LEMMA InitCounts == Init => CountInv
<1> SUFFICES ASSUME Init PROVE CountInv
  BY Zenon
<1>1. chan = <<>> /\ rxq = <<>> /\ pending = 0 /\ ~(resume > 0)
  BY DEF Init
<1>2. Confirms(chan) = {} /\ Confirms(rxq) = {} /\ Len(chan) = 0 /\ Len(rxq) = 0
  BY <1>1 DEF Confirms
<1>3. Leaving = {} /\ Again = 0
  BY Zenon DEF Init, Leaving, Again, Failed
<1>4. Cardinality(Leaving) = 0
  BY <1>3, FS_EmptySet, Zenon
<1>5. Spare >= 0 /\ Spare \in Int
  <2>1. Cardinality(Senders) \in Nat /\ Cardinality(Senders) # 0
    BY SendsAssumption, FS_CardinalityType, FS_EmptySet, Zenon
  <2>. QED  BY <1>4, <2>1 DEF Spare
<1>6. InAll
  BY <1>1, <1>2, <1>3, <1>5, FlowAssumption DEF InAll, Extra
<1>. QED  BY <1>1, <1>2, <1>6, Zenon DEF CountInv, Behind

\* Every step keeps the counts.
LEMMA NextCounts == Inv /\ TypeOK' /\ CountInv /\ [Next]_vars => CountInv'
<1> SUFFICES ASSUME Inv, TypeOK', CountInv, [Next]_vars PROVE CountInv'
  BY Zenon
<1>1. ASSUME NEW s \in Senders, NEW b \in BOOLEAN, Sendmsg(s, b) PROVE CountInv'
  <2>1. pc[s] \in {"idle", "wait"} /\ UNCHANGED <<chan, rxq, resume>>
    BY <1>1, Zenon DEF Sendmsg
  <2>2. CASE TxDecide(s)
    BY <2>1, <2>2, DecideCounts, Zenon
  <2>3. CASE TxAgain(s)
    BY <2>1, <2>3, QuietCounts, Zenon DEF TxAgain, Return
  <2>4. CASE TxBlock(s)
    BY <2>1, <2>4, QuietCounts, Zenon DEF TxBlock, flow
  <2>. QED  BY <1>1, <2>2, <2>3, <2>4, Zenon DEF Sendmsg
<1>2. ASSUME NEW s \in Senders, Wake(s) \/ Timeout(s) PROVE CountInv'
  <2>1. pc[s] \in {"idle", "wait"} /\ UNCHANGED <<chan, rxq, resume>>
    BY <1>2, Zenon DEF Wake, Timeout, net
  <2>2. CASE TxDecide(s)
    BY <2>1, <2>2, DecideCounts, Zenon
  <2>3. CASE TxAgain(s)
    BY <2>1, <2>3, QuietCounts, Zenon DEF TxAgain, Return
  <2>. QED  BY <1>2, <2>2, <2>3, Zenon DEF Wake, Timeout
<1>3. ASSUME NEW s \in Senders, Sleep(s) \/ Signal(s) PROVE CountInv'
  <2>1. /\ UNCHANGED <<pending, tx_failed, chan, rxq, resume>>
        /\ pc[s] \in {"idle", "wait"}
        /\ pc' = pc \/ pc' = [pc EXCEPT ![s] = "idle"]
    BY <1>3, Zenon DEF Sleep, Signal, Return, flow, net
  <2>. QED  BY <2>1, QuietCounts, Zenon
<1>4. ASSUME NEW s \in Senders, Xmit(s) \/ XmitFail(s) \/ FlowFailed(s)
      PROVE  CountInv'
  BY <1>4, XmitCounts, XmitFailCounts, FlowFailedCounts, Zenon
<1>5. ASSUME Receiver PROVE CountInv'
  BY <1>5, PostCounts, PostDropCounts, RecvmsgCounts, Zenon DEF Receiver
<1>6. ASSUME qrtr_tx_resume PROVE CountInv'
  BY <1>6, ResumeCounts, Zenon
<1>7. ASSUME qrtr_endpoint_unregister \/ UNCHANGED vars PROVE CountInv'
  <2>1. PICK s \in Senders : TRUE
    BY SendsAssumption, Zenon
  <2>2. UNCHANGED <<pending, tx_failed, chan, rxq, resume, pc>>
    BY <1>7, Zenon DEF qrtr_endpoint_unregister, vars, flow, net
  <2>. QED  BY <2>1, <2>2, QuietCounts, Zenon
<1>. QED  BY <1>1, <1>2, <1>3, <1>4, <1>5, <1>6, <1>7, Zenon
            DEF Next, SenderStep

\* The packets the receiving side has to buffer are bounded by the watermarks
\* and the number of senders, whatever is lost and however the senders
\* interleave between qrtr_tx_wait and the transport.
THEOREM UnreadIsBounded == Spec => []UnreadBounded
<1>1. TypeOK /\ CountInv => UnreadBounded
  <2> SUFFICES ASSUME TypeOK, CountInv PROVE UnreadBounded
    BY Zenon
  <2>1. /\ Cardinality(Leaving) \in Nat /\ Cardinality(Senders) \in Nat
        /\ Again \in 0 .. 1 /\ Len(chan) \in Nat /\ Len(rxq) \in Nat
        /\ pending \in 0 .. QRTR_TX_FLOW_HIGH
    BY CountTypes, Zenon DEF TypeOK
  <2>2. \A a, b, k, c \in Nat : \A g \in 0 .. 1 : \A h, l \in Nat :
           \A p \in 0 .. h :
             a + b + g <= h + (p - l + (c - 1 - k)) => a + b <= 2 * h - l + c - 1
    OBVIOUS
  <2>3. Len(chan) + Len(rxq) + Again
          <= QRTR_TX_FLOW_HIGH
               + (pending - QRTR_TX_FLOW_LOW
                    + (Cardinality(Senders) - 1 - Cardinality(Leaving)))
    BY Zenon DEF CountInv, InAll, Extra, Spare
  <2>4. QRTR_TX_FLOW_HIGH \in Nat /\ QRTR_TX_FLOW_LOW \in Nat
    BY FlowAssumption, Zenon
  <2>. QED  BY <2>1, <2>2, <2>3, <2>4, Zenon DEF UnreadBounded
<1>2. Inv => TypeOK
  BY Zenon DEF Inv
<1>. QED
  BY <1>1, <1>2, InitInv, NextKeepsInv, InitCounts, NextCounts, PTL DEF Spec
=============================================================================
