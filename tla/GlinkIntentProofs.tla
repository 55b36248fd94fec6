-------------------------- MODULE GlinkIntentProofs --------------------------
(***************************************************************************)
(* The proof that GlinkIntent keeps its invariant: the steps keep the      *)
(* types, and each of them moves the intents in one of the ways that       *)
(* GlinkIntentReceiving and GlinkIntentSending are about.                  *)
(***************************************************************************)
EXTENDS GlinkIntent, GlinkIntentSending, WellFoundedInduction

\* The time a leaf may take, in seconds.
USE SMTT(20)

(***************************************************************************)
(* The scan.                                                               *)
(***************************************************************************)
\* A set of numbers has a least one.
LEMMA LeastNat ==
    ASSUME NEW S \in SUBSET Nat, S # {}
    PROVE  \E x \in S : \A y \in S : x <= y
<1>1. PICK x \in S : \A y \in S : ~(<<y, x>> \in OpToRel(<, Nat))
  BY NatLessThanWellFounded, WFMin, Zenon
<1>2. \A y \in S : x <= y
  <2>1. OpToRel(<, Nat) = {ss \in Nat \X Nat : ss[1] < ss[2]}
    BY Zenon DEF OpToRel
  <2>2. \A y \in S : <<y, x>> \notin {ss \in Nat \X Nat : ss[1] < ss[2]}
    BY <1>1, <2>1, Zenon
  <2>3. SUFFICES ASSUME NEW y \in S, ~(x <= y)
                 PROVE  FALSE
    BY Zenon
  <2>4. x \in Nat /\ y \in Nat /\ y < x
    BY <2>3, SMT
  <2>5. <<y, x>> \in {ss \in Nat \X Nat : ss[1] < ss[2]}
    BY <2>4, SMT
  <2>. QED  BY <2>2, <2>5, Zenon
<1>. QED  BY <1>2, Zenon

\* The scan finds an intent that fits when there is one.
LEMMA BestFits ==
    ASSUME IdrTypes, NEW len, Fits(len) # {}
    PROVE  Best(len) \in Fits(len)
<1>1. \A i \in Fits(len) : i \in Nat /\ riids[i].size \in Nat
  BY DEF Fits, IdrTypes, Riid
<1> DEFINE S == {riids[i].size : i \in Fits(len)}
<1>2. PICK s \in S : \A y \in S : s <= y
  <2>1. S \in SUBSET Nat /\ S # {}
    BY <1>1, Zenon
  <2>. QED  BY <2>1, LeastNat, Zenon
<1> DEFINE I == {i \in Fits(len) : riids[i].size = s}
<1>3. PICK i \in I : \A j \in I : i <= j
  <2>1. I \in SUBSET Nat /\ I # {}
    BY <1>1, <1>2, Zenon
  <2>. QED  BY <2>1, LeastNat, Zenon
<1>4. \A j \in Fits(len) : \/ riids[i].size < riids[j].size
                           \/ riids[i].size = riids[j].size /\ i <= j
  <2>1. SUFFICES ASSUME NEW j \in Fits(len)
                 PROVE  \/ riids[i].size < riids[j].size
                        \/ riids[i].size = riids[j].size /\ i <= j
    BY Zenon
  <2>2. s <= riids[j].size /\ riids[i].size = s /\ s \in Nat
    BY <1>1, <1>2, <1>3, Zenon
  <2>3. riids[j].size = s => i <= j
    BY <1>3, Zenon
  <2>4. riids[j].size \in Nat
    BY <1>1, Zenon
  <2>. QED  BY <2>2, <2>3, <2>4
<1>5. i \in Fits(len)
  BY <1>3, Zenon
<1>. QED  BY <1>4, <1>5, Zenon DEF Best

(***************************************************************************)
(* Types are kept.                                                         *)
(***************************************************************************)
\* The values of intent_req_result.
LEMMA ResultRange == -1 \in -1 .. 1 /\ 0 \in -1 .. 1 /\ 1 \in -1 .. 1
OBVIOUS

\* The initial state is well typed.
LEMMA TypesInit == Init => Types
<1> SUFFICES ASSUME Init PROVE Types
  BY Zenon
<1>1. SendTypes
  <2>1. intent_received \in BOOLEAN /\ abort_tx \in BOOLEAN
    BY Zenon DEF Init
  <2>2. req_result \in -1 .. 1 /\ intent_timeout_count \in Nat /\ nsends \in Nat
    BY ResultRange, Zenon DEF Init
  <2>3. /\ pc \in [Threads -> ThreadPc] /\ call \in [Threads -> CallRec]
        /\ ret \in [Threads -> Codes]
    BY Zenon DEF Init, ThreadPc, CallRec, Codes
  <2>. QED  BY <2>1, <2>2, <2>3 DEF Init, SendTypes
<1>2. WireTypes
  BY DEF Init, WireTypes
<1>3. RxTypes
  <2>1. \A i \in DOMAIN BaseIntents : BaseIntents[i] \in Nat
    BY LensAssumption
  <2>2. rx_queue \in Seq(DataJob \cup AllocJob)
    <3>1. /\ DOMAIN BaseIntents = 1 .. Len(BaseIntents)
          /\ Len(BaseIntents) \in Nat
      BY LensAssumption
    <3>2. \A i \in DOMAIN BaseIntents :
             ToAllocate(BaseIntents[i], TRUE, FALSE) \in AllocJob
      BY <2>1, Zenon DEF ToAllocate, AllocJob
    <3> DEFINE q == [i \in DOMAIN BaseIntents |->
                        ToAllocate(BaseIntents[i], TRUE, FALSE)]
    <3>3. q \in [1 .. Len(BaseIntents) -> DataJob \cup AllocJob]
      BY <3>1, <3>2, Zenon
    <3>4. q \in Seq(DataJob \cup AllocJob)
      BY <3>1, <3>3, SeqDef, Zenon
    <3>. QED  BY <3>4, Zenon DEF Init
  <2>. QED  BY <2>2, Zenon DEF Init, RxTypes, RxPc
<1>4. IdrTypes
  BY DEF Init, IdrTypes
<1>. QED  BY <1>1, <1>2, <1>3, <1>4, Zenon DEF Types

(***************************************************************************)
(* What the longer actions do.                                             *)
(***************************************************************************)
\* A turn of the sending loop puts a chunk of the rest into the pipe.
LEMMA SendChunkFacts ==
    ASSUME SendTypes, NEW t \in Threads, SendChunk(t)
    PROVE  \E chunk, left \in Nat :
             /\ chunk > 0 /\ chunk + left = call[t].len - call[t].offset
             /\ ~call[t].wait => left = 0
             /\ ab' = Append(ab, [type |-> "data", iid |-> call[t].iid,
                                  n |-> call[t].n, chunk |-> chunk,
                                  left |-> left])
             /\ call' = [call EXCEPT ![t].offset = call[t].offset + chunk]
             /\ left = 0 => Return(t, "0")
             /\ left # 0 => UNCHANGED <<pc, ret>>
<1> DEFINE rest  == call[t].len - call[t].offset
           chunk == IF rest > SZ_8K /\ call[t].wait THEN SZ_8K ELSE rest
<1>1. /\ ab' = Append(ab, [type |-> "data", iid |-> call[t].iid,
                           n |-> call[t].n, chunk |-> chunk,
                           left |-> rest - chunk])
      /\ call' = [call EXCEPT ![t].offset = call[t].offset + chunk]
      /\ IF chunk = rest THEN Return(t, "0") ELSE UNCHANGED <<pc, ret>>
      /\ pc[t] = "send"
  BY Zenon DEF SendChunk
<1>2. rest \in Nat \ {0} /\ SZ_8K \in Nat \ {0}
  BY <1>1, LensAssumption DEF SendTypes, CallRec
<1>3. /\ chunk \in Nat /\ rest - chunk \in Nat /\ chunk > 0
      /\ chunk + (rest - chunk) = rest
      /\ chunk = rest <=> rest - chunk = 0
      /\ ~call[t].wait => rest - chunk = 0
  BY <1>2
<1> HIDE DEF chunk
<1>. QED  BY <1>1, <1>3, Zenon

\* So qcom_glink_rx_data drops nothing and does one of five things.
LEMMA RxDataCases ==
    ASSUME Inv, RxData
    PROVE  /\ ab # <<>> /\ Head(ab).type = "data" /\ ab' = Tail(ab)
           /\ RxOutcome(ab[1], ab[1].iid)
           /\ UNCHANGED <<senderside, next_id, work, rx_pc, rx_cur>>
<1>1. /\ ab # <<>> /\ Head(ab).type = "data" /\ ab' = Tail(ab)
      /\ UNCHANGED <<senderside, next_id, work, rx_pc, rx_cur>>
  BY Zenon DEF RxData
<1>2. Head(ab) = ab[1] /\ ~Dropped(Head(ab)) /\ ab[1] \in DataMsg
  BY <1>1, HeadHasRoom, Zenon
<1>3. \/ /\ Head(ab).left > 0 /\ liids' = FilledBy(Head(ab))
         /\ UNCHANGED <<rx_queue, ba, defer_intents, owed, delivered>>
      \/ /\ Head(ab).left = 0 /\ liids' = FilledBy(Head(ab))
         /\ QueueData(Head(ab).iid, liids[Head(ab).iid].reuse, FALSE)
         /\ UNCHANGED <<ba, defer_intents, owed, delivered>>
      \/ /\ Head(ab).left = 0
         /\ CallbackInIrq(Head(ab).iid, FilledBy(Head(ab)))
  BY <1>2, Zenon DEF RxData, FilledBy
<1>4. RxOutcome(Head(ab), Head(ab).iid)
  <2>1. ASSUME Head(ab).left > 0 PROVE Head(ab).left # 0
    BY <1>2, <2>1 DEF DataMsg
  <2>. QED  BY <1>3, <2>1, Zenon DEF RxOutcome, CallbackInIrq, QueueData
<1>. QED  BY <1>1, <1>2, <1>4

\* Steps of the sending end.
LEMMA SendTypesNext == Types /\ [Next]_vars => SendTypes' /\ nsends <= nsends'
<1> SUFFICES ASSUME Types, [Next]_vars PROVE SendTypes' /\ nsends <= nsends'
  BY Zenon
<1> USE DEF Types, SendTypes, ThreadPc, CallRec, Codes
<1>1. ASSUME NEW t \in Threads, NEW len \in Lens, NEW wait \in BOOLEAN,
             Send(t, len, wait)
      PROVE  SendTypes' /\ nsends <= nsends'
  <2>1. len \in Nat /\ len > 0
    BY LensAssumption
  <2>. QED  BY <1>1, <2>1 DEF Send, request
<1>2. ASSUME NEW t \in Threads, Scan(t) PROVE SendTypes' /\ nsends <= nsends'
  <2>1. CASE Fits(call[t].len) # {} /\ pc' = [pc EXCEPT ![t] = "send"]
             /\ call' = [call EXCEPT ![t].iid = Best(call[t].len)]
             /\ UNCHANGED ret
    <3>1. Best(call[t].len) \in Nat
      BY <2>1, BestFits DEF Fits, IdrTypes
    <3>. QED  BY <1>2, <2>1, <3>1 DEF Scan, request
  <2>2. CASE call' = call
    BY <1>2, <2>2 DEF Scan, request, Return
  <2>. QED  BY <1>2, <2>1, <2>2 DEF Scan
<1>3. ASSUME NEW t \in Threads,
             Request(t) \/ Granted(t) \/ Timeout(t) \/ SendFail(t)
      PROVE  SendTypes' /\ nsends <= nsends'
  <2>1. CASE Request(t)
    <3>1. intent_received' \in BOOLEAN /\ abort_tx' \in BOOLEAN
      BY <2>1, Zenon DEF Request
    <3>2. /\ UNCHANGED <<call, intent_timeout_count, nsends>>
          /\ req_result' = -1 /\ req_lock' \in {t, req_lock}
          /\ pc[t] = "lock"
          /\ \/ pc' = [pc EXCEPT ![t] = "wait"] /\ ret' = ret
             \/ Return(t, "EIO")
      BY <2>1, Zenon DEF Request
    <3>. QED  BY <3>1, <3>2, ResultRange DEF Return
  <2>2. CASE Granted(t)
    BY <2>2 DEF Granted, Return, request
  <2>3. CASE Timeout(t)
    BY <2>3 DEF Timeout, Return
  <2>4. CASE SendFail(t)
    BY <2>4 DEF SendFail, Return, request
  <2>. QED  BY <1>3, <2>1, <2>2, <2>3, <2>4
<1>4. ASSUME NEW t \in Threads, SendChunk(t)
      PROVE  SendTypes' /\ nsends <= nsends'
  <2>1. PICK chunk, left \in Nat :
             /\ chunk > 0 /\ chunk + left = call[t].len - call[t].offset
             /\ call' = [call EXCEPT ![t].offset = call[t].offset + chunk]
             /\ left = 0 => Return(t, "0")
             /\ left # 0 => UNCHANGED <<pc, ret>>
    BY <1>4, SendChunkFacts, Zenon
  <2>2. /\ UNCHANGED <<req_lock, req_result, intent_received, abort_tx,
                       intent_timeout_count, nsends>>
        /\ pc[t] = "send"
    BY <1>4, Zenon DEF SendChunk, request
  <2>3. call[t].offset + chunk \in Nat
        /\ (left # 0 => call[t].offset + chunk < call[t].len)
    <3>1. call[t].offset \in Nat /\ call[t].len \in Nat
      BY Zenon
    <3>. QED  BY <2>1, <3>1
  <2>4. CASE left = 0
    <3>1. pc' = [pc EXCEPT ![t] = "idle"] /\ ret' = [ret EXCEPT ![t] = "0"]
      BY <2>1, <2>4 DEF Return
    <3>. QED  BY <2>1, <2>2, <2>3, <3>1
  <2>5. CASE left # 0
    BY <2>1, <2>2, <2>3, <2>5
  <2>. QED  BY <2>4, <2>5
<1>5. CASE Abort \/ RxIntent \/ HandleRxDone \/ HandleReqAck
  <2>1. intent_received' \in BOOLEAN /\ abort_tx' \in BOOLEAN
    BY <1>5, Zenon DEF Abort, RxIntent, HandleRxDone, HandleReqAck, request
  <2>2. /\ UNCHANGED <<pc, call, ret, req_lock, nsends>>
        /\ req_result' \in {req_result, 0, 1}
        /\ intent_timeout_count' \in {intent_timeout_count, 0}
    BY <1>5, Zenon
       DEF Abort, RxIntent, HandleRxDone, HandleReqAck, sender, request
  <2>. QED  BY <2>1, <2>2, ResultRange
<1>6. CASE ReceiverIrq \/ HandleIntentReq \/ RxThread \/ Client
           \/ UNCHANGED vars
  <2>1. UNCHANGED <<pc, call, ret, req_lock, req_result, intent_received,
                    intent_timeout_count, abort_tx, nsends>>
    BY <1>6, Zenon DEF ReceiverIrq, RxDefer, RxData, HandleIntentReq, RxThread,
       TakeAlloc, Advertise, Ack, TakeData, Callback, ThreadRxDone, Client,
       ClientRxDone, senderside, sender, request, vars
  <2>. QED  BY <2>1
<1>. QED
  BY <1>1, <1>2, <1>3, <1>4, <1>5, <1>6, Zenon DEF Next, SenderStep, SenderIrq

\* Sent, queued and answered messages.
LEMMA WireTypesNext == Inv /\ [Next]_vars => WireTypes'
<1> SUFFICES ASSUME Inv, [Next]_vars PROVE WireTypes'
  BY Zenon
<1> USE DEF Inv, Types, WireTypes
<1>1. ASSUME NEW t \in Threads, SendChunk(t) PROVE WireTypes'
  <2>1. PICK chunk, left \in Nat :
           ab' = Append(ab, [type |-> "data", iid |-> call[t].iid,
                             n |-> call[t].n, chunk |-> chunk, left |-> left])
    BY <1>1, SendChunkFacts, Zenon
  <2> DEFINE m == [type |-> "data", iid |-> call[t].iid, n |-> call[t].n,
                   chunk |-> chunk, left |-> left]
  <2>2. m \in AbMsg
    BY Zenon DEF SendTypes, CallRec, AbMsg, DataMsg
  <2>3. UNCHANGED <<ba, work, nsends>> /\ pc[t] = "send"
    BY <1>1, Zenon DEF SendChunk, receiver
  <2>4. m.n \in 1 .. nsends
    <3>1. call[t].n \in Nat /\ call[t].n > 0 /\ call[t].n <= nsends
      BY <2>3, Zenon DEF SendTypes, CallRec
    <3>. QED  BY <3>1 DEF SendTypes
  <2> HIDE DEF m
  <2>5. ab' = Append(ab, m)
    BY <2>1, Zenon DEF m
  <2>. QED  BY <2>2, <2>3, <2>4, <2>5, AppendFacts
<1>2. ASSUME NEW t \in Threads, Request(t) PROVE WireTypes'
  <2> DEFINE m == [type |-> "req", size |-> call[t].len]
  <2>1. m \in AbMsg /\ m.type # "data"
    BY Zenon DEF SendTypes, CallRec, AbMsg
  <2>2. /\ ab' = ab \/ ab' = Append(ab, m)
        /\ UNCHANGED <<ba, work, nsends>>
    BY <1>2, Zenon DEF Request, receiver
  <2> HIDE DEF m
  <2>3. CASE ab' = Append(ab, m)
    BY <2>1, <2>2, <2>3, AppendFacts
  <2>. QED  BY <2>2, <2>3
<1>3. CASE RxIntent \/ HandleRxDone \/ HandleReqAck
  <2>1. ba # <<>> /\ ba' = Tail(ba) /\ UNCHANGED <<ab, work, nsends>>
    BY <1>3, Zenon DEF RxIntent, HandleRxDone, HandleReqAck, receiver
  <2>. QED  BY <2>1, TailFacts, Zenon
<1>4. CASE RxDefer
  <2>1. /\ ab # <<>> /\ ab' = Tail(ab) /\ work' = Append(work, Head(ab).size)
        /\ Head(ab).type = "req" /\ UNCHANGED <<ba, nsends>>
    BY <1>4, Zenon DEF RxDefer, senderside
  <2>2. Head(ab) \in AbMsg
    BY <2>1, TailFacts
  <2>3. Head(ab).size \in Nat
    BY <2>1, <2>2 DEF AbMsg, DataMsg
  <2>4. ab' \in Seq(AbMsg) /\ work' \in Seq(Nat)
    BY <2>1, <2>3
  <2>. QED  BY <2>1, <2>4, TailFacts
<1>5. CASE RxData
  <2>1. /\ ab # <<>> /\ ab' = Tail(ab) /\ RxOutcome(ab[1], ab[1].iid)
        /\ UNCHANGED <<work, nsends>>
    BY <1>5, RxDataCases DEF senderside
  <2>2. /\ ab[1] \in DataMsg /\ ab[1].iid \in DOMAIN liids
        /\ liids[ab[1].iid] \in Liid
    BY <1>5, RxDataCases, HeadHasRoom, ZenonT(30)
  <2>3. DoneMsg(ab[1].iid, FilledBy(ab[1])[ab[1].iid].reuse) \in BaMsg
    <3>1. FilledBy(ab[1])[ab[1].iid] \in Liid
      BY <2>2, FilledFacts, Zenon
    <3>. QED  BY <2>2, <3>1 DEF DoneMsg, BaMsg, DataMsg, Liid
  <2>4. \/ ba' = ba
        \/ ba' = Append(ba, DoneMsg(ab[1].iid,
                                    FilledBy(ab[1])[ab[1].iid].reuse))
    BY <2>1, Zenon DEF RxOutcome
  <2>5. ba' \in Seq(BaMsg)
    BY <2>3, <2>4, AppendType, Zenon
  <2>. QED  BY <2>1, <2>5, TailFacts
<1>6. CASE HandleIntentReq
  <2>1. AckMsg(TRUE) \in BaMsg /\ AckMsg(FALSE) \in BaMsg
    BY Zenon DEF AckMsg, BaMsg
  <2>2. /\ work # <<>> /\ work' = Tail(work) /\ UNCHANGED <<ab, nsends>>
        /\ \/ ba' = ba \/ ba' = Append(ba, AckMsg(TRUE))
           \/ ba' = Append(ba, AckMsg(FALSE))
    BY <1>6, Zenon DEF HandleIntentReq, senderside
  <2>3. ba' \in Seq(BaMsg)
    BY <2>1, <2>2, AppendType, Zenon
  <2>. QED  BY <2>2, <2>3, TailFacts, Zenon
<1>7. CASE Advertise \/ Ack
  <2>1. AckMsg(TRUE) \in BaMsg
    BY Zenon DEF AckMsg, BaMsg
  <2>2. CASE Advertise
    <3>1. rx_pc = "advertise"
          /\ ba' = Append(ba, [type |-> "intent", iid |-> rx_cur.iid,
                               size |-> rx_cur.size])
          /\ UNCHANGED <<ab, work, nsends>>
      BY <2>2, Zenon DEF Advertise, senderside
    <3>2. [type |-> "intent", iid |-> rx_cur.iid, size |-> rx_cur.size] \in BaMsg
      BY <3>1 DEF RxTypes, AllocJob, BaMsg
    <3>. QED  BY <3>1, <3>2, AppendFacts
  <2>3. CASE Ack
    BY <2>1, <2>3, AppendFacts, Zenon DEF Ack, senderside
  <2>. QED  BY <1>7, <2>2, <2>3
<1>8. CASE ThreadRxDone
  <2>1. rx_pc = "done" /\ ba' = Append(ba, DoneMsg(rx_cur.iid, rx_cur.reuse))
        /\ UNCHANGED <<ab, work, nsends>>
    BY <1>8, Zenon DEF ThreadRxDone, senderside
  <2>2. DoneMsg(rx_cur.iid, rx_cur.reuse) \in BaMsg
    BY <2>1, Zenon DEF RxTypes, DataJob, BaMsg, DoneMsg
  <2>. QED  BY <2>1, <2>2, AppendFacts
<1>9. ASSUME NEW id \in owed, ClientRxDone(id) PROVE WireTypes'
  <2>1. id \in DOMAIN liids
    BY OwedExists, Zenon
  <2>2. DoneMsg(id, liids[id].reuse) \in BaMsg
    BY <2>1, Zenon DEF RxTypes, IdrTypes, Liid, BaMsg, DoneMsg
  <2>. QED  BY <1>9, <2>2, AppendFacts DEF ClientRxDone, senderside
<1>10. CASE \/ \E t \in Threads, len \in Lens, wait \in BOOLEAN :
                   Send(t, len, wait)
            \/ \E t \in Threads : Scan(t) \/ Granted(t) \/ Timeout(t)
                                  \/ SendFail(t)
            \/ Abort \/ TakeAlloc \/ TakeData \/ Callback \/ UNCHANGED vars
  <2>1. UNCHANGED <<ab, ba, work>>
    BY <1>10, Zenon
       DEF Send, Scan, Granted, Timeout, SendFail, Abort, TakeAlloc, TakeData,
         Callback, vars, receiver
  <2>2. nsends <= nsends' /\ nsends \in Nat /\ nsends' \in Nat
    BY SendTypesNext, Zenon DEF SendTypes
  <2>3. \A n \in 1 .. nsends : n \in 1 .. nsends'
    BY <2>2
  <2>. QED  BY <2>1, <2>3, Zenon
<1>. QED
  BY <1>1, <1>2, <1>3, <1>4, <1>5, <1>6, <1>7, <1>8, <1>9, <1>10, ZenonT(30)
     DEF Next, SenderStep, SenderIrq, ReceiverIrq, RxThread, Client

\* The thread of the channel and its queue.
LEMMA RxTypesNext == Inv /\ [Next]_vars => RxTypes'
<1> SUFFICES ASSUME Inv, [Next]_vars PROVE RxTypes'
  BY Zenon
<1> DEFINE Job == DataJob \cup AllocJob
<1>. RxTypes /\ rx_queue \in Seq(Job)
  BY Zenon DEF Inv, Types, RxTypes
<1>1. CASE RxData
  <2>1. RxOutcome(ab[1], ab[1].iid) /\ UNCHANGED <<rx_pc, rx_cur>>
    BY <1>1, RxDataCases, Zenon
  <2>2. /\ ab[1] \in DataMsg /\ ab[1].iid \in DOMAIN liids
        /\ liids[ab[1].iid] \in Liid
    BY <1>1, RxDataCases, HeadHasRoom, Zenon
  <2>3. FilledBy(ab[1])[ab[1].iid] \in Liid
    BY <2>2, FilledFacts, Zenon DEF Inv, Types
  <2>4. /\ ab[1].iid \in Nat
        /\ ToDeliver(ab[1].iid, liids[ab[1].iid].reuse, FALSE) \in Job
        /\ ToDeliver(ab[1].iid, FilledBy(ab[1])[ab[1].iid].reuse, TRUE) \in Job
    BY <2>2, <2>3, Zenon DEF ToDeliver, DataJob, Liid, DataMsg
  <2>5. rx_queue' \in Seq(Job)
    BY <2>1, <2>4, AppendType, Zenon DEF RxOutcome
  <2>6. owed' \subseteq owed \cup {ab[1].iid}
    BY <2>1, Zenon DEF RxOutcome
  <2>. QED  BY <2>1, <2>4, <2>5, <2>6 DEF RxTypes
<1>2. CASE HandleIntentReq
  <2>1. /\ work # <<>> /\ UNCHANGED <<rx_pc, rx_cur, owed>>
        /\ \/ rx_queue' = rx_queue
           \/ rx_queue' = Append(rx_queue, ToAllocate(Head(work), FALSE, TRUE))
    BY <1>2, Zenon DEF HandleIntentReq
  <2>2. Head(work) \in Nat
    BY <2>1, TailFacts DEF Inv, Types, WireTypes
  <2>3. ToAllocate(Head(work), FALSE, TRUE) \in Job
    BY <2>2, Zenon DEF ToAllocate, AllocJob
  <2>4. rx_queue' \in Seq(Job)
    BY <2>1, <2>3, AppendType, Zenon
  <2>. QED  BY <2>1, <2>4, Zenon DEF RxTypes
<1>3. CASE TakeAlloc
  <2>1. /\ rx_queue # <<>> /\ Head(rx_queue).kind = "alloc"
        /\ rx_queue' = Tail(rx_queue) /\ rx_pc' = "advertise" /\ owed' = owed
        /\ rx_cur' = [Head(rx_queue) EXCEPT !.iid = next_id]
    BY <1>3, Zenon DEF TakeAlloc
  <2>2. rx_queue' \in Seq(Job) /\ Head(rx_queue) \in Job
    BY <2>1, TailFacts
  <2>3. Head(rx_queue) \in AllocJob /\ next_id \in Nat
    BY <2>1, <2>2 DEF DataJob, Inv, Types, IdrTypes
  <2>4. rx_cur' \in AllocJob
    BY <2>1, <2>3, Zenon DEF AllocJob
  <2>. QED  BY <2>1, <2>2, <2>4 DEF RxTypes, RxPc
<1>4. CASE TakeData
  <2>1. /\ rx_queue # <<>> /\ Head(rx_queue).kind = "data"
        /\ rx_queue' = Tail(rx_queue) /\ owed' = owed
        /\ rx_cur' = Head(rx_queue) /\ rx_pc' \in {"cb", "done"}
    BY <1>4, Zenon DEF TakeData
  <2>2. rx_queue' \in Seq(Job) /\ Head(rx_queue) \in Job
    BY <2>1, TailFacts
  <2>3. Head(rx_queue) \in DataJob
    BY <2>1, <2>2 DEF AllocJob
  <2>. QED  BY <2>1, <2>2, <2>3 DEF RxTypes, RxPc
<1>5. CASE Advertise \/ Ack \/ Callback \/ ThreadRxDone
  <2>1. /\ rx_queue' = rx_queue /\ rx_cur' = rx_cur
        /\ \/ rx_pc = "advertise" /\ rx_pc' = "ack"
           \/ rx_pc = "cb" /\ rx_pc' = "done"
           \/ rx_pc' = "idle"
        /\ \/ owed' = owed
           \/ rx_pc = "cb" /\ owed' = owed \cup {rx_cur.iid}
    BY <1>5, Zenon DEF Advertise, Ack, Callback, ThreadRxDone
  <2>2. rx_pc = "cb" => rx_cur.iid \in Nat
    BY Zenon DEF RxTypes, DataJob
  <2>. QED  BY <2>1, <2>2, Zenon DEF RxTypes, RxPc
<1>6. CASE Client
  <2>1. UNCHANGED <<rx_queue, rx_pc, rx_cur>> /\ owed' \subseteq owed
    BY <1>6, Zenon DEF Client, ClientRxDone
  <2>. QED  BY <2>1, Zenon DEF RxTypes
<1>7. CASE \/ \E t \in Threads, len \in Lens, wait \in BOOLEAN :
                  Send(t, len, wait)
           \/ \E t \in Threads : SenderStep(t)
           \/ Abort \/ SenderIrq \/ RxDefer \/ UNCHANGED vars
  <2>1. UNCHANGED <<rx_queue, rx_pc, rx_cur, owed>>
    BY <1>7, ZenonT(30) DEF Send, SenderStep, Scan, Request, Granted, Timeout,
       SendChunk, SendFail, Abort, SenderIrq, RxIntent, HandleRxDone,
       HandleReqAck, RxDefer, vars, receiver
  <2>. QED  BY <2>1, Zenon DEF RxTypes
<1>. QED
  BY <1>1, <1>2, <1>3, <1>4, <1>5, <1>6, <1>7, ZenonT(30)
     DEF Next, ReceiverIrq, RxThread

\* What the sending end's steps do to riids.
LEMMA RiidTypes ==
    ASSUME Inv, [Next]_vars
    PROVE  /\ riids' \in [DOMAIN riids' -> Riid]
           /\ DOMAIN riids' \subseteq 1 .. next_id - 1
<1>. IdrTypes
  BY Zenon DEF Inv, Types
<1>1. ASSUME NEW b \in DOMAIN riids, NEW u \in BOOLEAN,
             riids' = [riids EXCEPT ![b].in_use = u]
      PROVE  /\ riids' \in [DOMAIN riids' -> Riid]
             /\ DOMAIN riids' \subseteq 1 .. next_id - 1
  BY <1>1, MarkFacts, Zenon DEF IdrTypes
<1>2. CASE riids' = riids
  BY <1>2, Zenon DEF IdrTypes
<1>3. ASSUME NEW t \in Threads, Scan(t)
      PROVE  riids' = riids \/ \E b \in DOMAIN riids :
                 riids' = [riids EXCEPT ![b].in_use = TRUE]
  BY <1>3, BestFits, Zenon DEF Scan, Fits
<1>4. ASSUME NEW t \in Threads, SendFail(t)
      PROVE  \E b \in DOMAIN riids : riids' = [riids EXCEPT ![b].in_use = FALSE]
  <2>1. call[t].iid \in Sending
    BY <1>4, Zenon DEF SendFail, Sending
  <2>2. call[t].iid \in DOMAIN riids
    BY <2>1, Zenon DEF Inv, IdInv, Known
  <2>. QED  BY <1>4, <2>2, Zenon DEF SendFail
<1>5. CASE RxIntent
  <2>1. /\ ba # <<>> /\ Head(ba).type = "intent"
        /\ \/ riids' = riids
           \/ riids' = With(riids, Head(ba).iid,
                            [size |-> Head(ba).size, in_use |-> FALSE])
    BY <1>5, Zenon DEF RxIntent
  <2>2. Head(ba).iid \in DOMAIN liids /\ Head(ba).size \in Nat
    BY <2>1, HeadOfBa, Zenon
  <2>3. [size |-> Head(ba).size, in_use |-> FALSE] \in Riid
    BY <2>2, Zenon DEF Riid
  <2>4. Head(ba).iid \in 1 .. next_id - 1
    BY <2>2, Zenon DEF IdrTypes
  <2> DEFINE v == [size |-> Head(ba).size, in_use |-> FALSE]
  <2> HIDE DEF v
  <2>5. CASE riids' = With(riids, Head(ba).iid, v)
    BY <2>3, <2>4, <2>5, Zenon DEF With, IdrTypes, v
  <2>. QED  BY <2>1, <2>5, <1>2, Zenon DEF v
<1>6. CASE HandleRxDone
  <2>1. \/ riids' = riids
        \/ \E b \in DOMAIN riids : riids' = [riids EXCEPT ![b].in_use = FALSE]
        \/ riids' = Without(riids, Head(ba).iid)
    BY <1>6, Zenon DEF HandleRxDone
  <2>2. CASE riids' = Without(riids, Head(ba).iid)
    BY <2>2, Zenon DEF Without, IdrTypes
  <2>. QED  BY <2>1, <2>2, <1>1, <1>2, Zenon
<1>7. ASSUME \/ \E t \in Threads, len \in Lens, wait \in BOOLEAN :
                  Send(t, len, wait)
             \/ \E t \in Threads : Request(t) \/ Granted(t) \/ Timeout(t)
                                   \/ SendChunk(t)
             \/ Abort \/ HandleReqAck \/ ReceiverIrq \/ HandleIntentReq
             \/ RxThread \/ Client \/ UNCHANGED vars
      PROVE  riids' = riids
  BY <1>7, Zenon DEF Send, Request, Granted, Timeout, SendChunk, Abort,
     HandleReqAck, ReceiverIrq, RxDefer, RxData, HandleIntentReq, RxThread,
     TakeAlloc, Advertise, Ack, TakeData, Callback, ThreadRxDone, Client,
     ClientRxDone, vars, senderside
<1>. QED
  BY <1>1, <1>2, <1>3, <1>4, <1>5, <1>6, <1>7, Zenon
     DEF Next, SenderStep, SenderIrq

\* The two idrs.
LEMMA IdrTypesNext == Inv /\ [Next]_vars => IdrTypes'
<1> SUFFICES ASSUME Inv, [Next]_vars PROVE IdrTypes'
  BY Zenon
<1>1. /\ riids' \in [DOMAIN riids' -> Riid]
      /\ DOMAIN riids' \subseteq 1 .. next_id - 1
  BY RiidTypes, Zenon
<1>2. nsends <= nsends' /\ nsends \in Nat /\ nsends' \in Nat
  BY SendTypesNext, Zenon DEF Inv, Types, SendTypes
<1>3. IdrTypes
  BY Zenon DEF Inv, Types
<1>4. ASSUME UNCHANGED <<next_id, liids>> PROVE IdrTypes'
  BY <1>1, <1>2, <1>3, <1>4 DEF IdrTypes
<1>5. ASSUME NEW id \in DOMAIN liids, liids' = Released(liids, id),
             UNCHANGED next_id
      PROVE  IdrTypes'
  <2>1. liids[id] \in Liid
    BY <1>3, Zenon DEF IdrTypes
  <2>2. Emptied(liids[id]) \in Liid /\ Emptied(liids[id]).ns = {}
    BY <2>1, Zenon DEF Emptied, Liid
  <2>3. /\ DOMAIN liids' \subseteq DOMAIN liids
        /\ \A i \in DOMAIN liids' :
              liids'[i] = liids[i] \/ liids'[i] = Emptied(liids[id])
    BY <1>5, ReleasedFacts
  <2>4. liids' \in [DOMAIN liids' -> Liid]
    BY <1>3, <1>5, ReleasedType DEF IdrTypes
  <2>. QED  BY <1>1, <1>2, <1>3, <1>5, <2>2, <2>3, <2>4 DEF IdrTypes
<1>6. CASE RxData
  <2> DEFINE i == ab[1].iid
             f == FilledBy(ab[1])
  <2>1. /\ RxOutcome(ab[1], i) /\ next_id' = next_id /\ ab[1] \in DataMsg
        /\ i \in DOMAIN liids /\ 1 \in DOMAIN ab /\ IsData(1)
    BY <1>6, RxDataCases, HeadHasRoom, Zenon DEF IsData
  <2>2. /\ DOMAIN f = DOMAIN liids /\ f[i] = Filled(liids[i], ab[1])
        /\ \A j \in DOMAIN liids \ {i} : f[j] = liids[j]
        /\ f[i] \in Liid
    BY <2>1, <1>3, FilledFacts
  <2>3. f \in [DOMAIN f -> Liid]
    BY <2>2, <1>3, Zenon DEF IdrTypes, FilledBy
  <2>4. ab[1].n \in 1 .. nsends
    BY <2>1 DEF Inv, Types, WireTypes, IsData
  <2>5. f[i].ns \subseteq 1 .. nsends
    BY <2>1, <2>2, <2>4, <1>3, FilledFields DEF IdrTypes
  <2>6. Emptied(f[i]) \in Liid /\ Emptied(f[i]).ns = {}
    BY <2>2, Zenon DEF Emptied, Liid
  <2> HIDE DEF f, i
  <2>7. /\ liids' \in [DOMAIN liids' -> Liid]
        /\ DOMAIN liids' \subseteq DOMAIN liids
        /\ \A j \in DOMAIN liids' :
              liids'[j] = f[j] \/ liids'[j] = Emptied(f[i])
    <3>1. CASE liids' = f
      BY <3>1, <2>2, <2>3
    <3>2. CASE liids' = [f EXCEPT ![i] = Emptied(f[i])]
      BY <3>2, <2>2, <2>3, <2>6, Zenon
    <3>3. CASE liids' = Released(f, i)
      BY <3>3, <2>1, <2>2, <2>3, ReleasedType, ReleasedFacts
    <3>. QED  BY <2>1, <3>1, <3>2, <3>3, Zenon DEF RxOutcome, f
  <2>8. \A j \in DOMAIN liids' : liids'[j].ns \subseteq 1 .. nsends
    BY <2>2, <2>5, <2>6, <2>7, <1>3 DEF IdrTypes
  <2>. QED  BY <1>1, <1>2, <1>3, <2>1, <2>7, <2>8 DEF IdrTypes
<1>7. CASE TakeAlloc
  <2> DEFINE v == [size |-> Head(rx_queue).size,
                   reuse |-> Head(rx_queue).reuse, offset |-> 0, ns |-> {}]
  <2>1. /\ rx_queue # <<>> /\ Head(rx_queue).kind = "alloc"
        /\ liids' = With(liids, next_id, v) /\ next_id' = next_id + 1
    BY <1>7, Zenon DEF TakeAlloc
  <2>2. Head(rx_queue) \in DataJob \cup AllocJob
    BY <2>1, TailFacts DEF Inv, Types, RxTypes
  <2>3. v \in Liid /\ v.ns = {}
    BY <2>1, <2>2 DEF DataJob, AllocJob, Liid
  <2> HIDE DEF v
  <2>. QED  BY <1>1, <1>2, <1>3, <2>1, <2>3 DEF With, IdrTypes
<1>8. CASE ThreadRxDone \/ Client
  <2>1. \E id : liids' = Released(liids, id) /\ next_id' = next_id
    BY <1>8, Zenon DEF ThreadRxDone, Client, ClientRxDone
  <2>2. \A id : id \notin DOMAIN liids => Released(liids, id) = liids
    BY Zenon DEF Released
  <2>. QED  BY <1>4, <1>5, <2>1, <2>2
<1>9. ASSUME \/ \E t \in Threads, len \in Lens, wait \in BOOLEAN :
                  Send(t, len, wait)
             \/ \E t \in Threads : SenderStep(t)
             \/ Abort \/ SenderIrq \/ RxDefer \/ HandleIntentReq
             \/ Advertise \/ Ack \/ TakeData \/ Callback \/ UNCHANGED vars
      PROVE  UNCHANGED <<next_id, liids>>
  BY <1>9, ZenonT(30)
     DEF Send, SenderStep, Scan, Request, Granted, Timeout, SendChunk,
       SendFail, Abort, SenderIrq, RxIntent, HandleRxDone, HandleReqAck,
       RxDefer, HandleIntentReq, Advertise, Ack, TakeData, Callback, vars,
       receiver
<1>. QED
  BY <1>4, <1>6, <1>7, <1>8, <1>9, Zenon DEF Next, ReceiverIrq, RxThread

\* All types are kept.
LEMMA TypesNext == Inv /\ [Next]_vars => Types'
BY SendTypesNext, WireTypesNext, RxTypesNext, IdrTypesNext DEF Inv, Types

\* Steps of threads that neither begin nor end a turn of the sending loop.
ThreadsMove ==
    \/ \E t \in Threads, len \in Lens, wait \in BOOLEAN : Send(t, len, wait)
    \/ \E t \in Threads : \/ Scan(t) /\ riids' = riids /\ call' = call
                          \/ Request(t) \/ Granted(t) \/ Timeout(t)
    \/ Abort \/ UNCHANGED vars

\* Messages about no intent.
NoIntentMoves == HandleReqAck \/ RxDefer \/ HandleIntentReq \/ Ack

\* They are steps elsewhere.
LEMMA ThreadsElsewhere ==
    ASSUME Inv, Types', ThreadsMove
    PROVE  Elsewhere
<1>. /\ SendTypes /\ WireTypes /\ RxTypes /\ IdrTypes /\ ab' \in Seq(AbMsg)
  BY Parts, Zenon DEF Types, WireTypes
<1>1. UNCHANGED <<riids, liids, owed, defer_intents, rx_cur, rx_pc, ba,
                  rx_queue>>
  BY Zenon DEF ThreadsMove, Send, Scan, Request, Granted, Timeout, Abort, vars,
     receiver
<1>2. SubBa /\ SubQueue /\ Queued' = Queued /\ Returned' = Returned
  BY <1>1, BaShrinks, QueueShrinks, Zenon DEF Queued, Returned, IsJob, IsDone
<1>3. SubAb
  <2>1. CASE ab' = ab
    BY <2>1, AbShrinks, Zenon
  <2>2. ASSUME NEW t \in Threads,
               ab' = Append(ab, [type |-> "req", size |-> call[t].len])
        PROVE  SubAb
    <3> DEFINE m == [type |-> "req", size |-> call[t].len]
    <3>1. m \in AbMsg /\ m.type # "data"
      BY Zenon DEF SendTypes, CallRec, AbMsg
    <3> HIDE DEF m
    <3>2. ab' = Append(ab, m)
      BY <2>2, Zenon DEF m
    <3>. QED  BY <3>1, <3>2, AbShrinks
  <2>. QED
    BY <2>1, <2>2, Zenon
       DEF ThreadsMove, Send, Scan, Request, Granted, Timeout, Abort, vars
<1>4. \A t \in Threads : /\ pc'[t] = "send" <=> pc[t] = "send"
                         /\ pc[t] = "send" => call'[t] = call[t]
  <2>1. CASE UNCHANGED <<pc, call>>
    BY <2>1, Zenon
  <2>2. ASSUME NEW t \in Threads, NEW len \in Lens, NEW wait \in BOOLEAN,
               Send(t, len, wait)
        PROVE  \A u \in Threads : /\ pc'[u] = "send" <=> pc[u] = "send"
                                  /\ pc[u] = "send" => call'[u] = call[u]
    BY <2>2, Zenon DEF Send, SendTypes
  <2>3. ASSUME NEW t \in Threads, call' = call, pc[t] # "send",
               NEW x \in ThreadPc \ {"send"}, pc' = [pc EXCEPT ![t] = x]
        PROVE  \A u \in Threads : /\ pc'[u] = "send" <=> pc[u] = "send"
                                  /\ pc[u] = "send" => call'[u] = call[u]
    BY <2>3, Zenon DEF SendTypes
  <2>4. ASSUME NEW t \in Threads,
               \/ Scan(t) /\ riids' = riids /\ call' = call
               \/ Request(t) \/ Granted(t) \/ Timeout(t)
        PROVE  \A u \in Threads : /\ pc'[u] = "send" <=> pc[u] = "send"
                                  /\ pc[u] = "send" => call'[u] = call[u]
    <3>1. ASSUME Scan(t), riids' = riids, call' = call
          PROVE  Fits(call[t].len) = {}
      <4>1. SUFFICES ASSUME Fits(call[t].len) # {} PROVE FALSE
        BY Zenon
      <4>2. riids' = [riids EXCEPT ![Best(call[t].len)].in_use = TRUE]
        BY <3>1, <4>1, Zenon DEF Scan
      <4>3. Best(call[t].len) \in Fits(call[t].len)
        BY <4>1, BestFits, Zenon
      <4>. QED  BY <3>1, <4>2, <4>3, MarkFacts DEF Fits
    <3>2. pc[t] # "send" /\ call' = call
          /\ \E x \in ThreadPc \ {"send"} : pc' = [pc EXCEPT ![t] = x]
      BY <2>4, <3>1, Zenon
         DEF Scan, Request, Granted, Timeout, Return, ThreadPc
    <3>. QED  BY <2>3, <3>2, Zenon
  <2>. QED  BY <2>1, <2>2, <2>4, Zenon DEF ThreadsMove, Abort, vars, sender
<1>5. ~abort_tx' => ~abort_tx
  BY Zenon DEF ThreadsMove, Send, Scan, Request, Granted, Timeout, Abort, vars
<1>. QED  BY <1>1, <1>2, <1>3, <1>4, <1>5 DEF Elsewhere

\* So are these.
LEMMA MessagesElsewhere ==
    ASSUME Inv, Types', NoIntentMoves
    PROVE  Elsewhere
<1>. /\ WireTypes /\ RxTypes /\ ab' \in Seq(AbMsg)
  BY Parts, Zenon DEF Types, WireTypes
<1>1. /\ UNCHANGED <<riids, liids, owed, defer_intents, rx_cur, pc, call,
                     abort_tx>>
      /\ rx_pc' = rx_pc \/ (rx_pc = "ack" /\ rx_pc' = "idle")
  BY Zenon DEF NoIntentMoves, HandleReqAck, RxDefer, HandleIntentReq, Ack,
     receiver, senderside, sender
<1>2. SubAb
  <2>1. ab' = ab \/ (ab # <<>> /\ ab' = Tail(ab))
    BY Zenon DEF NoIntentMoves, HandleReqAck, RxDefer, HandleIntentReq, Ack
  <2>. QED  BY <2>1, AbShrinks, Zenon
<1>3. SubBa /\ Returned \subseteq Returned'
  <2>1. \/ ba' = ba
        \/ ba # <<>> /\ ba' = Tail(ba) /\ Head(ba).type = "ack"
        \/ ba' = Append(ba, AckMsg(TRUE)) \/ ba' = Append(ba, AckMsg(FALSE))
    BY Zenon DEF NoIntentMoves, HandleReqAck, RxDefer, HandleIntentReq, Ack
  <2>2. /\ AckMsg(TRUE) \in BaMsg /\ AckMsg(FALSE) \in BaMsg
        /\ AckMsg(TRUE).type = "ack" /\ AckMsg(FALSE).type = "ack"
    BY Zenon DEF AckMsg, BaMsg
  <2>3. \/ ba' = ba
        \/ ba # <<>> /\ ba' = Tail(ba) /\ Head(ba).type = "ack"
        \/ \E m \in BaMsg : m.type = "ack" /\ ba' = Append(ba, m)
    BY <2>1, <2>2, Zenon
  <2>4. ba # <<>> => Head(ba) = ba[1]
    BY TailFacts, Zenon DEF WireTypes
  <2>5. SubBa
    BY <2>3, BaShrinks, Zenon
  <2>6. \A i \in Returned : i \in Returned'
    <3>1. CASE ba # <<>> /\ ba' = Tail(ba) /\ Head(ba).type = "ack"
      BY <3>1, <2>4, BaStays, Zenon
    <3>2. CASE ba' = ba
      BY <3>2, Zenon DEF Returned, IsDone
    <3>3. ASSUME NEW m \in BaMsg, ba' = Append(ba, m)
          PROVE  \A i \in Returned : i \in Returned'
      <4>1. \A k \in DOMAIN ba : k \in DOMAIN ba' /\ ba'[k] = ba[k]
        BY <3>3, AppendFacts DEF WireTypes
      <4>. QED  BY <4>1, Zenon DEF Returned, IsDone
    <3>. QED  BY <2>3, <3>1, <3>2, <3>3
  <2>. QED  BY <2>5, <2>6, Zenon
<1>4. SubQueue /\ Queued \subseteq Queued'
  <2>1. CASE rx_queue' = rx_queue
    BY <2>1, QueueShrinks, Zenon DEF Queued, IsJob
  <2>2. CASE /\ work # <<>>
             /\ rx_queue' = Append(rx_queue, ToAllocate(Head(work), FALSE, TRUE))
    <3> DEFINE m == ToAllocate(Head(work), FALSE, TRUE)
    <3>1. Head(work) \in Nat
      BY <2>2, TailFacts DEF WireTypes
    <3>2. m \in AllocJob
      BY <3>1, Zenon DEF ToAllocate, AllocJob
    <3> HIDE DEF m
    <3>3. rx_queue' = Append(rx_queue, m)
      BY <2>2, Zenon DEF m
    <3>4. \A k \in DOMAIN rx_queue :
             k \in DOMAIN rx_queue' /\ rx_queue'[k] = rx_queue[k]
      BY <3>2, <3>3, AppendFacts DEF RxTypes
    <3>. QED  BY <3>2, <3>3, <3>4, QueueShrinks DEF Queued, IsJob
  <2>. QED
    BY <2>1, <2>2, Zenon DEF NoIntentMoves, HandleReqAck, RxDefer,
       HandleIntentReq, Ack, receiver
<1>. QED  BY <1>1, <1>2, <1>3, <1>4 DEF Elsewhere

(***************************************************************************)
(* The invariant holds.                                                    *)
(***************************************************************************)
\* It holds when the channel has just been made.
LEMMA IdBufInit == Init => IdInv /\ BufInv
<1> SUFFICES ASSUME Init PROVE IdInv /\ BufInv
  BY Zenon
<1>1. /\ DOMAIN ab = {} /\ DOMAIN ba = {} /\ DOMAIN riids = {}
      /\ DOMAIN liids = {} /\ owed = {} /\ defer_intents = {}
      /\ rx_pc = "idle" /\ \A t \in Threads : pc[t] = "idle"
  BY DEF Init
<1>2. \A k \in DOMAIN rx_queue : ~IsJob(k)
  BY Zenon DEF Init, IsJob, ToAllocate
<1>3. /\ Fresh = {} /\ Offered = {} /\ Sending = {} /\ Flying = {}
      /\ Complete = {} /\ Queued = {} /\ Working = {} /\ Returned = {}
  BY <1>1, <1>2, Zenon
     DEF Fresh, Offered, Sending, Flying, Complete, Queued, Working, Returned
<1>4. Single
  BY <1>1, <1>2, Zenon
     DEF Single, SingleBa, SingleQueue, SingleAb, SingleThread
<1>5. Apart /\ Known
  BY <1>1, <1>3, ZenonT(30) DEF Apart, Known, Away
<1>6. BufInv
  BY <1>1, <1>2, <1>3 DEF BufInv, Exists, Sizes, Reused, Chunks, Room
<1>. QED  BY <1>4, <1>5, <1>6, Zenon DEF IdInv

\* What __qcom_glink_send does to an intent.
LEMMA SenderKeeps ==
    ASSUME Inv, NEW t \in Threads, Scan(t) \/ SendChunk(t) \/ SendFail(t)
    PROVE  \/ Scan(t) /\ UNCHANGED <<riids, call>>
           \/ IdInv' /\ BufInv'
<1>types. SendTypes /\ IdrTypes
  BY Parts, Zenon
<1>1. CASE Scan(t)
  <2>1. CASE Fits(call[t].len) = {}
    BY <1>1, <2>1, Zenon DEF Scan
  <2>2. CASE Fits(call[t].len) # {}
    <3> DEFINE b == Best(call[t].len)
    <3>1. b \in Fits(call[t].len)
      BY <1>types, <2>2, BestFits, Zenon
    <3>2. b \in DOMAIN riids /\ riids[b].size >= call[t].len /\ ~riids[b].in_use
      BY <3>1, Zenon DEF Fits
    <3>3. ScanStep(t, b)
      BY <1>1, <2>2, <3>2, Zenon DEF Scan, ScanStep, receiver
    <3>. QED  BY <3>3, ScanTakes, Zenon
  <2>. QED  BY <2>1, <2>2, Zenon
<1>2. CASE SendChunk(t)
  <2>1. PICK chunk \in Nat, left \in Nat :
             /\ chunk > 0 /\ chunk + left = call[t].len - call[t].offset
             /\ ~call[t].wait => left = 0
             /\ ab' = Append(ab, DataOf(t, chunk, left))
             /\ call' = [call EXCEPT ![t].offset = call[t].offset + chunk]
             /\ left = 0 => Return(t, "0")
             /\ left # 0 => UNCHANGED <<pc, ret>>
    BY <1>types, <1>2, SendChunkFacts, Zenon DEF DataOf
  <2>2. /\ pc[t] = "send" /\ ~abort_tx
        /\ UNCHANGED <<abort_tx, ba, riids, liids, rx_queue, rx_pc, rx_cur,
                       defer_intents, owed>>
    BY <1>2, Zenon DEF SendChunk, receiver
  <2>3. ChunkStep(t, chunk, left)
    BY <2>1, <2>2, Zenon DEF ChunkStep, Return
  <2>. QED  BY <2>3, SendsChunk, Zenon
<1>3. CASE SendFail(t)
  <2>1. FailStep(t)
    BY <1>3, Zenon DEF SendFail, FailStep, Return, receiver
  <2>. QED  BY <2>1, SendFails, Zenon
<1>. QED  BY <1>1, <1>2, <1>3, Zenon

\* What the interrupt handlers do to an intent.
LEMMA IrqKeeps ==
    ASSUME Inv, RxIntent \/ HandleRxDone \/ RxData
    PROVE  IdInv' /\ BufInv'
<1>1. CASE RxIntent
  <2>1. IntentStep
    BY <1>1, Zenon DEF RxIntent, IntentStep, sender, receiver
  <2>. QED  BY <2>1, LearnsIntent, Zenon
<1>2. CASE HandleRxDone
  <2>1. DoneBackStep
    BY <1>2, Zenon DEF HandleRxDone, DoneBackStep, sender, receiver
  <2>. QED  BY <2>1, TakesBack, Zenon
<1>3. CASE RxData
  <2>1. DataStep
    BY <1>3, RxDataCases, Zenon DEF DataStep, senderside, sender
  <2>. QED  BY <2>1, ReceivesChunk, ReceivesLast, Zenon
<1>. QED  BY <1>1, <1>2, <1>3, Zenon

\* What the channel's thread and its client do to an intent.
LEMMA ReceiverKeeps ==
    ASSUME Inv, \/ TakeAlloc \/ Advertise \/ TakeData \/ Callback
                \/ ThreadRxDone \/ Client
    PROVE  IdInv' /\ BufInv'
<1>1. CASE TakeAlloc
  <2>1. AllocStep
    BY <1>1, Zenon DEF TakeAlloc, AllocStep, senderside, sender
  <2>. QED  BY <2>1, Allocates, Zenon
<1>2. CASE Advertise
  <2>1. AdvertiseStep
    BY <1>2, Zenon DEF Advertise, AdvertiseStep, senderside, sender
  <2>. QED  BY <2>1, Advertises, Zenon
<1>3. CASE TakeData
  <2>1. TakeDataStep
    BY <1>3, Zenon DEF TakeData, TakeDataStep, senderside, sender
  <2>. QED  BY <2>1, TakesData, Zenon
<1>4. CASE Callback
  <2>1. CallbackStep
    BY <1>4, Zenon DEF Callback, CallbackStep, senderside, sender
  <2>. QED  BY <2>1, CallsBack, Zenon
<1>5. CASE ThreadRxDone
  <2>1. ThreadDoneStep
    BY <1>5, Zenon DEF ThreadRxDone, ThreadDoneStep, senderside, sender
  <2>. QED  BY <2>1, ThreadReturns, Zenon
<1>6. CASE Client
  <2>1. PICK id \in owed : ClientRxDone(id)
    BY <1>6, Zenon DEF Client
  <2>2. ClientDoneStep(id)
    BY <2>1, Zenon DEF ClientRxDone, ClientDoneStep, senderside, sender
  <2>. QED  BY <2>2, ClientReturns, Zenon
<1>. QED  BY <1>1, <1>2, <1>3, <1>4, <1>5, <1>6, Zenon

\* Every step keeps every intent in its place.
LEMMA IdBufNext == Inv /\ [Next]_vars => IdInv' /\ BufInv'
<1> SUFFICES ASSUME Inv, [Next]_vars PROVE IdInv' /\ BufInv'
  BY Zenon
<1>types. Types'
  BY TypesNext, Zenon
<1>1. CASE ThreadsMove
  BY <1>types, <1>1, ThreadsElsewhere, StepElsewhere, Zenon
<1>2. CASE NoIntentMoves
  BY <1>types, <1>2, MessagesElsewhere, StepElsewhere, Zenon
<1>3. ASSUME NEW t \in Threads, SenderStep(t) PROVE IdInv' /\ BufInv'
  <2>1. CASE Scan(t) \/ SendChunk(t) \/ SendFail(t)
    BY <1>1, <2>1, SenderKeeps, Zenon DEF ThreadsMove
  <2>2. CASE Request(t) \/ Granted(t) \/ Timeout(t)
    BY <1>1, <2>2, Zenon DEF ThreadsMove
  <2>. QED  BY <1>3, <2>1, <2>2, Zenon DEF SenderStep
<1>4. CASE SenderIrq \/ ReceiverIrq
  BY <1>2, <1>4, IrqKeeps, Zenon DEF SenderIrq, ReceiverIrq, NoIntentMoves
<1>5. CASE RxThread \/ Client
  BY <1>2, <1>5, ReceiverKeeps, Zenon DEF RxThread, NoIntentMoves
<1>6. CASE HandleIntentReq
  BY <1>2, <1>6, Zenon DEF NoIntentMoves
<1>7. CASE \/ \E t \in Threads, len \in Lens, wait \in BOOLEAN :
                 Send(t, len, wait)
           \/ Abort \/ UNCHANGED vars
  BY <1>1, <1>7, Zenon DEF ThreadsMove
<1>. QED
  BY <1>3, <1>4, <1>5, <1>6, <1>7, Zenon DEF Next

(***************************************************************************)
(* The theorems.                                                           *)
(***************************************************************************)
\* For any number of threads, any message lengths and intents, and with
\* aborts, failed allocations and late answers, every intent of the channel
\* is in one place at a time: free, being filled by one call of
\* __qcom_glink_send, on its way, with the client or on its way back; the
\* chunks under way fit behind what the buffer of their intent holds.
THEOREM Invariance == Spec => []Inv
<1>1. Init => Inv
  BY TypesInit, IdBufInit, Zenon DEF Inv
<1>2. Inv /\ [Next]_vars => Inv'
  BY TypesNext, IdBufNext, Zenon DEF Inv
<1>. QED  BY <1>1, <1>2, PTL DEF Spec

\* qcom_glink_rx_data finds the intent of every chunk, with room for it and
\* not in the client's hands: no data is dropped and none written over.
THEOREM DataFits == Spec => []DataHasRoom
<1>1. Inv => DataHasRoom
  <2> SUFFICES ASSUME Inv, ab # <<>>, Head(ab).type = "data"
               PROVE  ~Dropped(Head(ab)) /\ Head(ab).iid \notin Busy
    BY Zenon DEF DataHasRoom
  <2>1. ~Dropped(Head(ab)) /\ Head(ab) = ab[1] /\ ab[1].iid \in Flying
    BY HeadHasRoom, Zenon
  <2>2. Busy \subseteq Away
    BY Zenon DEF Busy, Away, Queued, IsJob, Inv, IdInv, Known
  <2>. QED  BY <2>1, <2>2 DEF Inv, IdInv, Apart
<1>. QED  BY <1>1, Invariance, PTL

\* The state is well typed and the two ends agree: an advertised id is new to
\* qcom_glink_handle_intent, and every RX_DONE that qcom_glink_handle_rx_done
\* gets is about an intent that is in use.
THEOREM EndsInStep == Spec => []EndsAgree
<1>1. Inv => EndsAgree
  <2> SUFFICES ASSUME Inv PROVE EndsAgree
    BY Zenon
  <2>1. TypeOK
    <3>1. /\ pc \in [Threads -> {"idle", "scan", "lock", "wait", "send"}]
          /\ call \in [Threads -> [len : Nat, wait : BOOLEAN, offset : Nat,
                                   iid : Nat, n : Nat]]
          /\ ret \in [Threads -> {"0", "EBUSY", "EIO", "EAGAIN", "ECANCELED",
                                  "ETIMEDOUT"}]
          /\ req_lock \in Threads \cup {None} /\ req_result \in -1 .. 1
          /\ intent_received \in BOOLEAN /\ abort_tx \in BOOLEAN
          /\ intent_timeout_count \in Nat
      BY Zenon DEF Inv, Types, SendTypes, ThreadPc, CallRec, Codes
    <3>2. /\ DOMAIN riids \subseteq 1 .. next_id - 1
          /\ DOMAIN liids \subseteq 1 .. next_id - 1
          /\ \A i \in DOMAIN riids : riids[i] \in [size : Nat, in_use : BOOLEAN]
          /\ next_id \in Nat \ {0}
      BY Zenon DEF Inv, Types, IdrTypes, Riid
    <3>3. \A i \in DOMAIN liids : /\ liids[i].offset \in 0 .. liids[i].size
                                  /\ liids[i].ns \subseteq 1 .. nsends
      BY DEF Inv, Types, IdrTypes, Liid, BufInv, Chunks
    <3>4. rx_pc \in {"idle", "advertise", "ack", "cb", "done"}
      BY Zenon DEF Inv, Types, RxTypes, RxPc
    <3>5. owed \subseteq defer_intents
      BY Zenon DEF Inv, IdInv, Known
    <3>. QED  BY <3>1, <3>2, <3>3, <3>4, <3>5, Zenon DEF TypeOK
  <2>2. ASSUME ba # <<>>
        PROVE  /\ Head(ba).type = "intent" => Head(ba).iid \notin DOMAIN riids
               /\ Head(ba).type = "done" =>
                     Head(ba).iid \in DOMAIN riids /\ riids[Head(ba).iid].in_use
    BY <2>2, HeadOfBa, Zenon
  <2>. QED  BY <2>1, <2>2, Zenon DEF EndsAgree
<1>. QED  BY <1>1, Invariance, PTL
=============================================================================
