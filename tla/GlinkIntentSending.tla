------------------------- MODULE GlinkIntentSending -------------------------
(***************************************************************************)
(* What the sending end does to the intents keeps the invariant, and so    *)
(* does the receiving end as it makes a buffer and fills it.               *)
(***************************************************************************)
EXTENDS GlinkIntentReceiving

\* The time a leaf may take, in seconds.
USE SMTT(20)

(***************************************************************************)
(* Steps of __qcom_glink_send.                                             *)
(***************************************************************************)
ScanStep(t, b) ==
    /\ pc[t] = "scan" /\ b \in DOMAIN riids /\ ~riids[b].in_use
    /\ riids[b].size >= call[t].len
    /\ pc' = [pc EXCEPT ![t] = "send"] /\ call' = [call EXCEPT ![t].iid = b]
    /\ riids' = [riids EXCEPT ![b].in_use = TRUE]
    /\ UNCHANGED <<abort_tx, ab, ba, liids, rx_queue, rx_pc, rx_cur,
                   defer_intents, owed>>

\* The scan finds an intent: a free one, which is nowhere else.
LEMMA ScanTakes ==
    ASSUME Inv, NEW t \in Threads, NEW b, ScanStep(t, b)
    PROVE  IdInv' /\ BufInv'
<1>types. SendTypes /\ WireTypes /\ RxTypes /\ IdrTypes
  BY Parts, Zenon
<1>single. SingleBa /\ SingleQueue /\ SingleAb /\ SingleThread
  BY Parts, Zenon
<1>known. Apart /\ Known
  BY Parts, Zenon
<1>sizes. Exists /\ Sizes /\ Reused
  BY Parts, Zenon
<1>room. Chunks /\ Room
  BY Parts, Zenon
<1>1. /\ pc[t] = "scan"
      /\ pc' = [pc EXCEPT ![t] = "send"]
      /\ call' = [call EXCEPT ![t].iid = b]
      /\ riids' = [riids EXCEPT ![b].in_use = TRUE]
      /\ UNCHANGED <<abort_tx, ab, ba, liids, rx_queue, rx_pc, rx_cur,
                     defer_intents, owed>>
  BY Zenon DEF ScanStep
<1>2. b \in DOMAIN riids /\ ~riids[b].in_use /\ riids[b].size >= call[t].len
  BY Zenon DEF ScanStep
<1>3. /\ DOMAIN riids' = DOMAIN riids
      /\ riids'[b].in_use /\ riids'[b].size = riids[b].size
      /\ \A i \in DOMAIN riids \ {b} : riids'[i] = riids[i]
  BY <1>types, <1>1, <1>2, MarkFacts, Zenon
<1>4. /\ pc'[t] = "send" /\ call'[t].iid = b /\ call'[t].len = call[t].len
      /\ call'[t].offset = 0
      /\ \A u \in Threads \ {t} : pc'[u] = pc[u] /\ call'[u] = call[u]
  BY <1>types, <1>1, Zenon DEF SendTypes, CallRec
<1>5. Sending' = Sending \cup {b}
  BY <1>1, <1>4 DEF Sending
<1>6. /\ Fresh' = Fresh /\ Offered' = Offered /\ Flying' = Flying
      /\ Complete' = Complete /\ Queued' = Queued /\ Working' = Working
      /\ Returned' = Returned
  BY <1>1, Zenon
     DEF Fresh, Offered, Flying, Complete, Queued, Working, Returned, IsData,
       IsLast, IsIntent, IsDone, IsJob
<1>7. b \notin Away /\ b \notin Complete /\ b \notin Sending
  BY <1>known, <1>2, Zenon DEF Known
<1>8. Single'
  <2>1. SingleBa' /\ SingleQueue' /\ SingleAb'
    BY <1>single, <1>1
       DEF Single, SingleBa, SingleQueue, SingleAb, IsIntent, IsDone, IsJob,
         IsLast, IsData
  <2>2. \A u \in Threads \ {t} : pc[u] = "send" => call[u].iid # b
    BY <1>7, Zenon DEF Sending
  <2>3. SingleThread'
    BY <1>single, <1>4, <2>2 DEF Single, SingleThread
  <2>. QED  BY <1>single, <2>1, <2>3, Zenon DEF Single
<1>9. Apart'
  BY <1>known, <1>1, <1>5, <1>6, <1>7 DEF Apart, Away
<1>10. Known'
  BY <1>known, <1>1, <1>2, <1>3, <1>5, <1>6, <1>7 DEF Known, Away
<1>11. Exists' /\ Reused' /\ Chunks'
  BY <1>sizes, <1>room, <1>1, <1>3, <1>6, Zenon
     DEF Exists, Reused, Chunks, IsJob, IsDone, IsData
<1>12. Sizes'
  BY <1>sizes, <1>1, <1>3 DEF Sizes, IsIntent
<1>13. Room'
  <2>1. SUFFICES ASSUME ~abort_tx PROVE Room'
    BY <1>room, <1>1, Zenon DEF Room
  <2>2. /\ liids[b].offset = 0 /\ b \notin Flying /\ b \in DOMAIN liids
        /\ riids[b].size = liids[b].size /\ liids[b] \in Liid
    BY <1>room, <1>sizes, <1>types, <1>2, <2>1, BufferExists, Zenon
       DEF Room, Sizes, IdrTypes
  <2>3. \A k \in DOMAIN ab : IsData(k) => ab[k].iid # b
    BY <2>2, Zenon DEF Flying
  <2>4. call[t].len \in Nat /\ riids[b].size \in Nat
    BY <1>types, <1>2, Zenon DEF SendTypes, CallRec, IdrTypes, Riid
  <2>5. liids[b].offset + (call'[t].len - call'[t].offset) <= liids[b].size
    BY <1>2, <1>4, <2>2, <2>4
  <2>6. \A u \in Threads : pc'[u] = "send" => u = t \/ pc[u] = "send"
    BY <1>4, Zenon
  <2>7. \A i \in DOMAIN riids' : ~riids'[i].in_use => ~riids[i].in_use
    BY <1>3, Zenon
  <2>. QED
    BY <1>room, <1>1, <1>3, <1>4, <1>6, <2>1, <2>2, <2>3, <2>5, <2>6, <2>7
       DEF Room, IsData
<1>. QED  BY <1>8, <1>9, <1>10, <1>11, <1>12, <1>13, Whole, Zenon

FailStep(t) ==
    /\ pc[t] = "send" /\ (abort_tx \/ ~call[t].wait)
    /\ riids' = [riids EXCEPT ![call[t].iid].in_use = FALSE]
    /\ pc' = [pc EXCEPT ![t] = "idle"]
    /\ UNCHANGED <<call, abort_tx, ab, ba, liids, rx_queue, rx_pc, rx_cur,
                   defer_intents, owed>>

\* A failed call frees its intent.  A message that was partly sent stays
\* incomplete, but only after abort_tx.
LEMMA SendFails ==
    ASSUME Inv, NEW t \in Threads, FailStep(t)
    PROVE  IdInv' /\ BufInv'
<1>types. SendTypes /\ WireTypes /\ RxTypes /\ IdrTypes
  BY Parts, Zenon
<1>single. SingleBa /\ SingleQueue /\ SingleAb /\ SingleThread
  BY Parts, Zenon
<1>known. Apart /\ Known
  BY Parts, Zenon
<1>sizes. Exists /\ Sizes /\ Reused
  BY Parts, Zenon
<1>room. Chunks /\ Room
  BY Parts, Zenon
<1> DEFINE i == call[t].iid
<1>1. /\ pc[t] = "send"
      /\ abort_tx \/ ~call[t].wait
      /\ riids' = [riids EXCEPT ![i].in_use = FALSE]
      /\ pc' = [pc EXCEPT ![t] = "idle"]
      /\ UNCHANGED <<call, abort_tx, ab, ba, liids, rx_queue, rx_pc, rx_cur,
                     defer_intents, owed>>
  BY Zenon DEF FailStep
<1>2. i \in Sending /\ i \in DOMAIN riids
  BY <1>known, <1>1, Zenon DEF Sending, Known
<1>3. i \notin Away /\ i \notin Complete
  BY <1>known, <1>2, Zenon DEF Apart
<1> HIDE DEF i
<1>4. /\ DOMAIN riids' = DOMAIN riids /\ riids'[i].size = riids[i].size
      /\ \A j \in DOMAIN riids \ {i} : riids'[j] = riids[j]
  BY <1>types, <1>1, <1>2, MarkFacts, Zenon
<1>5. pc'[t] = "idle" /\ \A u \in Threads \ {t} : pc'[u] = pc[u]
  BY <1>types, <1>1, Zenon DEF SendTypes
<1>6. Sending' \subseteq Sending \ {i}
  <2>1. \A u \in Threads \ {t} : pc[u] = "send" => call[u].iid # i
    BY <1>single, <1>1, Zenon DEF Single, SingleThread, i
  <2>. QED  BY <1>1, <1>5, <2>1, Zenon DEF Sending
<1>7. /\ Fresh' = Fresh /\ Offered' = Offered /\ Flying' = Flying
      /\ Complete' = Complete /\ Queued' = Queued /\ Working' = Working
      /\ Returned' = Returned
  BY <1>1, Zenon
     DEF Fresh, Offered, Flying, Complete, Queued, Working, Returned, IsData,
       IsLast, IsIntent, IsDone, IsJob
<1>8. Single'
  <2>1. SingleBa' /\ SingleQueue' /\ SingleAb'
    BY <1>single, <1>1
       DEF Single, SingleBa, SingleQueue, SingleAb, IsIntent, IsDone, IsJob,
         IsLast, IsData
  <2>2. SingleThread'
    BY <1>single, <1>1, <1>5 DEF Single, SingleThread
  <2>. QED  BY <1>single, <2>1, <2>2, Zenon DEF Single
<1>9. Apart'
  BY <1>known, <1>1, <1>6, <1>7, Zenon DEF Apart, Away
<1>10. Known'
  BY <1>known, <1>1, <1>3, <1>4, <1>6, <1>7 DEF Known, Away
<1>11. Exists' /\ Reused' /\ Chunks'
  BY <1>sizes, <1>room, <1>1, <1>4, <1>7, Zenon
     DEF Exists, Reused, Chunks, IsJob, IsDone, IsData
<1>12. Sizes'
  BY <1>sizes, <1>1, <1>4 DEF Sizes, IsIntent
<1>13. Room'
  <2>1. SUFFICES ASSUME ~abort_tx PROVE Room'
    BY <1>room, <1>1, Zenon DEF Room
  <2>2. liids[i].offset = 0 /\ i \notin Flying
    BY <1>room, <1>1, <2>1, Zenon DEF Room, i
  <2>. QED
    BY <1>room, <1>1, <1>4, <1>5, <1>7, <2>1, <2>2 DEF Room, IsData
<1>. QED  BY <1>8, <1>9, <1>10, <1>11, <1>12, <1>13, Whole, Zenon

DataOf(t, chunk, left) ==
    [type |-> "data", iid |-> call[t].iid, n |-> call[t].n, chunk |-> chunk,
     left |-> left]

ChunkStep(t, chunk, left) ==
    /\ pc[t] = "send" /\ ~abort_tx
    /\ chunk > 0 /\ chunk + left = call[t].len - call[t].offset
    /\ ~call[t].wait => left = 0
    /\ ab' = Append(ab, DataOf(t, chunk, left))
    /\ call' = [call EXCEPT ![t].offset = call[t].offset + chunk]
    /\ left = 0 => pc' = [pc EXCEPT ![t] = "idle"]
    /\ left # 0 => pc' = pc
    /\ UNCHANGED <<abort_tx, ba, riids, liids, rx_queue, rx_pc, rx_cur,
                   defer_intents, owed>>

\* A chunk goes into the pipe behind those of the same message; the last one
\* takes the intent from the thread.
LEMMA SendsChunk ==
    ASSUME Inv, NEW t \in Threads, NEW chunk \in Nat, NEW left \in Nat,
           ChunkStep(t, chunk, left)
    PROVE  IdInv' /\ BufInv'
<1>types. SendTypes /\ WireTypes /\ RxTypes /\ IdrTypes
  BY Parts, Zenon
<1>single. SingleBa /\ SingleQueue /\ SingleAb /\ SingleThread
  BY Parts, Zenon
<1>known. Apart /\ Known
  BY Parts, Zenon
<1>sizes. Exists /\ Sizes /\ Reused
  BY Parts, Zenon
<1>room. Chunks /\ Room
  BY Parts, Zenon
<1> DEFINE i == call[t].iid
<1>1. /\ chunk > 0 /\ chunk + left = call[t].len - call[t].offset
      /\ ~call[t].wait => left = 0
      /\ ab' = Append(ab, DataOf(t, chunk, left))
      /\ call' = [call EXCEPT ![t].offset = call[t].offset + chunk]
      /\ left = 0 => pc' = [pc EXCEPT ![t] = "idle"]
      /\ left # 0 => pc' = pc
  BY Zenon DEF ChunkStep
<1>2. /\ pc[t] = "send" /\ ~abort_tx
      /\ UNCHANGED <<abort_tx, ba, riids, liids, rx_queue, rx_pc, rx_cur,
                     defer_intents, owed>>
  BY Zenon DEF ChunkStep
<1> DEFINE m == DataOf(t, chunk, left)
           z == Len(ab) + 1
<1>3. m \in AbMsg /\ m.type = "data" /\ m.iid = i /\ m.chunk = chunk
      /\ m.left = left
  BY <1>types, Zenon DEF DataOf, AbMsg, DataMsg, SendTypes, CallRec
<1>4. i \in Sending /\ i \in DOMAIN riids /\ riids[i].in_use
  BY <1>known, <1>2, Zenon DEF Sending, Known
<1>5. i \notin Away /\ i \notin Complete
  BY <1>known, <1>4, Zenon DEF Apart
<1>6. i \in DOMAIN liids
  BY <1>4, BufferExists, Zenon
<1>7. /\ call'[t].iid = i /\ call'[t].len = call[t].len
      /\ call'[t].offset = call[t].offset + chunk /\ call'[t].wait = call[t].wait
      /\ \A u \in Threads \ {t} : call'[u] = call[u]
      /\ \A u \in Threads : call'[u].iid = call[u].iid
  BY <1>types, <1>1 DEF SendTypes, CallRec
<1>8. /\ left = 0 => pc'[t] = "idle"
      /\ left # 0 => pc'[t] = "send"
      /\ \A u \in Threads \ {t} : pc'[u] = pc[u]
  BY <1>types, <1>1, <1>2, Zenon DEF SendTypes
<1>9. \A u \in Threads \ {t} : pc[u] = "send" => call[u].iid # i
  BY <1>single, <1>2, Zenon DEF Single, SingleThread
<1> HIDE DEF i, m
<1>10. /\ DOMAIN ab' = DOMAIN ab \cup {z} /\ ab'[z] = m
       /\ \A k \in DOMAIN ab : ab'[k] = ab[k] /\ k \in Nat /\ k < z
       /\ z \in Nat
  <2>1. ab' = Append(ab, m) /\ ab \in Seq(AbMsg)
    BY <1>types, <1>1, Zenon DEF m, WireTypes
  <2>. QED  BY <1>3, <2>1, AppendFacts
<1> HIDE DEF z
<1>11. /\ Flying' = Flying \cup {i}
       /\ Complete' \subseteq Complete \cup {i}
       /\ left # 0 => Complete' = Complete
  BY <1>3, <1>10 DEF Flying, Complete, IsData, IsLast
<1>12. /\ Sending' \subseteq Sending
       /\ left = 0 => i \notin Sending'
  BY <1>2, <1>7, <1>8, <1>9 DEF Sending
<1>13. /\ Fresh' = Fresh /\ Offered' = Offered /\ Queued' = Queued
       /\ Working' = Working /\ Returned' = Returned /\ Away' = Away
  BY <1>2 DEF Fresh, Offered, Queued, Working, Returned, Away,
     IsIntent, IsDone, IsJob
<1>14. Single'
  <2>1. SingleBa' /\ SingleQueue'
    BY <1>single, <1>2
       DEF Single, SingleBa, SingleQueue, IsIntent, IsDone, IsJob
  <2>2. \A k \in DOMAIN ab : IsLast(k) => ab[k].iid # i
    BY <1>5, Zenon DEF Complete
  <2>3. SingleAb'
    <3>1. SUFFICES ASSUME NEW j \in DOMAIN ab', NEW k \in DOMAIN ab',
                          IsLast(j)', IsData(k)', ab'[j].iid = ab'[k].iid
                   PROVE  k <= j
      BY <1>single, Zenon DEF SingleAb
    <3>2. CASE j = z
      BY <1>10, <3>2
    <3>3. CASE j # z /\ k = z
      BY <1>3, <1>10, <2>2, <3>1, <3>3, Zenon DEF IsLast, IsData
    <3>4. CASE j # z /\ k # z
      BY <1>single, <1>10, <3>1, <3>4, Zenon
         DEF Single, SingleAb, IsLast, IsData
    <3>. QED  BY <3>2, <3>3, <3>4, Zenon
  <2>4. SingleThread'
    BY <1>single, <1>2, <1>7, <1>8, <1>9 DEF Single, SingleThread
  <2>. QED  BY <1>single, <2>1, <2>3, <2>4, Zenon DEF Single
<1>15. Apart'
  <2>1. Complete' \cap Sending' = {}
    BY <1>known, <1>11, <1>12, Zenon DEF Apart
  <2>2. Away' \cap Flying' = {} /\ Away' \cap Sending' = {}
    BY <1>known, <1>5, <1>11, <1>12, <1>13, Zenon DEF Apart
  <2>. QED  BY <1>known, <1>2, <1>13, <2>1, <2>2, Zenon DEF Apart
<1>16. Known'
  BY <1>known, <1>2, <1>4, <1>11, <1>12, <1>13 DEF Known
<1>17. Exists' /\ Sizes' /\ Reused'
  BY <1>sizes, <1>2, <1>13, Zenon
     DEF Exists, Sizes, Reused, IsJob, IsDone, IsIntent
<1> DEFINE rest == call[t].len - call[t].offset
<1>18. /\ liids[i].offset + rest <= liids[i].size
       /\ \A k \in DOMAIN ab : IsData(k) /\ ab[k].iid = i => rest <= ab[k].left
       /\ rest = chunk + left
  BY <1>room, <1>1, <1>2, Zenon DEF Room, i
<1>19. call[t].len \in Nat /\ call[t].offset \in Nat
       /\ liids[i].offset \in Nat /\ liids[i].size \in Nat
  BY <1>types, <1>6, Zenon DEF SendTypes, CallRec, IdrTypes, Liid
<1>20. \A k \in DOMAIN ab : IsData(k) => ab[k].left \in Nat /\ ab[k].chunk \in Nat
  <2>1. SUFFICES ASSUME NEW k \in DOMAIN ab, IsData(k)
                 PROVE  ab[k].left \in Nat /\ ab[k].chunk \in Nat
    BY Zenon
  <2>2. ab[k] \in AbMsg
    BY <1>types DEF WireTypes
  <2>. QED  BY <2>1, <2>2, Zenon DEF AbMsg, DataMsg, IsData
<1>21. Chunks'
  <2>1. \A k \in DOMAIN ab' : IsData(k)' =>
           liids[ab'[k].iid].offset + ab'[k].chunk + ab'[k].left
               <= liids[ab'[k].iid].size
    <3>1. liids[i].offset + chunk + left <= liids[i].size
      BY <1>18, <1>19
    <3>. QED  BY <1>room, <1>3, <1>10, <3>1, Zenon DEF Chunks, IsData
  <2>2. \A j, k \in DOMAIN ab' :
           IsData(j)' /\ IsData(k)' /\ ab'[j].iid = ab'[k].iid /\ j < k =>
              ab'[k].chunk + ab'[k].left <= ab'[j].left
    <3>1. SUFFICES ASSUME NEW j \in DOMAIN ab', NEW k \in DOMAIN ab',
                          IsData(j)', IsData(k)', ab'[j].iid = ab'[k].iid, j < k
                   PROVE  ab'[k].chunk + ab'[k].left <= ab'[j].left
      BY Zenon
    <3>2. j # z
      BY <1>10, <3>1
    <3>3. CASE k = z
      BY <1>3, <1>10, <1>18, <3>1, <3>2, <3>3, Zenon DEF IsData
    <3>4. CASE k # z
      BY <1>room, <1>10, <3>1, <3>2, <3>4, Zenon DEF Chunks, IsData
    <3>. QED  BY <3>3, <3>4, Zenon
  <2>. QED  BY <1>room, <1>2, <2>1, <2>2, Zenon DEF Chunks
<1>22. Room'
  <2>1. ASSUME NEW u \in Threads, pc'[u] = "send"
        PROVE  /\ liids[call'[u].iid].offset + (call'[u].len - call'[u].offset)
                     <= liids[call'[u].iid].size
               /\ \A k \in DOMAIN ab' : IsData(k)' /\ ab'[k].iid = call'[u].iid =>
                     call'[u].len - call'[u].offset <= ab'[k].left
               /\ ~call'[u].wait => /\ call'[u].offset = 0
                                    /\ liids[call'[u].iid].offset = 0
                                    /\ call'[u].iid \notin Flying'
    <3>1. CASE u = t
      <4>1. left # 0 /\ call'[t].wait
        BY <1>1, <1>7, <1>8, <2>1, <3>1, Zenon
      <4>2. call'[t].len - call'[t].offset = left
        <5>1. chunk + left = call[t].len - call[t].offset
          BY <1>1, Zenon
        <5>2. call'[t].len - call'[t].offset
                 = call[t].len - (call[t].offset + chunk)
          BY <1>7, Zenon
        <5>. QED  BY <1>19, <5>1, <5>2
      <4>3. liids[i].offset + left <= liids[i].size
        BY <1>18, <1>19
      <4>4. \A k \in DOMAIN ab : IsData(k) /\ ab[k].iid = i => left <= ab[k].left
        BY <1>18, <1>20
      <4>5. \A k \in DOMAIN ab' : IsData(k)' /\ ab'[k].iid = i => left <= ab'[k].left
        BY <1>3, <1>10, <4>4 DEF IsData
      <4>. QED  BY <1>7, <3>1, <4>1, <4>2, <4>3, <4>5, Zenon
    <3>2. CASE u # t
      <4>1. pc[u] = "send" /\ call'[u] = call[u] /\ call[u].iid # i
        BY <1>7, <1>8, <1>9, <2>1, <3>2, Zenon
      <4>2. \A k \in DOMAIN ab' : IsData(k)' /\ ab'[k].iid = call[u].iid =>
               k \in DOMAIN ab /\ IsData(k) /\ ab'[k] = ab[k]
        BY <1>3, <1>10, <4>1, Zenon DEF IsData
      <4>. QED  BY <1>room, <1>2, <1>11, <4>1, <4>2, Zenon DEF Room
    <3>. QED  BY <3>1, <3>2, Zenon
  <2>2. \A j \in DOMAIN riids : ~riids[j].in_use =>
           liids[j].offset = 0 /\ j \notin Flying'
    BY <1>room, <1>2, <1>4, <1>11, Zenon DEF Room
  <2>. QED  BY <1>room, <1>2, <2>1, <2>2, Zenon DEF Room
<1>. QED  BY <1>14, <1>15, <1>16, <1>17, <1>21, <1>22, Whole, Zenon

(***************************************************************************)
(* Answers of the receiving end.                                           *)
(***************************************************************************)
IntentStep ==
    /\ ba # <<>> /\ Head(ba).type = "intent" /\ ba' = Tail(ba)
    /\ riids' = IF Head(ba).iid \in DOMAIN riids THEN riids
                ELSE With(riids, Head(ba).iid,
                          [size |-> Head(ba).size, in_use |-> FALSE])
    /\ UNCHANGED <<pc, call, abort_tx, ab, liids, rx_queue, rx_pc, rx_cur,
                   defer_intents, owed>>

\* The sending end learns of an intent, whose buffer is empty.
LEMMA LearnsIntent ==
    ASSUME Inv, IntentStep
    PROVE  IdInv' /\ BufInv'
<1>types. SendTypes /\ WireTypes /\ RxTypes /\ IdrTypes
  BY Parts, Zenon
<1>single. SingleBa /\ SingleQueue /\ SingleAb /\ SingleThread
  BY Parts, Zenon
<1>known. Apart /\ Known
  BY Parts, Zenon
<1>sizes. Exists /\ Sizes /\ Reused
  BY Parts, Zenon
<1>room. Chunks /\ Room
  BY Parts, Zenon
<1> DEFINE i == Head(ba).iid
<1>1. /\ ba # <<>> /\ Head(ba).type = "intent" /\ ba' = Tail(ba)
      /\ riids' = IF i \in DOMAIN riids THEN riids
                  ELSE With(riids, i, [size |-> Head(ba).size, in_use |-> FALSE])
      /\ UNCHANGED <<pc, call, abort_tx, ab, liids, rx_queue, rx_pc, rx_cur,
                     defer_intents, owed>>
  BY Zenon DEF IntentStep
<1>2. /\ 1 \in DOMAIN ba /\ Head(ba) = ba[1]
      /\ Offered' \subseteq Offered /\ Returned' = Returned /\ SingleBa'
      /\ i \in Offered \ Offered'
      /\ \A k \in DOMAIN ba' : \E a \in DOMAIN ba : ba[a] = ba'[k]
  BY <1>types, <1>single, <1>1, BaTakes, Zenon
<1>3. i \notin DOMAIN riids
  BY <1>known, <1>2, Zenon DEF Known
<1>4. i \in DOMAIN liids /\ liids[i].offset = 0 /\ liids[i].size = Head(ba).size
  BY <1>sizes, <1>1, <1>2 DEF Exists, Sizes, IsIntent
<1>5. /\ DOMAIN riids' = DOMAIN riids \cup {i}
      /\ ~riids'[i].in_use /\ riids'[i].size = Head(ba).size
      /\ \A j \in DOMAIN riids : riids'[j] = riids[j]
  BY <1>1, <1>3, Zenon DEF With
<1> HIDE DEF i
<1>6. /\ Fresh' = Fresh /\ Flying' = Flying /\ Complete' = Complete
      /\ Queued' = Queued /\ Working' = Working /\ Sending' = Sending
      /\ Away' = Away
  BY <1>1, <1>2 DEF Fresh, Flying, Complete, Queued, Working, Sending, Away,
     IsData, IsLast, IsJob
<1>7. Single'
  BY <1>single, <1>1, <1>2, Zenon
     DEF Single, SingleQueue, SingleAb, SingleThread, IsJob, IsLast, IsData
<1>8. Apart'
  BY <1>known, <1>1, <1>2, <1>6, Zenon DEF Apart
<1>9. Known'
  <2>1. i \notin Fresh
    BY <1>known, <1>2, Zenon DEF Apart
  <2>2. (Fresh' \cup Offered') \cap DOMAIN riids' = {}
    BY <1>known, <1>2, <1>5, <1>6, <2>1 DEF Known
  <2>3. \A j \in Away \cup Complete \cup Sending :
           j \in DOMAIN riids' /\ riids'[j].in_use
    BY <1>known, <1>5, Zenon DEF Known
  <2>4. defer_intents' = Working' \cup owed' /\ Flying' \subseteq DOMAIN riids'
    BY <1>known, <1>1, <1>5, <1>6, Zenon DEF Known
  <2>. QED  BY <1>known, <1>6, <2>2, <2>3, <2>4, Zenon DEF Known
<1>10. Exists'
  BY <1>sizes, <1>1, <1>2, <1>4, <1>5, <1>6, Zenon DEF Exists, IsJob
<1>11. Sizes'
  <2>1. UNCHANGED <<liids, rx_pc, rx_cur>>
    BY <1>1, Zenon
  <2>2. \A k \in DOMAIN ba' : IsIntent(k)' => ba'[k].size = liids[ba'[k].iid].size
    BY <1>sizes, <1>2 DEF Sizes, IsIntent
  <2>3. \A j \in DOMAIN liids :
           j \in DOMAIN riids' => riids'[j].size = liids[j].size
    BY <1>sizes, <1>4, <1>5, Zenon DEF Sizes
  <2>. QED  BY <1>sizes, <2>1, <2>2, <2>3, Zenon DEF Sizes
<1>12. Reused' /\ Chunks'
  <2>1. ASSUME NEW k \in DOMAIN ba', IsDone(k)', ba'[k].reuse
        PROVE  ba'[k].iid \in DOMAIN liids /\ liids[ba'[k].iid].offset = 0
    <3>1. PICK a \in DOMAIN ba : ba[a] = ba'[k]
      BY <1>2, Zenon
    <3>. QED  BY <1>sizes, <2>1, <3>1, Zenon DEF Reused, IsDone
  <2>2. Reused'
    BY <1>sizes, <1>1, <1>6, <2>1, Zenon DEF Reused, IsJob
  <2>3. Chunks'
    BY <1>room, <1>1, Zenon DEF Chunks, IsData
  <2>. QED  BY <2>2, <2>3, Zenon
<1>13. Room'
  <2>1. i \notin Flying
    BY <1>known, <1>3, ZenonT(30) DEF Known
  <2>. QED  BY <1>room, <1>1, <1>4, <1>5, <1>6, <2>1, Zenon DEF Room, IsData
<1>. QED
  BY <1>7, <1>8, <1>9, <1>10, <1>11, <1>12, <1>13, Whole

DoneBackStep ==
    /\ ba # <<>> /\ Head(ba).type = "done" /\ ba' = Tail(ba)
    /\ \/ Head(ba).iid \notin DOMAIN riids
       \/ /\ Head(ba).reuse
          /\ riids' = [riids EXCEPT ![Head(ba).iid].in_use = FALSE]
       \/ ~Head(ba).reuse /\ riids' = Without(riids, Head(ba).iid)
    /\ UNCHANGED <<pc, call, abort_tx, ab, liids, rx_queue, rx_pc, rx_cur,
                   defer_intents, owed>>

\* RX_DONE frees an intent that is reusable, and then empty, and removes any
\* other.
LEMMA TakesBack ==
    ASSUME Inv, DoneBackStep
    PROVE  IdInv' /\ BufInv'
<1>types. SendTypes /\ WireTypes /\ RxTypes /\ IdrTypes
  BY Parts, Zenon
<1>single. SingleBa /\ SingleQueue /\ SingleAb /\ SingleThread
  BY Parts, Zenon
<1>known. Apart /\ Known
  BY Parts, Zenon
<1>sizes. Exists /\ Sizes /\ Reused
  BY Parts, Zenon
<1>room. Chunks /\ Room
  BY Parts, Zenon
<1> DEFINE i == Head(ba).iid
<1>1. /\ ba # <<>> /\ Head(ba).type = "done" /\ ba' = Tail(ba)
      /\ \/ i \notin DOMAIN riids
         \/ /\ Head(ba).reuse
            /\ riids' = [riids EXCEPT ![i].in_use = FALSE]
         \/ ~Head(ba).reuse /\ riids' = Without(riids, i)
      /\ UNCHANGED <<pc, call, abort_tx, ab, liids, rx_queue, rx_pc, rx_cur,
                     defer_intents, owed>>
  BY Zenon DEF DoneBackStep
<1>2. /\ 1 \in DOMAIN ba /\ Head(ba) = ba[1]
      /\ Offered' \subseteq Offered /\ Returned' \subseteq Returned /\ SingleBa'
      /\ i \in Returned \ Returned' /\ Returned \ {i} \subseteq Returned'
      /\ \A k \in DOMAIN ba' : \E a \in DOMAIN ba : ba[a] = ba'[k]
  BY <1>types, <1>single, <1>1, BaTakes, Zenon
<1>3. i \in DOMAIN riids
  BY <1>known, <1>2, Zenon DEF Known, Away
<1>4. /\ i \notin Flying /\ i \notin Complete /\ i \notin Sending
      /\ i \notin Queued /\ i \notin Working /\ i \notin owed
  <2>1. Complete \subseteq Flying
    BY Zenon DEF Complete, Flying, IsLast
  <2>. QED  BY <1>known, <1>2, <2>1, Zenon DEF Apart, Away
<1>5. Head(ba).reuse => i \in DOMAIN liids /\ liids[i].offset = 0
  BY <1>sizes, <1>1, <1>2 DEF Reused, IsDone
<1>6. /\ DOMAIN riids \ {i} \subseteq DOMAIN riids'
      /\ DOMAIN riids' \subseteq DOMAIN riids
      /\ \A j \in DOMAIN riids \ {i} : riids'[j] = riids[j]
      /\ i \in DOMAIN riids' =>
            /\ riids'[i].size = riids[i].size
            /\ i \in DOMAIN liids /\ liids[i].offset = 0
  <2>1. CASE Head(ba).reuse /\ riids' = [riids EXCEPT ![i].in_use = FALSE]
    <3> HIDE DEF i
    <3>. QED  BY <1>types, <1>3, <1>5, <2>1, MarkFacts, Zenon
  <2>2. CASE riids' = Without(riids, i)
    BY <2>2, Zenon DEF Without
  <2>. QED  BY <1>1, <1>3, <2>1, <2>2, Zenon
<1> HIDE DEF i
<1>7. /\ Fresh' = Fresh /\ Flying' = Flying /\ Complete' = Complete
      /\ Queued' = Queued /\ Working' = Working /\ Sending' = Sending
      /\ Away' \subseteq Away \ {i}
  BY <1>1, <1>2, <1>4 DEF Fresh, Flying, Complete, Queued, Working, Sending,
     Away, IsData, IsLast, IsJob
<1>8. Single'
  BY <1>single, <1>1, <1>2, Zenon
     DEF Single, SingleQueue, SingleAb, SingleThread, IsJob, IsLast, IsData
<1>9. Apart'
  BY <1>known, <1>1, <1>2, <1>7, Zenon DEF Apart
<1>10. Known'
  BY <1>known, <1>1, <1>2, <1>4, <1>6, <1>7 DEF Known
<1>11. Exists'
  BY <1>sizes, <1>1, <1>2, <1>6, <1>7, Zenon DEF Exists, IsJob
<1>12. Sizes'
  BY <1>sizes, <1>1, <1>2, <1>6 DEF Sizes, IsIntent
<1>13. Reused' /\ Chunks'
  BY <1>sizes, <1>room, <1>1, <1>2, <1>7
     DEF Reused, Chunks, IsJob, IsDone, IsData
<1>14. Room'
  BY <1>room, <1>1, <1>4, <1>6, <1>7 DEF Room, IsData
<1>. QED
  BY <1>8, <1>9, <1>10, <1>11, <1>12, <1>13, <1>14, Whole

(***************************************************************************)
(* The receiving end makes a buffer and fills it.                          *)
(***************************************************************************)
\* A chunk that does not end its message fills the buffer up.
LEMMA ReceivesChunk ==
    ASSUME Inv, DataStep, ab[1].left # 0
    PROVE  IdInv' /\ BufInv'
<1>types. SendTypes /\ WireTypes /\ RxTypes /\ IdrTypes
  BY Parts, Zenon
<1>single. SingleBa /\ SingleQueue /\ SingleAb /\ SingleThread
  BY Parts, Zenon
<1>known. Apart /\ Known
  BY Parts, Zenon
<1>sizes. Exists /\ Sizes /\ Reused
  BY Parts, Zenon
<1>room. Chunks /\ Room
  BY Parts, Zenon
<1> DEFINE i == ab[1].iid
<1>1. /\ ab # <<>> /\ Head(ab).type = "data" /\ ab' = Tail(ab)
      /\ UNCHANGED <<riids, pc, call, abort_tx, rx_pc, rx_cur, rx_queue, ba,
                     defer_intents, owed>>
  BY Zenon DEF DataStep, RxOutcome
<1>2. /\ 1 \in DOMAIN ab /\ ab[1] \in DataMsg /\ i \in Flying
      /\ i \in DOMAIN liids /\ liids[i] \in Liid
      /\ liids[i].offset + ab[1].chunk + ab[1].left <= liids[i].size
  BY <1>1, HeadHasRoom, Zenon
<1>3. /\ DOMAIN liids' = DOMAIN liids
      /\ \A j \in DOMAIN liids \ {i} : liids'[j] = liids[j]
      /\ liids'[i] = Filled(liids[i], ab[1])
  BY <1>2, RxLiids, Zenon
<1>4. /\ liids'[i].size = liids[i].size /\ liids'[i].reuse = liids[i].reuse
      /\ liids'[i].offset = liids[i].offset + ab[1].chunk
  BY <1>3, FilledFields
<1>5. i \notin Away /\ i \in DOMAIN riids /\ i \notin Fresh /\ i \notin Offered
  BY <1>known, <1>2, Zenon DEF Known, Apart
<1>6. /\ ab[1].chunk \in Nat /\ ab[1].left \in Nat
      /\ liids[i].offset \in Nat /\ liids[i].size \in Nat
  BY <1>2, Zenon DEF DataMsg, Liid
<1>7. /\ \A k \in DOMAIN ab' : k + 1 \in DOMAIN ab /\ ab'[k] = ab[k + 1]
                               /\ k \in Nat /\ 1 < k + 1
  <2>1. ab \in Seq(AbMsg)
    BY <1>types, Zenon DEF WireTypes
  <2>2. ab' \in Seq(AbMsg)
    BY <1>1, <2>1, TailFacts, Zenon
  <2>3. \A k \in DOMAIN ab' : k \in Nat /\ 1 < k + 1
    BY <2>2
  <2>. QED  BY <1>1, <2>1, <2>3, TailFacts
<1>8. Flying' \subseteq Flying /\ Complete' \subseteq Complete /\ SingleAb'
  BY <1>types, <1>single, <1>1, AbShrinks, AbFewer, Zenon DEF Single
<1> HIDE DEF i
<1>9. /\ Fresh' = Fresh /\ Offered' = Offered /\ Queued' = Queued
      /\ Working' = Working /\ Returned' = Returned /\ Sending' = Sending
      /\ Away' = Away
  BY <1>1 DEF Fresh, Offered, Queued, Working, Returned, Sending, Away,
     IsIntent, IsDone, IsJob
<1>10. Single'
  BY <1>single, <1>1, <1>8 DEF Single, SingleBa, SingleQueue, SingleThread,
     IsIntent, IsDone, IsJob
<1>11. Apart' /\ Known'
  BY <1>known, <1>1, <1>8, <1>9, Zenon DEF Apart, Known
<1>12. Exists'
  BY <1>sizes, <1>1, <1>3, <1>5, <1>9, Zenon DEF Exists, IsJob
<1>13. Sizes'
  <2>1. \A j \in DOMAIN liids : liids'[j].size = liids[j].size
    BY <1>3, <1>4, Zenon
  <2>2. \A k \in DOMAIN ba : IsIntent(k) => ba[k].iid \in DOMAIN liids
    BY <1>sizes, Zenon DEF Exists, Offered
  <2>3. rx_pc = "advertise" => rx_cur.iid \in DOMAIN liids
    BY <1>sizes, ZenonT(30) DEF Exists, Fresh
  <2>. QED  BY <1>sizes, <1>1, <1>3, <2>1, <2>2, <2>3 DEF Sizes, IsIntent
<1>14. Reused'
  <2>1. \A j \in DOMAIN liids : liids'[j].reuse = liids[j].reuse
    BY <1>3, <1>4, Zenon
  <2>2. \A k \in DOMAIN ba : IsDone(k) => ba[k].iid # i
    BY <1>5, Zenon DEF Returned, Away
  <2>. QED
    BY <1>sizes, <1>1, <1>3, <1>9, <2>1, <2>2 DEF Reused, IsJob, IsDone
<1>15. \A k \in DOMAIN ab : IsData(k) =>
          /\ ab[k].iid \in DOMAIN liids /\ ab[k].chunk \in Nat /\ ab[k].left \in Nat
  <2>1. SUFFICES ASSUME NEW k \in DOMAIN ab, IsData(k)
                 PROVE  /\ ab[k].iid \in DOMAIN liids
                        /\ ab[k].chunk \in Nat /\ ab[k].left \in Nat
    BY Zenon
  <2>2. ab[k] \in AbMsg
    BY <1>types DEF WireTypes
  <2>3. ab[k].iid \in DOMAIN liids
    BY <2>1, BufferExists, Zenon DEF Flying
  <2>. QED  BY <2>1, <2>2, <2>3, Zenon DEF AbMsg, DataMsg, IsData
<1>16. IsData(1)
  BY <1>2, Zenon DEF IsData, DataMsg
<1>17. Chunks'
  <2>1. \A j \in DOMAIN liids' : liids'[j].offset <= liids'[j].size
    BY <1>room, <1>2, <1>3, <1>4, <1>6 DEF Chunks
  <2>2. ASSUME NEW k \in DOMAIN ab', IsData(k)'
        PROVE  liids'[ab'[k].iid].offset + ab'[k].chunk + ab'[k].left
                  <= liids'[ab'[k].iid].size
    <3>1. k + 1 \in DOMAIN ab /\ ab'[k] = ab[k + 1] /\ IsData(k + 1) /\ 1 < k + 1
      BY <1>7, <2>2, Zenon DEF IsData
    <3>2. CASE ab[k + 1].iid # i
      BY <1>room, <1>3, <1>15, <3>1, <3>2, Zenon DEF Chunks
    <3>3. CASE ab[k + 1].iid = i
      <4>1. ab[k + 1].chunk + ab[k + 1].left <= ab[1].left
        BY <1>room, <1>2, <1>16, <3>1, <3>3, Zenon DEF Chunks, i
      <4>2. ab[k + 1].chunk \in Nat /\ ab[k + 1].left \in Nat
        BY <1>15, <3>1, Zenon
      <4>3. liids[i].offset + ab[1].chunk + ab[k + 1].chunk + ab[k + 1].left
               <= liids[i].size
        BY <1>2, <1>6, <4>1, <4>2
      <4>. QED  BY <1>4, <3>1, <3>3, <4>3, Zenon
    <3>. QED  BY <3>2, <3>3, Zenon
  <2>3. ASSUME NEW j \in DOMAIN ab', NEW k \in DOMAIN ab', IsData(j)', IsData(k)',
               ab'[j].iid = ab'[k].iid, j < k
        PROVE  ab'[k].chunk + ab'[k].left <= ab'[j].left
    <3>1. j + 1 < k + 1
      BY <1>7, <2>3
    <3>. QED  BY <1>room, <1>7, <2>3, <3>1, Zenon DEF Chunks, IsData
  <2>. QED  BY <1>room, <2>1, <2>2, <2>3, Zenon DEF Chunks
<1>18. Room'
  <2>1. SUFFICES ASSUME ~abort_tx PROVE Room'
    BY <1>room, <1>1, Zenon DEF Room
  <2>2. ASSUME NEW t \in Threads, pc[t] = "send"
        PROVE  /\ liids'[call[t].iid].offset + (call[t].len - call[t].offset)
                     <= liids'[call[t].iid].size
               /\ ~call[t].wait => /\ call[t].offset = 0
                                   /\ liids'[call[t].iid].offset = 0
                                   /\ call[t].iid \notin Flying'
    <3>1. CASE call[t].iid # i
      <4>1. call[t].iid \in DOMAIN liids
        BY <2>2, BufferExists, Zenon DEF Sending
      <4>. QED  BY <1>room, <1>3, <1>8, <2>1, <2>2, <3>1, <4>1, Zenon DEF Room
    <3>2. CASE call[t].iid = i
      <4>1. call[t].len - call[t].offset <= ab[1].left
        BY <1>room, <1>2, <1>16, <2>1, <2>2, <3>2, Zenon DEF Room, i
      <4>2. call[t].wait
        BY <1>room, <1>2, <2>1, <2>2, <3>2, Zenon DEF Room
      <4>3. call[t].len \in Nat /\ call[t].offset \in Nat
        BY <1>types, Zenon DEF SendTypes, CallRec
      <4>4. liids[i].offset + ab[1].chunk + (call[t].len - call[t].offset)
               <= liids[i].size
        BY <1>2, <1>6, <4>1, <4>3
      <4>. QED  BY <1>4, <3>2, <4>2, <4>4, Zenon
    <3>. QED  BY <3>1, <3>2, Zenon
  <2>3. \A j \in DOMAIN riids : ~riids[j].in_use =>
           liids'[j].offset = 0 /\ j \notin Flying'
    <3>1. \A j \in DOMAIN riids : ~riids[j].in_use =>
             j # i /\ j \in DOMAIN liids /\ liids[j].offset = 0 /\ j \notin Flying
      BY <1>room, <1>2, <2>1, BufferExists, Zenon DEF Room
    <3>. QED  BY <1>3, <1>8, <3>1, Zenon
  <2>4. \A t \in Threads : pc[t] = "send" =>
           \A k \in DOMAIN ab' : IsData(k)' /\ ab'[k].iid = call[t].iid =>
              call[t].len - call[t].offset <= ab'[k].left
    BY <1>room, <1>7, <2>1 DEF Room, IsData
  <2>. QED  BY <1>room, <1>1, <2>2, <2>3, <2>4, Zenon DEF Room
<1>. QED
  BY <1>10, <1>11, <1>12, <1>13, <1>14, <1>17, <1>18, Whole, Zenon

AllocStep ==
    /\ rx_pc = "idle" /\ rx_queue # <<>> /\ Head(rx_queue).kind = "alloc"
    /\ rx_queue' = Tail(rx_queue)
    /\ rx_cur' = [Head(rx_queue) EXCEPT !.iid = next_id]
    /\ liids' = With(liids, next_id,
                     [size |-> Head(rx_queue).size,
                      reuse |-> Head(rx_queue).reuse, offset |-> 0, ns |-> {}])
    /\ rx_pc' = "advertise"
    /\ UNCHANGED <<pc, call, abort_tx, riids, ab, ba, defer_intents, owed>>

\* A buffer with a new id.
LEMMA Allocates ==
    ASSUME Inv, AllocStep
    PROVE  IdInv' /\ BufInv'
<1>types. SendTypes /\ WireTypes /\ RxTypes /\ IdrTypes
  BY Parts, Zenon
<1>single. SingleBa /\ SingleQueue /\ SingleAb /\ SingleThread
  BY Parts, Zenon
<1>known. Apart /\ Known
  BY Parts, Zenon
<1>sizes. Exists /\ Sizes /\ Reused
  BY Parts, Zenon
<1>room. Chunks /\ Room
  BY Parts, Zenon
<1> DEFINE i == next_id
           h == Head(rx_queue)
<1>1. /\ rx_pc = "idle" /\ rx_queue # <<>> /\ h.kind = "alloc"
      /\ rx_queue' = Tail(rx_queue)
      /\ rx_cur' = [h EXCEPT !.iid = i]
      /\ liids' = With(liids, i, [size |-> h.size, reuse |-> h.reuse,
                                  offset |-> 0, ns |-> {}])
      /\ rx_pc' = "advertise"
      /\ UNCHANGED <<pc, call, abort_tx, riids, ab, ba, defer_intents, owed>>
  BY Zenon DEF AllocStep
<1>2. /\ SingleQueue' /\ Queued' = Queued
      /\ h \in DataJob \cup AllocJob
      /\ \A k \in DOMAIN rx_queue' :
            \E a \in DOMAIN rx_queue : rx_queue[a] = rx_queue'[k]
  BY <1>types, <1>single, <1>1, QueueTakes, Zenon
<1>3. rx_cur'.iid = i /\ rx_cur'.size = h.size
  BY <1>1, <1>2, Zenon DEF AllocJob, DataJob
<1>4. i \notin DOMAIN liids /\ i \notin DOMAIN riids
  BY <1>types DEF IdrTypes
<1>5. /\ DOMAIN liids' = DOMAIN liids \cup {i}
      /\ liids'[i].size = h.size /\ liids'[i].offset = 0
      /\ \A j \in DOMAIN liids : liids'[j] = liids[j]
  BY <1>1, <1>4, Zenon DEF With
<1>6. \A j \in Flying \cup Sending : j \in DOMAIN liids
  BY BufferExists, Zenon
<1>7. \A j \in DOMAIN riids : ~riids[j].in_use => j \in DOMAIN liids
  BY BufferExists, Zenon
<1> HIDE DEF i, h
<1>8. /\ Fresh' = {i} /\ Working' = {} /\ Working = {} /\ Flying' = Flying
      /\ Complete' = Complete /\ Sending' = Sending /\ Offered' = Offered
      /\ Returned' = Returned /\ Away' = Away
  BY <1>1, <1>2, <1>3 DEF Fresh, Flying, Complete, Working, Sending, Offered,
     Returned, Away, IsData, IsLast, IsIntent, IsDone
<1>9. i \notin Offered
  BY <1>sizes, <1>4, Zenon DEF Exists
<1>10. Single'
  BY <1>single, <1>1, <1>2 DEF Single, SingleBa, SingleAb, SingleThread,
     IsIntent, IsDone, IsLast, IsData
<1>11. Apart'
  BY <1>known, <1>1, <1>2, <1>8, <1>9, Zenon DEF Apart
<1>12. Known'
  BY <1>known, <1>1, <1>4, <1>8, Zenon DEF Known
<1>13. Exists'
  <2>1. \A k \in DOMAIN rx_queue' : IsJob(k)' =>
           rx_queue'[k].cb_irq_done \/ rx_queue'[k].iid \in DOMAIN liids
    BY <1>sizes, <1>2, Zenon DEF Exists, IsJob
  <2>2. riids' = riids /\ rx_pc' # "cb"
    BY <1>1, Zenon
  <2>3. \A j \in DOMAIN riids :
           j \in DOMAIN liids' \cup Queued' \cup Working' \cup Returned'
    BY <1>sizes, <1>2, <1>5, <1>8, Zenon DEF Exists
  <2>4. \A j \in Fresh' \cup Offered' : j \in DOMAIN liids' /\ liids'[j].offset = 0
    BY <1>sizes, <1>5, <1>8, Zenon DEF Exists
  <2>. QED  BY <1>sizes, <1>5, <2>1, <2>2, <2>3, <2>4, Zenon DEF Exists
<1>14. Sizes'
  <2>1. \A k \in DOMAIN ba : IsIntent(k) => ba[k].iid \in DOMAIN liids
    BY <1>sizes, Zenon DEF Exists, Offered
  <2>. QED  BY <1>sizes, <1>1, <1>3, <1>4, <1>5, <2>1, Zenon
               DEF Sizes, IsIntent
<1>15. Reused'
  <2>1. \A k \in DOMAIN rx_queue' : IsJob(k)' /\ rx_queue'[k].reuse =>
           rx_queue'[k].iid \in DOMAIN liids /\ liids[rx_queue'[k].iid].reuse
    BY <1>sizes, <1>2 DEF Reused, IsJob
  <2>2. ba' = ba
    BY <1>1, Zenon
  <2>. QED  BY <1>sizes, <1>5, <1>8, <2>1, <2>2, Zenon DEF Reused, IsDone
<1>16. Chunks'
  <2>1. \A k \in DOMAIN ab : IsData(k) => ab[k].iid \in DOMAIN liids
    BY <1>6, Zenon DEF Flying
  <2>2. liids'[i].offset <= liids'[i].size
    <3>1. h.size \in Nat
      BY <1>1, <1>2, Zenon DEF AllocJob, DataJob
    <3>. QED  BY <1>5, <3>1
  <2>. QED  BY <1>room, <1>1, <1>5, <2>1, <2>2, Zenon DEF Chunks, IsData
<1>17. Room'
  <2>1. \A t \in Threads : pc[t] = "send" => call[t].iid \in DOMAIN liids
    BY <1>6, Zenon DEF Sending
  <2>. QED  BY <1>room, <1>1, <1>5, <1>7, <1>8, <2>1, ZenonT(30) DEF Room, IsData
<1>. QED
  BY <1>10, <1>11, <1>12, <1>13, <1>14, <1>15, <1>16, <1>17, Whole, Zenon

AdvertiseStep ==
    /\ rx_pc = "advertise" /\ rx_pc' \in {"ack", "idle"}
    /\ ba' = Append(ba, [type |-> "intent", iid |-> rx_cur.iid,
                         size |-> rx_cur.size])
    /\ UNCHANGED <<pc, call, abort_tx, riids, ab, liids, rx_queue, rx_cur,
                   defer_intents, owed>>

\* The buffer is offered.
LEMMA Advertises ==
    ASSUME Inv, AdvertiseStep
    PROVE  IdInv' /\ BufInv'
<1>types. SendTypes /\ WireTypes /\ RxTypes /\ IdrTypes
  BY Parts, Zenon
<1>single. SingleBa /\ SingleQueue /\ SingleAb /\ SingleThread
  BY Parts, Zenon
<1>known. Apart /\ Known
  BY Parts, Zenon
<1>sizes. Exists /\ Sizes /\ Reused
  BY Parts, Zenon
<1>room. Chunks /\ Room
  BY Parts, Zenon
<1> DEFINE m == [type |-> "intent", iid |-> rx_cur.iid, size |-> rx_cur.size]
<1>1. /\ rx_pc = "advertise" /\ rx_pc' \in {"ack", "idle"}
      /\ ba' = Append(ba, m)
      /\ UNCHANGED <<pc, call, abort_tx, riids, ab, liids, rx_queue, rx_cur,
                     defer_intents, owed>>
  BY Zenon DEF AdvertiseStep
<1>2. m \in BaMsg /\ m.type = "intent" /\ m.iid = rx_cur.iid
      /\ m.size = rx_cur.size
  BY <1>types, <1>1, Zenon DEF BaMsg, RxTypes, AllocJob
<1>3. rx_cur.iid \in Fresh /\ rx_cur.iid \notin Offered
  BY <1>known, <1>1, Zenon DEF Fresh, Apart
<1> HIDE DEF m
<1>4. /\ Offered' = Offered \cup {rx_cur.iid} /\ Returned' = Returned
      /\ SingleBa'
      /\ \A k \in DOMAIN ba' : \/ ba'[k] = m
                               \/ \E a \in DOMAIN ba : ba[a] = ba'[k]
  BY <1>types, <1>single, <1>1, <1>2, <1>3, BaAdds, Zenon
<1>5. /\ Fresh' = {} /\ Fresh = {rx_cur.iid} /\ Flying' = Flying
      /\ Complete' = Complete /\ Queued' = Queued /\ Working' = {}
      /\ Working = {} /\ Sending' = Sending /\ Away' = Away
  BY <1>1, <1>4 DEF Fresh, Flying, Complete, Queued, Working, Sending, Away,
     IsData, IsLast, IsJob
<1>6. Single'
  BY <1>single, <1>1, <1>4, Zenon
     DEF Single, SingleQueue, SingleAb, SingleThread, IsJob, IsLast, IsData
<1>7. Apart' /\ Known'
  BY <1>known, <1>1, <1>4, <1>5, Zenon DEF Apart, Known
<1>8. Exists'
  <2>1. UNCHANGED <<riids, liids, rx_queue>> /\ rx_pc' # "cb"
    BY <1>1, Zenon
  <2>. QED  BY <1>sizes, <1>4, <1>5, <2>1, Zenon DEF Exists, IsJob
<1>9. Sizes'
  <2>1. UNCHANGED <<riids, liids>> /\ rx_pc' # "advertise"
    BY <1>1, Zenon
  <2>2. \A k \in DOMAIN ba' : IsIntent(k)' => ba'[k].size = liids[ba'[k].iid].size
    BY <1>sizes, <1>1, <1>2, <1>4 DEF Sizes, IsIntent
  <2>. QED  BY <1>sizes, <2>1, <2>2, Zenon DEF Sizes
<1>10. Reused'
  <2>1. UNCHANGED <<liids, rx_queue>>
    BY <1>1, Zenon
  <2>2. \A k \in DOMAIN ba' : IsDone(k)' =>
           \E a \in DOMAIN ba : IsDone(a) /\ ba[a] = ba'[k]
    BY <1>2, <1>4, Zenon DEF IsDone
  <2>. QED  BY <1>sizes, <1>5, <2>1, <2>2 DEF Reused, IsJob
<1>11. Chunks' /\ Room'
  BY <1>room, <1>1, <1>5, Zenon DEF Chunks, Room, IsData
<1>. QED  BY <1>6, <1>7, <1>8, <1>9, <1>10, <1>11, Whole, Zenon

(***************************************************************************)
(* Steps that move no intent.                                              *)
(***************************************************************************)
\* A step that moves no intent: messages about none are sent or taken, threads
\* move outside the sending loop, transmission is aborted.
Elsewhere ==
    /\ UNCHANGED <<riids, liids, owed, defer_intents, rx_cur>>
    /\ rx_pc' = rx_pc \/ (rx_pc = "ack" /\ rx_pc' = "idle")
    /\ \A t \in Threads : /\ pc'[t] = "send" <=> pc[t] = "send"
                          /\ pc[t] = "send" => call'[t] = call[t]
    /\ ~abort_tx' => ~abort_tx
    /\ ab' \in Seq(AbMsg) /\ SubAb /\ SubBa /\ SubQueue
    /\ Queued \subseteq Queued' /\ Returned \subseteq Returned'

\* Such a step disturbs nothing.
LEMMA StepElsewhere == Inv /\ Elsewhere => IdInv' /\ BufInv'
<1> SUFFICES ASSUME Inv, Elsewhere PROVE IdInv' /\ BufInv'
  BY Zenon
<1>types. SendTypes /\ WireTypes /\ RxTypes /\ IdrTypes
  BY Parts, Zenon
<1>single. SingleBa /\ SingleQueue /\ SingleAb /\ SingleThread
  BY Parts, Zenon
<1>known. Apart /\ Known
  BY Parts, Zenon
<1>sizes. Exists /\ Sizes /\ Reused
  BY Parts, Zenon
<1>room. Chunks /\ Room
  BY Parts, Zenon
<1>1. /\ Flying' \subseteq Flying /\ Complete' \subseteq Complete /\ SingleAb'
      /\ Offered' \subseteq Offered /\ Returned' = Returned /\ SingleBa'
      /\ Queued' = Queued /\ SingleQueue'
  BY <1>single, AbFewer, BaFewer, QueueFewer, Zenon DEF Elsewhere, Single
<1>2. Working' = Working /\ Fresh' = Fresh /\ Sending' = Sending
  BY Zenon DEF Elsewhere, Working, Fresh, Sending
<1>3. SingleThread'
  BY <1>single DEF Elsewhere, SingleThread, Single
<1>4. Apart'
  BY <1>known, <1>1, <1>2, Zenon DEF Elsewhere, Apart, Away
<1>5. Known'
  BY <1>known, <1>1, <1>2, Zenon DEF Elsewhere, Known, Away
<1>6. Exists'
  BY <1>sizes, <1>1, <1>2 DEF Elsewhere, Exists, SubQueue, IsJob
<1>7. Sizes'
  BY <1>sizes DEF Elsewhere, Sizes, SubBa, IsIntent
<1>8. Reused'
  BY <1>sizes, <1>2 DEF Elsewhere, Reused, SubQueue, SubBa, IsJob, IsDone
<1>9. Chunks'
  <2>1. \A j, k \in DOMAIN ab' :
           ab'[j].type = "data" /\ ab'[k].type = "data" /\ j < k =>
              \E a, b \in DOMAIN ab : ab[a] = ab'[j] /\ ab[b] = ab'[k] /\ a < b
    <3>1. DOMAIN ab \subseteq Nat /\ DOMAIN ab' \subseteq Nat
      BY <1>types DEF Elsewhere, WireTypes
    <3>. QED  BY <3>1 DEF Elsewhere, SubAb
  <2>2. \A k \in DOMAIN ab' : ab'[k].type = "data" =>
           \E a \in DOMAIN ab : ab[a] = ab'[k]
    BY ZenonT(30) DEF Elsewhere, SubAb
  <2>. QED  BY <1>room, <2>1, <2>2 DEF Elsewhere, Chunks, IsData
<1>10. Room'
  BY <1>room, <1>1 DEF Elsewhere, Room, SubAb, IsData
<1>. QED
  BY <1>single, <1>1, <1>3, <1>4, <1>5, <1>6, <1>7, <1>8, <1>9, <1>10, Whole
     DEF Single
=============================================================================
