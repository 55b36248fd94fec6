------------------------ MODULE GlinkIntentReceiving ------------------------
(***************************************************************************)
(* Lemmas about the state of a channel, and the proof that what its        *)
(* receiving end does to the intents keeps the invariant.                  *)
(***************************************************************************)
EXTENDS GlinkIntentInv, TLAPS

\* The time a leaf may take, in seconds.
USE SMTT(20)

\* The conjuncts of the invariant, and how they make it up again.
LEMMA Parts ==
    ASSUME Inv
    PROVE  /\ SendTypes /\ WireTypes /\ RxTypes /\ IdrTypes
           /\ SingleBa /\ SingleQueue /\ SingleAb /\ SingleThread
           /\ Apart /\ Known /\ Exists /\ Sizes /\ Reused /\ Chunks /\ Room
BY Zenon DEF Inv, Types, IdInv, Single, BufInv

\* The parts make up the invariant of the next state.
LEMMA Whole ==
    ASSUME Single', Apart', Known', Exists', Sizes', Reused', Chunks', Room'
    PROVE  IdInv' /\ BufInv'
BY Zenon DEF IdInv, BufInv

\* The buffers of intents that are free, being sent into or under way exist.
LEMMA BufferExists ==
    ASSUME Inv
    PROVE  /\ \A i \in Flying \cup Sending : i \in DOMAIN liids
           /\ \A i \in DOMAIN riids : ~riids[i].in_use => i \in DOMAIN liids
<1>1. \A i \in Flying \cup Sending : i \in DOMAIN riids /\ i \notin Away
  BY Zenon DEF Inv, IdInv, Known, Apart
<1>2. \A i \in DOMAIN riids : ~riids[i].in_use => i \notin Away
  BY Zenon DEF Inv, IdInv, Known
<1>. QED  BY <1>1, <1>2, Zenon DEF Inv, BufInv, Exists, Away

\* A pipe that loses messages, or gets ones that are about no intent.
SubAb ==
    \A j, k \in DOMAIN ab' :
        ab'[j].type = "data" /\ ab'[k].type = "data" =>
            \E a, b \in DOMAIN ab : /\ ab[a] = ab'[j] /\ ab[b] = ab'[k]
                                    /\ j <= k <=> a <= b

\* Then fewer intents are under way.
LEMMA AbFewer ==
    ASSUME SubAb, SingleAb
    PROVE  Flying' \subseteq Flying /\ Complete' \subseteq Complete /\ SingleAb'
<1>1. Flying' \subseteq Flying
  BY DEF SubAb, Flying, IsData
<1>2. Complete' \subseteq Complete
  BY DEF SubAb, Complete, IsLast, IsData
<1>3. SingleAb'
  BY DEF SubAb, SingleAb, IsLast, IsData
<1>. QED  BY <1>1, <1>2, <1>3, Zenon

(***************************************************************************)
(* The receiving end passes on a buffer it has: intent i moves between the *)
(* places of Away, or into them, and nothing else does.  What the step     *)
(* leaves alone, the buffers, the places, the jobs of the queue and the    *)
(* messages on their way back:                                             *)
(***************************************************************************)
Around(i) ==
    /\ UNCHANGED <<riids, pc, call, abort_tx>>
    /\ i \in DOMAIN riids /\ riids[i].in_use /\ i \notin Sending
    /\ ab' \in Seq(AbMsg) /\ SubAb /\ i \notin Flying'
    /\ \/ rx_pc' = "idle" /\ rx_pc # "advertise"
       \/ UNCHANGED <<rx_pc, rx_cur>> /\ i \notin Working
    /\ Working' \ {i} = Working \ {i} /\ i \notin Working'

OneBuffer(i) ==
    /\ DOMAIN liids' \subseteq DOMAIN liids
    /\ \A j \in DOMAIN liids \ {i} : j \in DOMAIN liids' /\ liids'[j] = liids[j]
    /\ i \in DOMAIN liids' => /\ liids'[i].size = liids[i].size
                              /\ liids'[i].offset <= liids'[i].size

OnePlace(i) ==
    /\ Offered' = Offered /\ SingleBa' /\ SingleQueue'
    /\ Queued' \ {i} = Queued \ {i}
    /\ owed' \ {i} = owed \ {i} /\ Returned' \ {i} = Returned \ {i}
    /\ i \notin Queued' \cap owed' /\ i \notin Queued' \cap Returned'
    /\ i \notin owed' \cap Returned'
    /\ i \in DOMAIN liids' \cup Queued' \cup Returned'
    /\ defer_intents' = Working' \cup owed'

OneJob(i) ==
    \A k \in DOMAIN rx_queue' : IsJob(k)' =>
        \/ \E a \in DOMAIN rx_queue : rx_queue[a] = rx_queue'[k]
                                      /\ rx_queue[a].iid # i
        \/ /\ rx_queue'[k].iid = i
           /\ rx_queue'[k].cb_irq_done \/ i \in DOMAIN liids'
           /\ rx_queue'[k].reuse => i \in DOMAIN liids' /\ liids'[i].reuse

OneDone(i) ==
    \A k \in DOMAIN ba' :
        \/ \E a \in DOMAIN ba : ba[a] = ba'[k] /\ (IsDone(a) => ba[a].iid # i)
        \/ /\ IsDone(k)' /\ ba'[k].iid = i
           /\ ba'[k].reuse => i \in DOMAIN liids' /\ liids'[i].offset = 0

OneIntent(i) ==
    Around(i) /\ OneBuffer(i) /\ OnePlace(i) /\ OneJob(i) /\ OneDone(i)

\* Such a step keeps the invariant.
LEMMA StepOneIntent ==
    ASSUME Inv, NEW i, OneIntent(i)
    PROVE  IdInv' /\ BufInv'
<1>types. SendTypes /\ WireTypes /\ RxTypes /\ IdrTypes
  BY Parts, Zenon
<1>single. SingleBa /\ SingleQueue /\ SingleAb /\ SingleThread
  BY Parts, Zenon
<1>known. Apart /\ Known
  BY Parts, Zenon
<1>sizes. Exists /\ Sizes /\ Reused
  BY Parts, Zenon
<1>room. Chunks /\ Room
  BY Parts, Zenon
<1>around. Around(i)
  BY Zenon DEF OneIntent
<1>buffer. OneBuffer(i) /\ OnePlace(i)
  BY Zenon DEF OneIntent
<1>queues. OneJob(i) /\ OneDone(i)
  BY Zenon DEF OneIntent
<1>1. /\ UNCHANGED <<riids, pc, call, abort_tx>>
      /\ i \in DOMAIN riids /\ riids[i].in_use /\ i \notin Sending
      /\ i \notin Flying' /\ Offered' = Offered
      /\ Queued' \ {i} = Queued \ {i} /\ Working' \ {i} = Working \ {i}
      /\ owed' \ {i} = owed \ {i} /\ Returned' \ {i} = Returned \ {i}
      /\ i \notin Queued' \cap owed' /\ i \notin Queued' \cap Returned'
      /\ i \notin owed' \cap Returned' /\ i \notin Working'
      /\ defer_intents' = Working' \cup owed'
  BY <1>around, <1>buffer, Zenon DEF Around, OnePlace
<1>2. /\ DOMAIN liids' \subseteq DOMAIN liids
      /\ \A j \in DOMAIN liids \ {i} : j \in DOMAIN liids' /\ liids'[j] = liids[j]
      /\ i \in DOMAIN liids' => /\ liids'[i].size = liids[i].size
                                /\ liids'[i].offset <= liids'[i].size
      /\ i \in DOMAIN liids' \cup Queued' \cup Returned'
  BY <1>buffer, Zenon DEF OneBuffer, OnePlace
<1>3. /\ Flying' \subseteq Flying /\ Complete' \subseteq Complete /\ SingleAb'
      /\ Complete' \subseteq Flying'
  <2>1. Complete' \subseteq Flying'
    BY Zenon DEF Complete, Flying, IsLast, IsData
  <2>. QED  BY <1>around, <1>single, <2>1, AbFewer, Zenon DEF Around, Single
<1>4. Fresh' = Fresh /\ Sending' = Sending
  <2>1. \/ rx_pc' = "idle" /\ rx_pc # "advertise"
        \/ UNCHANGED <<rx_pc, rx_cur>>
    BY <1>around, Zenon DEF Around
  <2>2. Fresh' = Fresh
    BY <2>1, Zenon DEF Fresh
  <2>3. Sending' = Sending
    BY <1>1, Zenon DEF Sending
  <2>. QED  BY <2>2, <2>3, Zenon
<1>5. i \notin Fresh /\ i \notin Offered
  BY <1>known, <1>1, Zenon DEF Known
<1>6. Away' \subseteq Away \cup {i}
  BY <1>1, Zenon DEF Away
<1>7. Single'
  BY <1>buffer, <1>single, <1>1, <1>3, Zenon DEF OnePlace, Single, SingleThread
<1>8. Apart'
  <2>1. /\ Queued' \cap Working' = {} /\ Queued' \cap owed' = {}
        /\ Queued' \cap Returned' = {} /\ Working' \cap owed' = {}
        /\ Working' \cap Returned' = {} /\ owed' \cap Returned' = {}
    BY <1>known, <1>1 DEF Apart
  <2>2. /\ Away' \cap Flying' = {} /\ Away' \cap Sending' = {}
        /\ Complete' \cap Sending' = {} /\ Fresh' \cap Offered' = {}
    BY <1>known, <1>1, <1>3, <1>4, <1>6 DEF Apart
  <2>. QED  BY <1>known, <2>1, <2>2, Zenon DEF Apart
<1>9. Known'
  BY <1>known, <1>1, <1>3, <1>4, <1>6, Zenon DEF Known
<1>10. Exists'
  <2>1. \A j \in DOMAIN riids :
           j \in DOMAIN liids' \cup Queued' \cup Working' \cup Returned'
    BY <1>sizes, <1>1, <1>2, Zenon DEF Exists
  <2>2. \A j \in Fresh' \cup Offered' : j \in DOMAIN liids' /\ liids'[j].offset = 0
    BY <1>sizes, <1>1, <1>2, <1>4, <1>5, Zenon DEF Exists
  <2>3. \A k \in DOMAIN rx_queue' : IsJob(k)' =>
           rx_queue'[k].cb_irq_done \/ rx_queue'[k].iid \in DOMAIN liids'
    BY <1>queues, <1>sizes, <1>2 DEF OneJob, Exists, IsJob
  <2>4. rx_pc' = "cb" => rx_cur'.iid \in DOMAIN liids'
    BY <1>around, <1>sizes, <1>1, <1>2, Zenon DEF Around, Working, Exists
  <2>. QED  BY <1>sizes, <1>1, <2>1, <2>2, <2>3, <2>4, Zenon DEF Exists
<1>11. Sizes'
  <2>1. \A j \in DOMAIN liids' :
           j \in DOMAIN riids => riids[j].size = liids'[j].size
    BY <1>sizes, <1>2, Zenon DEF Sizes
  <2>2. \A k \in DOMAIN ba' : IsIntent(k)' =>
           \E a \in DOMAIN ba : ba[a] = ba'[k] /\ IsIntent(a)
    BY <1>queues, Zenon DEF OneDone, IsIntent, IsDone
  <2>3. \A a \in DOMAIN ba : IsIntent(a) =>
           liids'[ba[a].iid].size = liids[ba[a].iid].size
    BY <1>sizes, <1>2, <1>5, Zenon DEF Offered, Exists
  <2>4. rx_pc' = "advertise" => rx_cur'.size = liids'[rx_cur'.iid].size
    <3>1. rx_pc' = "advertise" => rx_pc = "advertise" /\ rx_cur' = rx_cur
      BY <1>around, Zenon DEF Around
    <3>2. rx_pc = "advertise" => liids'[rx_cur.iid] = liids[rx_cur.iid]
      BY <1>sizes, <1>2, <1>5, Zenon DEF Fresh, Exists
    <3>. QED  BY <1>sizes, <3>1, <3>2, Zenon DEF Sizes
  <2>. QED  BY <1>sizes, <1>1, <2>1, <2>2, <2>3, <2>4 DEF Sizes
<1>12. Reused'
  <2>1. \A k \in DOMAIN rx_queue' : IsJob(k)' /\ rx_queue'[k].reuse =>
           rx_queue'[k].iid \in DOMAIN liids' /\ liids'[rx_queue'[k].iid].reuse
    BY <1>queues, <1>sizes, <1>2 DEF OneJob, Reused, IsJob
  <2>2. Working' # {} /\ rx_cur'.reuse =>
           rx_cur'.iid \in DOMAIN liids' /\ liids'[rx_cur'.iid].reuse
    BY <1>around, <1>sizes, <1>2, Zenon DEF Around, Working, Reused
  <2>3. \A k \in DOMAIN ba' : IsDone(k)' /\ ba'[k].reuse =>
           ba'[k].iid \in DOMAIN liids' /\ liids'[ba'[k].iid].offset = 0
    BY <1>queues, <1>sizes, <1>2 DEF OneDone, Reused, IsDone
  <2>. QED  BY <1>sizes, <2>1, <2>2, <2>3, Zenon DEF Reused
<1>13. \A k \in DOMAIN ab' : IsData(k)' =>
          ab'[k].iid # i /\ ab'[k].iid \in DOMAIN liids
  <2>1. \A j \in Flying' : j # i /\ j \in DOMAIN liids
    BY <1>1, <1>3, BufferExists, Zenon
  <2>. QED  BY <2>1, Zenon DEF Flying
<1>14. Chunks'
  <2>1. \A j, k \in DOMAIN ab' :
           IsData(j)' /\ IsData(k)' /\ j < k =>
              \E a, b \in DOMAIN ab : ab[a] = ab'[j] /\ ab[b] = ab'[k] /\ a < b
    <3>1. DOMAIN ab \subseteq Nat /\ DOMAIN ab' \subseteq Nat
      BY <1>around, <1>types DEF Around, WireTypes
    <3>. QED  BY <1>around, <3>1 DEF Around, SubAb, IsData
  <2>2. \A k \in DOMAIN ab' : IsData(k)' => \E a \in DOMAIN ab : ab[a] = ab'[k]
    BY <1>around, Zenon DEF Around, SubAb, IsData
  <2>3. \A k \in DOMAIN ab' : IsData(k)' =>
           liids'[ab'[k].iid].offset + ab'[k].chunk + ab'[k].left
              <= liids'[ab'[k].iid].size
    BY <1>room, <1>2, <1>13, <2>2 DEF Chunks, IsData
  <2>4. \A j, k \in DOMAIN ab' :
           IsData(j)' /\ IsData(k)' /\ ab'[j].iid = ab'[k].iid /\ j < k =>
              ab'[k].chunk + ab'[k].left <= ab'[j].left
    BY <1>room, <2>1 DEF Chunks, IsData
  <2>5. \A j \in DOMAIN liids' : liids'[j].offset <= liids'[j].size
    <3>1. \A j \in DOMAIN liids : liids[j].offset <= liids[j].size
      BY <1>room, Zenon DEF Chunks
    <3>. QED  BY <1>2, <3>1, Zenon
  <2>. QED  BY <1>room, <2>3, <2>4, <2>5, Zenon DEF Chunks
<1>15. Room'
  <2>1. \A t \in Threads : pc[t] = "send" =>
           call[t].iid # i /\ call[t].iid \in DOMAIN liids
    BY <1>1, BufferExists, Zenon DEF Sending
  <2>2. \A t \in Threads : pc[t] = "send" =>
           liids'[call[t].iid] = liids[call[t].iid]
    BY <1>2, <2>1, Zenon
  <2>3. \A j \in DOMAIN riids : ~riids[j].in_use => liids'[j] = liids[j]
    BY <1>1, <1>2, BufferExists, Zenon
  <2>4. \A k \in DOMAIN ab' : IsData(k)' =>
           \E a \in DOMAIN ab : IsData(a) /\ ab[a] = ab'[k]
    BY <1>around DEF Around, SubAb, IsData
  <2>. QED  BY <1>room, <1>1, <1>3, <2>2, <2>3, <2>4 DEF Room
<1>. QED
  BY <1>7, <1>8, <1>9, <1>10, <1>11, <1>12, <1>14, <1>15, Whole, Zenon

(***************************************************************************)
(* Sequences and idrs.                                                     *)
(***************************************************************************)
\* A function on an initial segment of the numbers is a sequence.
LEMMA SeqDef == \A M : \A n \in Nat : \A f \in [1 .. n -> M] : f \in Seq(M)
OBVIOUS

\* Taking the head off a queue.
LEMMA TailFacts ==
    ASSUME NEW M, NEW s \in Seq(M), s # <<>>
    PROVE  /\ 1 \in DOMAIN s /\ Head(s) = s[1] /\ s[1] \in M
           /\ Tail(s) \in Seq(M)
           /\ \A k \in DOMAIN Tail(s) :
                 k + 1 \in DOMAIN s /\ Tail(s)[k] = s[k + 1] /\ k \in Nat
           /\ \A k \in DOMAIN s :
                 k # 1 => k - 1 \in DOMAIN Tail(s) /\ Tail(s)[k - 1] = s[k]
           /\ \A k \in DOMAIN s : k \in Nat \ {0} /\ s[k] \in M
OBVIOUS

\* Adding to its end.
LEMMA AppendType == \A M : \A s \in Seq(M), e \in M : Append(s, e) \in Seq(M)
OBVIOUS

\* What it holds then.
LEMMA AppendFacts ==
    ASSUME NEW M, NEW s \in Seq(M), NEW e \in M
    PROVE  /\ Append(s, e) \in Seq(M)
           /\ DOMAIN Append(s, e) = DOMAIN s \cup {Len(s) + 1}
           /\ Append(s, e)[Len(s) + 1] = e
           /\ \A k \in DOMAIN s : /\ Append(s, e)[k] = s[k]
                                  /\ k \in Nat /\ k < Len(s) + 1
           /\ Len(s) \in Nat
OBVIOUS

\* __qcom_glink_rx_done touches one intent: it empties it, or removes it.
LEMMA ReleasedFacts ==
    ASSUME NEW f, NEW id
    PROVE  LET g == Released(f, id)
           IN  /\ DOMAIN f \ {id} \subseteq DOMAIN g
               /\ DOMAIN g \subseteq DOMAIN f
               /\ \A i \in DOMAIN f \ {id} : g[i] = f[i]
               /\ id \in DOMAIN f /\ f[id].reuse =>
                     id \in DOMAIN g /\ g[id] = Emptied(f[id])
               /\ id \in DOMAIN g => f[id].reuse /\ g[id] = Emptied(f[id])
<1>1. CASE id \notin DOMAIN f
  <2>1. Released(f, id) = f
    BY <1>1, Zenon DEF Released
  <2>. QED  BY <1>1, <2>1, Zenon
<1>2. CASE id \in DOMAIN f /\ f[id].reuse
  <2>1. Released(f, id) = [f EXCEPT ![id] = Emptied(f[id])]
    BY <1>2, Zenon DEF Released
  <2>. QED  BY <1>2, <2>1, Zenon
<1>3. CASE id \in DOMAIN f /\ ~f[id].reuse
  <2>1. Released(f, id) = Without(f, id)
    BY <1>3, Zenon DEF Released
  <2>2. /\ DOMAIN Released(f, id) = DOMAIN f \ {id}
        /\ \A i \in DOMAIN f \ {id} : Released(f, id)[i] = f[i]
    BY <2>1, Zenon DEF Without
  <2>. QED  BY <1>3, <2>2, Zenon
<1>. QED  BY <1>1, <1>2, <1>3, Zenon

\* What is left are intents.
LEMMA ReleasedType ==
    ASSUME NEW f, f \in [DOMAIN f -> Liid], NEW id \in DOMAIN f
    PROVE  Released(f, id) \in [DOMAIN Released(f, id) -> Liid]
<1>1. CASE Released(f, id) = Without(f, id)
  BY <1>1, Zenon DEF Without
<1>2. CASE Released(f, id) = [f EXCEPT ![id] = Emptied(f[id])]
  <2>1. f[id] \in Liid
    BY Zenon
  <2>2. Emptied(f[id]) \in Liid
    BY <2>1, Zenon DEF Emptied, Liid
  <2>. QED  BY <1>2, <2>2, Zenon
<1>. QED  BY <1>1, <1>2, Zenon DEF Released

FilledBy(m) == [liids EXCEPT ![m.iid] = Filled(@, m)]

\* What becomes of a chunk that has room.
RxOutcome(m, id) ==
    \/ /\ m.left # 0 /\ liids' = FilledBy(m)
       /\ UNCHANGED <<rx_queue, ba, defer_intents, owed>>
    \/ /\ m.left = 0 /\ liids' = FilledBy(m)
       /\ rx_queue' = Append(rx_queue, ToDeliver(id, liids[id].reuse, FALSE))
       /\ UNCHANGED <<ba, defer_intents, owed>>
    \/ /\ m.left = 0 /\ defer_intents' = defer_intents \cup {id}
       /\ owed' = owed \cup {id}
       /\ liids' = [FilledBy(m) EXCEPT ![id] = Emptied(FilledBy(m)[id])]
       /\ UNCHANGED <<rx_queue, ba>>
    \/ /\ m.left = 0 /\ ba' = Append(ba, DoneMsg(id, FilledBy(m)[id].reuse))
       /\ liids' = Released(FilledBy(m), id)
       /\ UNCHANGED <<rx_queue, defer_intents, owed>>
    \/ /\ m.left = 0
       /\ rx_queue' = Append(rx_queue,
                             ToDeliver(id, FilledBy(m)[id].reuse, TRUE))
       /\ liids' = Released(FilledBy(m), id)
       /\ UNCHANGED <<ba, defer_intents, owed>>

DataStep ==
    /\ ab # <<>> /\ Head(ab).type = "data" /\ ab' = Tail(ab)
    /\ RxOutcome(ab[1], ab[1].iid)
    /\ UNCHANGED <<riids, pc, call, abort_tx, rx_pc, rx_cur>>

\* The head of the pipe has room in its intent, which is not away.
LEMMA HeadHasRoom ==
    ASSUME Inv, ab # <<>>, Head(ab).type = "data"
    PROVE  /\ Head(ab) = ab[1] /\ 1 \in DOMAIN ab /\ ab[1] \in DataMsg
           /\ ab[1].iid \in Flying /\ ab[1].iid \in DOMAIN liids
           /\ liids[ab[1].iid] \in Liid
           /\ liids[ab[1].iid].offset + ab[1].chunk + ab[1].left
                 <= liids[ab[1].iid].size
           /\ ~Dropped(Head(ab))
<1>1. Head(ab) = ab[1] /\ 1 \in DOMAIN ab /\ ab[1] \in AbMsg
  BY TailFacts, Zenon DEF Inv, Types, WireTypes
<1>2. ab[1] \in DataMsg
  BY <1>1, Zenon DEF AbMsg, DataMsg
<1>3. ab[1].iid \in Flying
  BY <1>1, Zenon DEF Flying, IsData
<1>4. ab[1].iid \in DOMAIN liids
  BY <1>3, Zenon DEF Inv, IdInv, Known, Apart, Away, BufInv, Exists
<1>5. liids[ab[1].iid] \in Liid
  BY <1>4, Zenon DEF Inv, Types, IdrTypes
<1>6. liids[ab[1].iid].offset + ab[1].chunk + ab[1].left
         <= liids[ab[1].iid].size
  BY <1>1, Zenon DEF Inv, BufInv, Chunks, IsData
<1>7. ~Dropped(Head(ab))
  BY <1>1, <1>2, <1>4, <1>5, <1>6 DEF Dropped, Liid, DataMsg
<1>. QED  BY <1>1, <1>2, <1>3, <1>4, <1>5, <1>6, <1>7, Zenon

\* A chunk is added to its buffer and no other.
LEMMA FilledFacts ==
    ASSUME IdrTypes, NEW m \in DataMsg, m.iid \in DOMAIN liids
    PROVE  /\ DOMAIN FilledBy(m) = DOMAIN liids
           /\ FilledBy(m)[m.iid] = Filled(liids[m.iid], m)
           /\ \A j \in DOMAIN liids \ {m.iid} : FilledBy(m)[j] = liids[j]
           /\ Filled(liids[m.iid], m) \in Liid
<1>1. liids[m.iid] \in Liid
  BY Zenon DEF IdrTypes
<1>2. Filled(liids[m.iid], m) \in Liid
  BY <1>1 DEF Filled, Liid, DataMsg
<1>. QED  BY <1>2, Zenon DEF FilledBy

\* The fields of a buffer after a copy, and after it is emptied.
LEMMA FilledFields ==
    ASSUME NEW b, NEW m
    PROVE  /\ Filled(b, m).size = b.size /\ Filled(b, m).reuse = b.reuse
           /\ Filled(b, m).offset = b.offset + m.chunk
           /\ Filled(b, m).ns = b.ns \cup {m.n}
BY Zenon DEF Filled

\* A buffer that is emptied keeps its size and can be written from the start.
LEMMA EmptiedFields ==
    ASSUME NEW b
    PROVE  /\ Emptied(b).size = b.size /\ Emptied(b).reuse = b.reuse
           /\ Emptied(b).offset = 0 /\ Emptied(b).ns = {}
BY Zenon DEF Emptied

\* What the handler queues for the thread.
LEMMA ToDeliverFacts ==
    ASSUME NEW i \in Nat, NEW r \in BOOLEAN, NEW done \in BOOLEAN
    PROVE  /\ ToDeliver(i, r, done) \in DataJob
           /\ ToDeliver(i, r, done).iid = i /\ ToDeliver(i, r, done).reuse = r
           /\ ToDeliver(i, r, done).cb_irq_done = done
BY Zenon DEF ToDeliver, DataJob

\* RX_DONE carries the id of the buffer and whether it may be used again.
LEMMA DoneMsgFacts ==
    ASSUME NEW i \in Nat, NEW r \in BOOLEAN
    PROVE  /\ DoneMsg(i, r) \in BaMsg /\ DoneMsg(i, r).type = "done"
           /\ DoneMsg(i, r).iid = i /\ DoneMsg(i, r).reuse = r
BY Zenon DEF DoneMsg, BaMsg

\* What qcom_glink_rx_data does to the buffers.
LEMMA RxLiids ==
    ASSUME Inv, DataStep, NEW i, i = ab[1].iid
    PROVE  /\ DOMAIN liids' \subseteq DOMAIN liids
           /\ \A j \in DOMAIN liids \ {i} :
                 j \in DOMAIN liids' /\ liids'[j] = liids[j]
           /\ liids[i].reuse => i \in DOMAIN liids'
           /\ i \in DOMAIN liids' =>
                 \/ liids'[i] = Filled(liids[i], ab[1])
                 \/ liids'[i] = Emptied(Filled(liids[i], ab[1])) /\ ab[1].left = 0
           /\ ab[1].left # 0 =>
                 i \in DOMAIN liids' /\ liids'[i] = Filled(liids[i], ab[1])
<1> DEFINE f == FilledBy(ab[1])
<1>1. /\ ab[1] \in DataMsg /\ i \in DOMAIN liids /\ liids[i] \in Liid
      /\ RxOutcome(ab[1], i)
  BY HeadHasRoom, Zenon DEF DataStep
<1>2. /\ DOMAIN f = DOMAIN liids /\ f[i] = Filled(liids[i], ab[1])
      /\ \A j \in DOMAIN liids \ {i} : f[j] = liids[j]
  BY <1>1, FilledFacts, Zenon DEF Inv, Types
<1>3. f[i].reuse = liids[i].reuse
  BY <1>2, FilledFields
<1> HIDE DEF f
<1>4. CASE liids' = f
  BY <1>1, <1>2, <1>4, Zenon
<1>5. CASE liids' = [f EXCEPT ![i] = Emptied(f[i])] /\ ab[1].left = 0
  BY <1>1, <1>2, <1>5, Zenon
<1>6. CASE liids' = Released(f, i) /\ ab[1].left = 0
  BY <1>1, <1>2, <1>3, <1>6, ReleasedFacts
<1>. QED  BY <1>1, <1>4, <1>5, <1>6, Zenon DEF RxOutcome, f

\* A buffer that the client keeps exists.
LEMMA OwedExists == Inv => \A i \in owed : i \in DOMAIN liids
BY Zenon DEF Inv, IdInv, Known, Apart, Away, BufInv, Exists

\* What the head of the pipe back is about.
LEMMA HeadOfBa ==
    ASSUME Inv, ba # <<>>
    PROVE  /\ Head(ba) = ba[1] /\ 1 \in DOMAIN ba /\ ba[1] \in BaMsg
           /\ ba[1].type = "intent" =>
                /\ ba[1].iid \in Offered /\ ba[1].iid \in DOMAIN liids
                /\ ba[1].iid \notin DOMAIN riids
                /\ ba[1].size \in Nat /\ ba[1].size = liids[ba[1].iid].size
                /\ liids[ba[1].iid].offset = 0
           /\ ba[1].type = "done" =>
                /\ ba[1].iid \in Returned /\ ba[1].iid \in DOMAIN riids
                /\ riids[ba[1].iid].in_use
<1>1. Head(ba) = ba[1] /\ 1 \in DOMAIN ba /\ ba[1] \in BaMsg
  BY TailFacts, Zenon DEF Inv, Types, WireTypes
<1>2. ba[1].type = "intent" => ba[1].iid \in Offered /\ ba[1].size \in Nat
  BY <1>1, Zenon DEF Offered, IsIntent, BaMsg
<1>3. ba[1].type = "done" => ba[1].iid \in Returned
  BY <1>1, Zenon DEF Returned, IsDone
<1>4. ba[1].iid \in Offered => /\ ba[1].iid \in DOMAIN liids
                               /\ ba[1].iid \notin DOMAIN riids
                               /\ liids[ba[1].iid].offset = 0
  BY Zenon DEF Inv, IdInv, Known, BufInv, Exists
<1>5. ba[1].iid \in Returned => ba[1].iid \in DOMAIN riids
                                /\ riids[ba[1].iid].in_use
  BY Zenon DEF Inv, IdInv, Known, Away
<1>6. ba[1].type = "intent" => ba[1].size = liids[ba[1].iid].size
  BY <1>1, Zenon DEF Inv, BufInv, Sizes, IsIntent
<1>. QED  BY <1>1, <1>2, <1>3, <1>4, <1>5, <1>6, Zenon

\* Marking an intent changes nothing else.
LEMMA MarkFacts ==
    ASSUME IdrTypes, NEW b \in DOMAIN riids, NEW u \in BOOLEAN,
           riids' = [riids EXCEPT ![b].in_use = u]
    PROVE  /\ DOMAIN riids' = DOMAIN riids
           /\ riids'[b].in_use = u /\ riids'[b].size = riids[b].size
           /\ \A i \in DOMAIN riids \ {b} : riids'[i] = riids[i]
           /\ riids' \in [DOMAIN riids' -> Riid]
<1>1. riids[b] \in Riid
  BY Zenon DEF IdrTypes
<1>2. riids' = [riids EXCEPT ![b] = [riids[b] EXCEPT !.in_use = u]]
  BY Zenon
<1>3. [riids[b] EXCEPT !.in_use = u] = [size |-> riids[b].size, in_use |-> u]
  BY <1>1 DEF Riid
<1>4. /\ DOMAIN riids' = DOMAIN riids
      /\ riids'[b] = [size |-> riids[b].size, in_use |-> u]
      /\ \A i \in DOMAIN riids \ {b} : riids'[i] = riids[i]
  BY <1>2, <1>3, Zenon
<1>5. [size |-> riids[b].size, in_use |-> u] \in Riid
  BY <1>1, Zenon DEF Riid
<1>6. riids' \in [DOMAIN riids' -> Riid]
  BY <1>2, <1>3, <1>5 DEF IdrTypes
<1>. QED  BY <1>4, <1>6

(***************************************************************************)
(* The queues: losing messages, getting ones that are about no intent.     *)
(***************************************************************************)
SubBa ==
    \A j, k \in DOMAIN ba' :
        ba'[j].type # "ack" /\ ba'[k].type # "ack" =>
            \E a, b \in DOMAIN ba : /\ ba[a] = ba'[j] /\ ba[b] = ba'[k]
                                    /\ j = k <=> a = b

SubQueue ==
    \A j, k \in DOMAIN rx_queue' :
        rx_queue'[j].kind = "data" /\ rx_queue'[k].kind = "data" =>
            \E a, b \in DOMAIN rx_queue :
                /\ rx_queue[a] = rx_queue'[j] /\ rx_queue[b] = rx_queue'[k]
                /\ j = k <=> a = b

\* The pipe to the receiving end.
LEMMA AbShrinks ==
    ASSUME WireTypes,
           \/ ab' = ab
           \/ ab # <<>> /\ ab' = Tail(ab)
           \/ \E m \in AbMsg : m.type # "data" /\ ab' = Append(ab, m)
    PROVE  SubAb
<1>. ab \in Seq(AbMsg)
  BY Zenon DEF WireTypes
<1>1. CASE ab' = ab
  BY <1>1, Zenon DEF SubAb
<1>2. CASE ab # <<>> /\ ab' = Tail(ab)
  <2>1. \A k \in DOMAIN ab' : /\ k + 1 \in DOMAIN ab /\ ab'[k] = ab[k + 1]
                              /\ k \in Nat
    BY <1>2, TailFacts
  <2>2. \A j, k \in DOMAIN ab' : j <= k <=> j + 1 <= k + 1
    BY <2>1
  <2>. QED  BY <2>1, <2>2, Zenon DEF SubAb
<1>3. ASSUME NEW m \in AbMsg, m.type # "data", ab' = Append(ab, m)
      PROVE  SubAb
  <2>1. \A k \in DOMAIN ab' :
           ab'[k].type = "data" => k \in DOMAIN ab /\ ab[k] = ab'[k]
    BY <1>3, AppendFacts
  <2>. QED  BY <2>1, Zenon DEF SubAb
<1>. QED  BY <1>1, <1>2, <1>3, Zenon

\* The pipe back.
LEMMA BaShrinks ==
    ASSUME WireTypes,
           \/ ba' = ba
           \/ ba # <<>> /\ ba' = Tail(ba)
           \/ \E m \in BaMsg : m.type = "ack" /\ ba' = Append(ba, m)
    PROVE  SubBa
<1>. ba \in Seq(BaMsg)
  BY Zenon DEF WireTypes
<1>1. CASE ba' = ba
  BY <1>1, Zenon DEF SubBa
<1>2. CASE ba # <<>> /\ ba' = Tail(ba)
  <2>1. \A k \in DOMAIN ba' : /\ k + 1 \in DOMAIN ba /\ ba'[k] = ba[k + 1]
                              /\ k \in Nat
    BY <1>2, TailFacts
  <2>2. \A j, k \in DOMAIN ba' : j = k <=> j + 1 = k + 1
    BY <2>1
  <2>. QED  BY <2>1, <2>2 DEF SubBa
<1>3. ASSUME NEW m \in BaMsg, m.type = "ack", ba' = Append(ba, m)
      PROVE  SubBa
  <2>1. \A k \in DOMAIN ba' :
           ba'[k].type # "ack" => k \in DOMAIN ba /\ ba[k] = ba'[k]
    BY <1>3, AppendFacts
  <2>. QED  BY <2>1, Zenon DEF SubBa
<1>. QED  BY <1>1, <1>2, <1>3, Zenon

\* Then fewer intents are offered or returned.
LEMMA BaFewer ==
    ASSUME SubBa, SingleBa
    PROVE  Offered' \subseteq Offered /\ Returned' \subseteq Returned /\ SingleBa'
<1>1. Offered' \subseteq Offered
  BY DEF SubBa, Offered, IsIntent
<1>2. Returned' \subseteq Returned
  BY DEF SubBa, Returned, IsDone
<1>3. SingleBa'
  BY DEF SubBa, SingleBa, IsIntent, IsDone
<1>. QED  BY <1>1, <1>2, <1>3, Zenon

\* The queue of the channel.
LEMMA QueueShrinks ==
    ASSUME RxTypes,
           \/ rx_queue' = rx_queue
           \/ rx_queue # <<>> /\ rx_queue' = Tail(rx_queue)
           \/ \E m \in AllocJob : rx_queue' = Append(rx_queue, m)
    PROVE  SubQueue
<1>. rx_queue \in Seq(DataJob \cup AllocJob)
  BY Zenon DEF RxTypes
<1>1. CASE rx_queue' = rx_queue
  BY <1>1, Zenon DEF SubQueue
<1>2. CASE rx_queue # <<>> /\ rx_queue' = Tail(rx_queue)
  <2>1. \A k \in DOMAIN rx_queue' :
           /\ k + 1 \in DOMAIN rx_queue /\ rx_queue'[k] = rx_queue[k + 1]
           /\ k \in Nat
    BY <1>2, TailFacts
  <2>2. \A j, k \in DOMAIN rx_queue' : j = k <=> j + 1 = k + 1
    BY <2>1
  <2>. QED  BY <2>1, <2>2 DEF SubQueue
<1>3. ASSUME NEW m \in AllocJob, rx_queue' = Append(rx_queue, m)
      PROVE  SubQueue
  <2>1. m.kind # "data" /\ m \in DataJob \cup AllocJob
    BY Zenon DEF AllocJob
  <2>2. \A k \in DOMAIN rx_queue' :
           rx_queue'[k].kind = "data" =>
               k \in DOMAIN rx_queue /\ rx_queue[k] = rx_queue'[k]
    BY <1>3, <2>1, AppendFacts
  <2>. QED  BY <2>2 DEF SubQueue
<1>. QED  BY <1>1, <1>2, <1>3, Zenon

\* Then fewer intents are queued.
LEMMA QueueFewer ==
    ASSUME SubQueue, SingleQueue
    PROVE  Queued' \subseteq Queued /\ SingleQueue'
<1>1. Queued' \subseteq Queued
  BY DEF SubQueue, Queued, IsJob
<1>2. SingleQueue'
  BY DEF SubQueue, SingleQueue, IsJob
<1>. QED  BY <1>1, <1>2, Zenon

\* What is neither appended nor at the head of a queue stays.
LEMMA BaStays ==
    ASSUME WireTypes,
           \/ ba' = ba
           \/ ba # <<>> /\ ba' = Tail(ba)
           \/ \E m \in BaMsg : ba' = Append(ba, m)
    PROVE  \A i \in Returned : \/ i \in Returned'
                               \/ /\ ba' = Tail(ba) /\ ba # <<>>
                                  /\ ba[1].type = "done" /\ ba[1].iid = i
<1>. ba \in Seq(BaMsg)
  BY Zenon DEF WireTypes
<1>1. CASE ba' = ba
  BY <1>1, Zenon DEF Returned, IsDone
<1>2. CASE ba # <<>> /\ ba' = Tail(ba)
  <2>1. \A k \in DOMAIN ba :
           k # 1 => k - 1 \in DOMAIN ba' /\ ba'[k - 1] = ba[k]
    BY <1>2, TailFacts
  <2>2. \A k \in DOMAIN ba : IsDone(k) /\ k # 1 => ba[k].iid \in Returned'
    BY <2>1, Zenon DEF Returned, IsDone
  <2>. QED  BY <1>2, <2>2, Zenon DEF Returned, IsDone
<1>3. ASSUME NEW m \in BaMsg, ba' = Append(ba, m)
      PROVE  \A i \in Returned : i \in Returned'
  <2>1. \A k \in DOMAIN ba : k \in DOMAIN ba' /\ ba'[k] = ba[k]
    BY <1>3, AppendFacts
  <2>. QED  BY <2>1, Zenon DEF Returned, IsDone
<1>. QED  BY <1>1, <1>2, <1>3, Zenon

\* The same of the channel's queue.
LEMMA QueueStays ==
    ASSUME RxTypes,
           \/ rx_queue' = rx_queue
           \/ rx_queue # <<>> /\ rx_queue' = Tail(rx_queue)
           \/ \E m \in DataJob \cup AllocJob : rx_queue' = Append(rx_queue, m)
    PROVE  \A i \in Queued :
              \/ i \in Queued'
              \/ /\ rx_queue' = Tail(rx_queue) /\ rx_queue # <<>>
                 /\ rx_queue[1].kind = "data" /\ rx_queue[1].iid = i
<1>. rx_queue \in Seq(DataJob \cup AllocJob)
  BY Zenon DEF RxTypes
<1>1. CASE rx_queue' = rx_queue
  BY <1>1, Zenon DEF Queued, IsJob
<1>2. CASE rx_queue # <<>> /\ rx_queue' = Tail(rx_queue)
  <2>1. \A k \in DOMAIN rx_queue :
           k # 1 => /\ k - 1 \in DOMAIN rx_queue'
                    /\ rx_queue'[k - 1] = rx_queue[k]
    BY <1>2, TailFacts
  <2>2. \A k \in DOMAIN rx_queue :
           IsJob(k) /\ k # 1 => rx_queue[k].iid \in Queued'
    BY <2>1, Zenon DEF Queued, IsJob
  <2>. QED  BY <1>2, <2>2, Zenon DEF Queued, IsJob
<1>3. ASSUME NEW m \in DataJob \cup AllocJob, rx_queue' = Append(rx_queue, m)
      PROVE  \A i \in Queued : i \in Queued'
  <2>1. \A k \in DOMAIN rx_queue :
           k \in DOMAIN rx_queue' /\ rx_queue'[k] = rx_queue[k]
    BY <1>3, AppendFacts
  <2>. QED  BY <2>1, Zenon DEF Queued, IsJob
<1>. QED  BY <1>1, <1>2, <1>3, Zenon

\* What taking the head off the pipe back does to the intents in it.
LEMMA BaTakes ==
    ASSUME WireTypes, SingleBa, ba # <<>>, ba' = Tail(ba)
    PROVE  /\ 1 \in DOMAIN ba /\ ba[1] \in BaMsg /\ Head(ba) = ba[1]
           /\ Offered' \subseteq Offered /\ Returned' \subseteq Returned
           /\ SingleBa'
           /\ ba[1].type = "intent" =>
                 ba[1].iid \in Offered \ Offered' /\ Returned' = Returned
           /\ ba[1].type = "done" =>
                 /\ ba[1].iid \in Returned \ Returned'
                 /\ Returned \ {ba[1].iid} \subseteq Returned'
           /\ \A k \in DOMAIN ba' : \E a \in DOMAIN ba : ba[a] = ba'[k]
<1>. ba \in Seq(BaMsg)
  BY Zenon DEF WireTypes
<1>1. /\ 1 \in DOMAIN ba /\ ba[1] \in BaMsg /\ Head(ba) = ba[1]
      /\ \A k \in DOMAIN ba' : k + 1 \in DOMAIN ba /\ ba'[k] = ba[k + 1]
  BY TailFacts
<1>2. \A k \in DOMAIN ba' : k + 1 # 1
  <2>1. ba' \in Seq(BaMsg)
    BY TailFacts, Zenon
  <2>. QED  BY <2>1
<1>3. SubBa
  BY BaShrinks, Zenon
<1>4. Offered' \subseteq Offered /\ Returned' \subseteq Returned /\ SingleBa'
  BY <1>3, BaFewer, Zenon
<1>5. \A i \in Returned : \/ i \in Returned'
                          \/ ba[1].type = "done" /\ ba[1].iid = i
  BY BaStays, Zenon
<1>6. ba[1].type = "intent" => ba[1].iid \in Offered \ Offered'
  BY <1>1, <1>2 DEF Offered, IsIntent, SingleBa
<1>7. ba[1].type = "done" => ba[1].iid \in Returned \ Returned'
  BY <1>1, <1>2 DEF Returned, IsDone, SingleBa
<1>. QED  BY <1>1, <1>4, <1>5, <1>6, <1>7, Zenon

\* And what adding to its end does.
LEMMA BaAdds ==
    ASSUME WireTypes, SingleBa, NEW m \in BaMsg, ba' = Append(ba, m)
    PROVE  /\ m.type = "intent" =>
                 /\ Offered' = Offered \cup {m.iid} /\ Returned' = Returned
                 /\ m.iid \notin Offered => SingleBa'
           /\ m.type = "done" =>
                 /\ Returned' = Returned \cup {m.iid} /\ Offered' = Offered
                 /\ m.iid \notin Returned => SingleBa'
           /\ \A k \in DOMAIN ba' : \/ ba'[k] = m
                                    \/ \E a \in DOMAIN ba : ba[a] = ba'[k]
<1> DEFINE z == Len(ba) + 1
<1>1. /\ DOMAIN ba' = DOMAIN ba \cup {z} /\ ba'[z] = m /\ z \notin DOMAIN ba
      /\ \A k \in DOMAIN ba : ba'[k] = ba[k]
  <2>1. ba \in Seq(BaMsg)
    BY Zenon DEF WireTypes
  <2>. QED  BY <2>1, AppendFacts
<1> HIDE DEF z
<1>2. m.type = "intent" =>
         /\ Offered' = Offered \cup {m.iid} /\ Returned' = Returned
         /\ m.iid \notin Offered => SingleBa'
  <2>1. m.type = "intent" =>
           Offered' = Offered \cup {m.iid} /\ Returned' = Returned
    BY <1>1 DEF Offered, Returned, IsIntent, IsDone
  <2>2. m.type = "intent" /\ m.iid \notin Offered => SingleBa'
    BY <1>1 DEF Offered, SingleBa, IsIntent, IsDone
  <2>. QED  BY <2>1, <2>2, Zenon
<1>3. m.type = "done" =>
         /\ Returned' = Returned \cup {m.iid} /\ Offered' = Offered
         /\ m.iid \notin Returned => SingleBa'
  <2>1. m.type = "done" =>
           Returned' = Returned \cup {m.iid} /\ Offered' = Offered
    BY <1>1 DEF Offered, Returned, IsIntent, IsDone
  <2>2. m.type = "done" /\ m.iid \notin Returned => SingleBa'
    BY <1>1 DEF Returned, SingleBa, IsIntent, IsDone
  <2>. QED  BY <2>1, <2>2, Zenon
<1>. QED  BY <1>1, <1>2, <1>3, Zenon

\* The queue of the channel, likewise.
LEMMA QueueTakes ==
    ASSUME RxTypes, SingleQueue, rx_queue # <<>>, rx_queue' = Tail(rx_queue)
    PROVE  /\ 1 \in DOMAIN rx_queue /\ Head(rx_queue) = rx_queue[1]
           /\ rx_queue[1] \in DataJob \cup AllocJob
           /\ SingleQueue' /\ Queued' \subseteq Queued
           /\ rx_queue[1].kind = "data" =>
                 /\ rx_queue[1].iid \in Queued \ Queued'
                 /\ Queued \ {rx_queue[1].iid} \subseteq Queued'
           /\ rx_queue[1].kind # "data" => Queued' = Queued
           /\ \A k \in DOMAIN rx_queue' :
                 \E a \in DOMAIN rx_queue : rx_queue[a] = rx_queue'[k]
<1>. rx_queue \in Seq(DataJob \cup AllocJob)
  BY Zenon DEF RxTypes
<1>1. /\ 1 \in DOMAIN rx_queue /\ Head(rx_queue) = rx_queue[1]
      /\ rx_queue[1] \in DataJob \cup AllocJob
      /\ \A k \in DOMAIN rx_queue' :
            k + 1 \in DOMAIN rx_queue /\ rx_queue'[k] = rx_queue[k + 1]
  BY TailFacts
<1>2. \A k \in DOMAIN rx_queue' : k + 1 # 1
  <2>1. rx_queue' \in Seq(DataJob \cup AllocJob)
    BY TailFacts, Zenon
  <2>. QED  BY <2>1
<1>3. SubQueue
  BY QueueShrinks, Zenon
<1>4. Queued' \subseteq Queued /\ SingleQueue'
  BY <1>3, QueueFewer, Zenon
<1>5. \A i \in Queued : \/ i \in Queued'
                        \/ rx_queue[1].kind = "data" /\ rx_queue[1].iid = i
  BY QueueStays, Zenon
<1>6. rx_queue[1].kind = "data" => rx_queue[1].iid \in Queued \ Queued'
  BY <1>1, <1>2 DEF Queued, IsJob, SingleQueue
<1>. QED  BY <1>1, <1>4, <1>5, <1>6, Zenon

\* Data that is added to it.
LEMMA QueueAdds ==
    ASSUME RxTypes, SingleQueue, NEW m \in DataJob,
           rx_queue' = Append(rx_queue, m)
    PROVE  /\ Queued' = Queued \cup {m.iid}
           /\ m.iid \notin Queued => SingleQueue'
           /\ \A k \in DOMAIN rx_queue' :
                 \/ rx_queue'[k] = m
                 \/ \E a \in DOMAIN rx_queue : rx_queue[a] = rx_queue'[k]
<1> DEFINE z == Len(rx_queue) + 1
<1>1. /\ DOMAIN rx_queue' = DOMAIN rx_queue \cup {z} /\ rx_queue'[z] = m
      /\ z \notin DOMAIN rx_queue
      /\ \A k \in DOMAIN rx_queue : rx_queue'[k] = rx_queue[k]
  <2>1. rx_queue \in Seq(DataJob \cup AllocJob) /\ m \in DataJob \cup AllocJob
    BY Zenon DEF RxTypes
  <2>. QED  BY <2>1, AppendFacts
<1>2. m.kind = "data"
  BY Zenon DEF DataJob
<1> HIDE DEF z
<1>3. Queued' = Queued \cup {m.iid}
  BY <1>1, <1>2 DEF Queued, IsJob
<1>4. m.iid \notin Queued => SingleQueue'
  BY <1>1, <1>2 DEF Queued, SingleQueue, IsJob
<1>. QED  BY <1>1, <1>3, <1>4, Zenon

\* RX_DONE of the thread or of the client is one.
LEMMA RxDoneOneIntent ==
    ASSUME Inv, NEW i \in Working \cup owed, NEW r \in BOOLEAN,
           UNCHANGED <<riids, pc, call, abort_tx, ab, rx_queue, rx_cur>>,
           r => i \in DOMAIN liids /\ liids[i].reuse,
           ba' = Append(ba, DoneMsg(i, r)),
           liids' = Released(liids, i),
           defer_intents' = defer_intents \ {i}, owed' = owed \ {i},
           Working' = Working \ {i},
           \/ rx_pc' = "idle" /\ rx_pc # "advertise"
           \/ UNCHANGED rx_pc /\ i \notin Working
    PROVE  OneIntent(i)
<1>types. SendTypes /\ WireTypes /\ RxTypes /\ IdrTypes
  BY Parts, Zenon
<1>single. SingleBa /\ SingleQueue /\ SingleAb /\ SingleThread
  BY Parts, Zenon
<1>known. Apart /\ Known
  BY Parts, Zenon
<1>sizes. Exists /\ Sizes /\ Reused
  BY Parts, Zenon
<1>room. Chunks /\ Room
  BY Parts, Zenon
<1>1. UNCHANGED <<riids, pc, call, abort_tx>>
  BY Zenon
<1>2. /\ i \in Away /\ i \notin Returned /\ i \notin Queued
      /\ i \in DOMAIN riids /\ riids[i].in_use /\ i \notin Sending
      /\ i \notin Flying
  BY <1>known, Zenon DEF Apart, Known, Away
<1>3. Flying' = Flying /\ Queued' = Queued
  BY Zenon DEF Flying, Queued, IsData, IsJob
<1>4. SubAb /\ ab' \in Seq(AbMsg)
  BY <1>types, AbShrinks, Zenon DEF WireTypes
<1>5. DoneMsg(i, r) \in BaMsg /\ DoneMsg(i, r).type = "done"
      /\ DoneMsg(i, r).iid = i /\ DoneMsg(i, r).reuse = r
  <2>1. i \in Nat
    BY <1>types, <1>2 DEF IdrTypes
  <2>. QED  BY <2>1, DoneMsgFacts, Zenon
<1>6. /\ Returned' = Returned \cup {i} /\ Offered' = Offered /\ SingleBa'
      /\ \A k \in DOMAIN ba' : \/ ba'[k] = DoneMsg(i, r)
                               \/ \E a \in DOMAIN ba : ba[a] = ba'[k]
  BY <1>types, <1>single, <1>2, <1>5, BaAdds
<1>7. /\ DOMAIN liids' \subseteq DOMAIN liids
      /\ \A j \in DOMAIN liids \ {i} : j \in DOMAIN liids' /\ liids'[j] = liids[j]
      /\ i \in DOMAIN liids' => /\ liids[i].reuse
                                /\ liids'[i] = Emptied(liids[i])
      /\ r => i \in DOMAIN liids' /\ liids'[i] = Emptied(liids[i])
  BY ReleasedFacts
<1>8. i \in DOMAIN liids' => /\ liids'[i].size = liids[i].size
                             /\ liids'[i].offset = 0
                             /\ liids'[i].offset <= liids'[i].size
  <2>1. i \in DOMAIN liids => liids[i].size \in Nat
    BY <1>types, Zenon DEF IdrTypes, Liid
  <2>. QED  BY <1>7, <2>1, EmptiedFields
<1>9. \A k \in DOMAIN rx_queue : IsJob(k) => rx_queue[k].iid # i
  BY <1>2, Zenon DEF Queued
<1>10. \A k \in DOMAIN ba : IsDone(k) => ba[k].iid # i
  BY <1>2, Zenon DEF Returned
<1>11. SingleQueue'
  BY <1>single, Zenon DEF Single, SingleQueue, IsJob
<1>12. defer_intents' = Working' \cup owed'
  BY <1>known, Zenon DEF Known
<1>13. OneJob(i)
  BY <1>9, Zenon DEF OneJob, IsJob
<1>14. OneDone(i)
  BY <1>5, <1>6, <1>7, <1>8, <1>10, Zenon DEF OneDone, IsDone
<1>15. Around(i)
  BY <1>1, <1>2, <1>3, <1>4, Zenon DEF Around
<1>16. OneBuffer(i)
  BY <1>7, <1>8, Zenon DEF OneBuffer
<1>17. i \in DOMAIN liids' \cup Returned'
  BY <1>6, Zenon
<1>18. OnePlace(i)
  BY <1>2, <1>3, <1>6, <1>11, <1>12, <1>17, Zenon DEF OnePlace
<1>. QED  BY <1>13, <1>14, <1>15, <1>16, <1>18, Zenon DEF OneIntent

ThreadDoneStep ==
    /\ rx_pc = "done" /\ rx_pc' = "idle"
    /\ ba' = Append(ba, DoneMsg(rx_cur.iid, rx_cur.reuse))
    /\ liids' = Released(liids, rx_cur.iid)
    /\ defer_intents' = defer_intents \ {rx_cur.iid}
    /\ UNCHANGED <<riids, pc, call, abort_tx, ab, rx_queue, rx_cur, owed>>

\* The thread returns a buffer.
LEMMA ThreadReturns ==
    ASSUME Inv, ThreadDoneStep
    PROVE  IdInv' /\ BufInv'
<1>types. SendTypes /\ WireTypes /\ RxTypes /\ IdrTypes
  BY Parts, Zenon
<1>single. SingleBa /\ SingleQueue /\ SingleAb /\ SingleThread
  BY Parts, Zenon
<1>known. Apart /\ Known
  BY Parts, Zenon
<1>sizes. Exists /\ Sizes /\ Reused
  BY Parts, Zenon
<1>room. Chunks /\ Room
  BY Parts, Zenon
<1> DEFINE i == rx_cur.iid
           r == rx_cur.reuse
<1>1. /\ rx_pc = "done" /\ rx_pc' = "idle"
      /\ ba' = Append(ba, DoneMsg(i, r)) /\ liids' = Released(liids, i)
      /\ defer_intents' = defer_intents \ {i}
      /\ UNCHANGED <<riids, pc, call, abort_tx, ab, rx_queue, rx_cur, owed>>
  BY Zenon DEF ThreadDoneStep
<1>2. Working = {i} /\ Working' = {}
  BY <1>1, Zenon DEF Working
<1>3. i \notin owed
  BY <1>known, <1>2, Zenon DEF Apart
<1>4. r \in BOOLEAN
  BY <1>types, <1>1, Zenon DEF RxTypes, DataJob
<1>5. r => i \in DOMAIN liids /\ liids[i].reuse
  BY <1>sizes, <1>2, Zenon DEF Reused
<1>6. /\ i \in Working \cup owed /\ owed' = owed \ {i}
      /\ Working' = Working \ {i} /\ rx_pc # "advertise"
      /\ UNCHANGED <<riids, pc, call, abort_tx, ab, rx_queue, rx_cur>>
  BY <1>1, <1>2, <1>3, Zenon
<1> HIDE DEF i, r
<1>7. OneIntent(i)
  BY <1>1, <1>4, <1>5, <1>6, RxDoneOneIntent, Zenon
<1>. QED  BY <1>7, StepOneIntent, Zenon

ClientDoneStep(i) ==
    /\ i \in owed /\ owed' = owed \ {i}
    /\ ba' = Append(ba, DoneMsg(i, liids[i].reuse))
    /\ liids' = Released(liids, i)
    /\ defer_intents' = defer_intents \ {i}
    /\ UNCHANGED <<riids, pc, call, abort_tx, ab, rx_queue, rx_cur, rx_pc>>

\* The client returns one.
LEMMA ClientReturns ==
    ASSUME Inv, NEW i, ClientDoneStep(i)
    PROVE  IdInv' /\ BufInv'
<1>types. SendTypes /\ WireTypes /\ RxTypes /\ IdrTypes
  BY Parts, Zenon
<1>single. SingleBa /\ SingleQueue /\ SingleAb /\ SingleThread
  BY Parts, Zenon
<1>known. Apart /\ Known
  BY Parts, Zenon
<1>sizes. Exists /\ Sizes /\ Reused
  BY Parts, Zenon
<1>room. Chunks /\ Room
  BY Parts, Zenon
<1> DEFINE r == liids[i].reuse
<1>1. /\ i \in owed /\ owed' = owed \ {i}
      /\ ba' = Append(ba, DoneMsg(i, r)) /\ liids' = Released(liids, i)
      /\ defer_intents' = defer_intents \ {i}
      /\ UNCHANGED <<riids, pc, call, abort_tx, ab, rx_queue, rx_cur, rx_pc>>
  BY Zenon DEF ClientDoneStep
<1>2. i \in DOMAIN liids /\ i \notin Working
  BY <1>known, <1>1, OwedExists, Zenon DEF Apart
<1>3. r \in BOOLEAN
  BY <1>types, <1>2, Zenon DEF IdrTypes, Liid
<1>4. Working' = Working \ {i}
  BY <1>1, <1>2, Zenon DEF Working
<1>5. /\ UNCHANGED <<riids, pc, call, abort_tx, ab, rx_queue, rx_cur>>
      /\ i \in Working \cup owed
  BY <1>1, Zenon
<1>6. r => i \in DOMAIN liids /\ liids[i].reuse
  BY <1>2, Zenon
<1> HIDE DEF r
<1>7. OneIntent(i)
  BY <1>1, <1>2, <1>3, <1>4, <1>5, <1>6, RxDoneOneIntent, Zenon
<1>. QED  BY <1>7, StepOneIntent, Zenon

\* The chunk that ends a message hands its intent to the receiving end.
LEMMA ReceivesLast ==
    ASSUME Inv, DataStep, ab[1].left = 0
    PROVE  IdInv' /\ BufInv'
<1>types. SendTypes /\ WireTypes /\ RxTypes /\ IdrTypes
  BY Parts, Zenon
<1>single. SingleBa /\ SingleQueue /\ SingleAb /\ SingleThread
  BY Parts, Zenon
<1>known. Apart /\ Known
  BY Parts, Zenon
<1>sizes. Exists /\ Sizes /\ Reused
  BY Parts, Zenon
<1>room. Chunks /\ Room
  BY Parts, Zenon
<1> DEFINE i == ab[1].iid
           f == FilledBy(ab[1])
<1>1. /\ ab # <<>> /\ Head(ab).type = "data" /\ ab' = Tail(ab)
      /\ RxOutcome(ab[1], i)
      /\ UNCHANGED <<riids, pc, call, abort_tx, rx_pc, rx_cur>>
  BY Zenon DEF DataStep
<1>2. /\ 1 \in DOMAIN ab /\ ab[1] \in DataMsg /\ i \in DOMAIN liids
      /\ liids[i] \in Liid
      /\ liids[i].offset + ab[1].chunk + ab[1].left <= liids[i].size
  BY <1>1, HeadHasRoom, Zenon
<1>3. i \in Complete /\ IsLast(1)
  BY <1>2, Zenon DEF Complete, IsLast, IsData, DataMsg
<1>4. i \in Flying
  BY <1>1, HeadHasRoom, Zenon
<1>5. /\ i \notin Queued /\ i \notin Working /\ i \notin owed /\ i \notin Returned
      /\ i \in DOMAIN riids /\ riids[i].in_use /\ i \notin Sending
  BY <1>known, <1>3, <1>4, Zenon DEF Apart, Known, Away
<1>6. i \notin Flying'
  <2>1. ab \in Seq(AbMsg)
    BY <1>types, Zenon DEF WireTypes
  <2>2. \A k \in DOMAIN ab' : k + 1 \in DOMAIN ab /\ ab'[k] = ab[k + 1]
    BY <1>1, <2>1, TailFacts
  <2>3. ab' \in Seq(AbMsg)
    BY <1>1, <2>1, TailFacts, Zenon
  <2>4. \A k \in DOMAIN ab' : ~(k + 1 <= 1)
    BY <2>3
  <2>5. \A k \in DOMAIN ab' : ~(IsData(k)' /\ ab'[k].iid = i)
    BY <1>single, <1>2, <1>3, <2>2, <2>4, Zenon DEF SingleAb, IsData
  <2>. QED  BY <2>5, Zenon DEF Flying
<1>7. SubAb /\ ab' \in Seq(AbMsg)
  BY <1>types, <1>1, AbShrinks, TailFacts, Zenon DEF WireTypes
<1>8. /\ DOMAIN liids' \subseteq DOMAIN liids
      /\ \A j \in DOMAIN liids \ {i} : j \in DOMAIN liids' /\ liids'[j] = liids[j]
      /\ liids[i].reuse => i \in DOMAIN liids'
      /\ i \in DOMAIN liids' => \/ liids'[i] = Filled(liids[i], ab[1])
                                \/ liids'[i] = Emptied(Filled(liids[i], ab[1]))
  BY RxLiids, Zenon
<1>9. /\ DOMAIN f = DOMAIN liids /\ f[i] = Filled(liids[i], ab[1])
      /\ f[i] \in Liid /\ f[i].reuse = liids[i].reuse
  <2>1. /\ DOMAIN f = DOMAIN liids /\ f[i] = Filled(liids[i], ab[1])
        /\ f[i] \in Liid
    BY <1>types, <1>2, FilledFacts, Zenon
  <2>. QED  BY <2>1, FilledFields
<1>10. i \in DOMAIN liids' => /\ liids'[i].size = liids[i].size
                              /\ liids'[i].offset <= liids'[i].size
                              /\ liids'[i].reuse = liids[i].reuse
  <2>1. /\ ab[1].chunk \in Nat /\ ab[1].left \in Nat
        /\ liids[i].offset \in Nat /\ liids[i].size \in Nat
    BY <1>2, Zenon DEF DataMsg, Liid
  <2>2. liids[i].offset + ab[1].chunk <= liids[i].size /\ 0 <= liids[i].size
    BY <1>2, <2>1
  <2>3. CASE liids'[i] = Filled(liids[i], ab[1])
    BY <2>2, <2>3, FilledFields
  <2>4. CASE liids'[i] = Emptied(Filled(liids[i], ab[1]))
    BY <2>2, <2>4, FilledFields, EmptiedFields
  <2>. QED  BY <1>8, <2>3, <2>4, Zenon
<1>11. Working' = Working
  BY <1>1, Zenon DEF Working
<1>12. i \in Nat /\ liids[i].reuse \in BOOLEAN
  BY <1>2, Zenon DEF DataMsg, Liid
<1>13. \A k \in DOMAIN rx_queue : IsJob(k) => rx_queue[k].iid # i
  BY <1>5, Zenon DEF Queued
<1>14. \A k \in DOMAIN ba : IsDone(k) => ba[k].iid # i
  BY <1>5, Zenon DEF Returned
<1>15. defer_intents = Working \cup owed
  BY <1>known, Zenon DEF Known
<1>16. \/ /\ liids' = f
          /\ rx_queue' = Append(rx_queue, ToDeliver(i, liids[i].reuse, FALSE))
          /\ UNCHANGED <<ba, defer_intents, owed>>
       \/ /\ defer_intents' = defer_intents \cup {i} /\ owed' = owed \cup {i}
          /\ liids' = [f EXCEPT ![i] = Emptied(f[i])]
          /\ UNCHANGED <<rx_queue, ba>>
       \/ /\ ba' = Append(ba, DoneMsg(i, liids[i].reuse))
          /\ liids' = Released(f, i)
          /\ UNCHANGED <<rx_queue, defer_intents, owed>>
       \/ /\ rx_queue' = Append(rx_queue, ToDeliver(i, liids[i].reuse, TRUE))
          /\ UNCHANGED <<ba, defer_intents, owed>>
  BY <1>1, <1>9, Zenon DEF RxOutcome
<1> HIDE DEF i, f
<1>17. ba' = ba => /\ Offered' = Offered /\ Returned' = Returned /\ SingleBa'
                   /\ OneDone(i)
  <2>1. ASSUME ba' = ba
        PROVE  Offered' = Offered /\ Returned' = Returned /\ SingleBa'
    BY <1>single, <2>1 DEF Offered, Returned, SingleBa, IsIntent, IsDone
  <2>2. ASSUME ba' = ba PROVE OneDone(i)
    BY <1>14, <2>2, Zenon DEF OneDone
  <2>. QED  BY <2>1, <2>2, Zenon
<1>18. rx_queue' = rx_queue => Queued' = Queued /\ SingleQueue' /\ OneJob(i)
  <2>1. ASSUME rx_queue' = rx_queue PROVE Queued' = Queued /\ SingleQueue'
    BY <1>single, <2>1, Zenon DEF Queued, SingleQueue, IsJob
  <2>2. ASSUME rx_queue' = rx_queue PROVE OneJob(i)
    BY <1>13, <2>2, Zenon DEF OneJob, IsJob
  <2>. QED  BY <2>1, <2>2, Zenon
<1>19. ASSUME NEW done \in BOOLEAN, done \/ i \in DOMAIN liids',
              rx_queue' = Append(rx_queue, ToDeliver(i, liids[i].reuse, done)),
              UNCHANGED <<ba, defer_intents, owed>>
       PROVE  OnePlace(i) /\ OneJob(i) /\ OneDone(i)
  <2> DEFINE m == ToDeliver(i, liids[i].reuse, done)
  <2>1. /\ m \in DataJob /\ m.iid = i /\ m.reuse = liids[i].reuse
        /\ m.cb_irq_done = done
    BY <1>12, ToDeliverFacts
  <2> HIDE DEF m
  <2>2. /\ Queued' = Queued \cup {i} /\ SingleQueue'
        /\ \A k \in DOMAIN rx_queue' :
              \/ rx_queue'[k] = m
              \/ \E a \in DOMAIN rx_queue : rx_queue[a] = rx_queue'[k]
    BY <1>types, <1>single, <1>5, <1>19, <2>1, QueueAdds DEF m
  <2>3. OneJob(i)
    BY <1>8, <1>10, <1>13, <1>19, <2>1, <2>2 DEF OneJob, IsJob
  <2>4. OnePlace(i)
    BY <1>5, <1>11, <1>15, <1>17, <1>19, <2>2, Zenon DEF OnePlace
  <2>. QED  BY <1>17, <1>19, <2>3, <2>4, Zenon
<1>20. ASSUME liids' = f,
              rx_queue' = Append(rx_queue, ToDeliver(i, liids[i].reuse, FALSE)),
              UNCHANGED <<ba, defer_intents, owed>>
       PROVE  OnePlace(i) /\ OneJob(i) /\ OneDone(i)
  <2>1. i \in DOMAIN liids'
    BY <1>2, <1>9, <1>20, Zenon
  <2>. QED  BY <1>19, <1>20, <2>1, Zenon
<1>21. ASSUME rx_queue' = Append(rx_queue, ToDeliver(i, liids[i].reuse, TRUE)),
              UNCHANGED <<ba, defer_intents, owed>>
       PROVE  OnePlace(i) /\ OneJob(i) /\ OneDone(i)
  <2>. QED  BY <1>19, <1>21, Zenon
<1>22. ASSUME defer_intents' = defer_intents \cup {i}, owed' = owed \cup {i},
              liids' = [f EXCEPT ![i] = Emptied(f[i])],
              UNCHANGED <<rx_queue, ba>>
       PROVE  OnePlace(i) /\ OneJob(i) /\ OneDone(i)
  <2>1. i \in DOMAIN liids'
    BY <1>2, <1>9, <1>22, Zenon
  <2>2. OnePlace(i)
    BY <1>5, <1>11, <1>15, <1>17, <1>18, <1>22, <2>1, Zenon DEF OnePlace
  <2>. QED  BY <1>17, <1>18, <1>22, <2>2, Zenon
<1>23. ASSUME ba' = Append(ba, DoneMsg(i, liids[i].reuse)),
              liids' = Released(f, i),
              UNCHANGED <<rx_queue, defer_intents, owed>>
       PROVE  OnePlace(i) /\ OneJob(i) /\ OneDone(i)
  <2> DEFINE m == DoneMsg(i, liids[i].reuse)
  <2>1. /\ m \in BaMsg /\ m.type = "done" /\ m.iid = i
        /\ m.reuse = liids[i].reuse
    BY <1>12, DoneMsgFacts, Zenon
  <2> HIDE DEF m
  <2>2. /\ Returned' = Returned \cup {i} /\ Offered' = Offered /\ SingleBa'
        /\ \A k \in DOMAIN ba' : \/ ba'[k] = m
                                 \/ \E a \in DOMAIN ba : ba[a] = ba'[k]
    BY <1>types, <1>single, <1>5, <1>23, <2>1, BaAdds DEF m
  <2>3. liids[i].reuse => i \in DOMAIN liids' /\ liids'[i].offset = 0
    <3>1. i \in DOMAIN f /\ f[i].reuse =>
             i \in DOMAIN liids' /\ liids'[i] = Emptied(f[i])
      BY <1>23, ReleasedFacts, Zenon
    <3>. QED  BY <1>2, <1>9, <3>1, EmptiedFields
  <2>4. OneDone(i)
    BY <1>14, <2>1, <2>2, <2>3, Zenon DEF OneDone, IsDone
  <2>5. OnePlace(i)
    BY <1>5, <1>11, <1>15, <1>18, <1>23, <2>2, Zenon DEF OnePlace
  <2>. QED  BY <1>18, <1>23, <2>4, <2>5, Zenon
<1>24. OnePlace(i) /\ OneJob(i) /\ OneDone(i)
  <2>. QED  BY <1>16, <1>20, <1>21, <1>22, <1>23, Zenon
<1>25. OneIntent(i)
  <2>1. Around(i)
    BY <1>1, <1>5, <1>6, <1>7, <1>11, Zenon DEF Around
  <2>2. OneBuffer(i)
    BY <1>8, <1>10, Zenon DEF OneBuffer
  <2>. QED  BY <1>24, <2>1, <2>2, Zenon DEF OneIntent
<1>. QED  BY <1>25, StepOneIntent, Zenon

(***************************************************************************)
(* The thread of the channel.                                              *)
(***************************************************************************)
TakeDataStep ==
    /\ rx_pc = "idle" /\ rx_queue # <<>> /\ Head(rx_queue).kind = "data"
    /\ rx_queue' = Tail(rx_queue) /\ rx_cur' = Head(rx_queue)
    /\ defer_intents' = defer_intents \cup {Head(rx_queue).iid}
    /\ rx_pc' = IF Head(rx_queue).cb_irq_done THEN "done" ELSE "cb"
    /\ UNCHANGED <<pc, call, abort_tx, riids, ab, ba, liids, owed>>

\* The thread takes a message off the queue.
LEMMA TakesData ==
    ASSUME Inv, TakeDataStep
    PROVE  IdInv' /\ BufInv'
<1>types. SendTypes /\ WireTypes /\ RxTypes /\ IdrTypes
  BY Parts, Zenon
<1>single. SingleBa /\ SingleQueue /\ SingleAb /\ SingleThread
  BY Parts, Zenon
<1>known. Apart /\ Known
  BY Parts, Zenon
<1>sizes. Exists /\ Sizes /\ Reused
  BY Parts, Zenon
<1>room. Chunks /\ Room
  BY Parts, Zenon
<1> DEFINE h == Head(rx_queue)
<1>1. /\ rx_pc = "idle" /\ rx_queue # <<>> /\ h.kind = "data"
      /\ rx_queue' = Tail(rx_queue) /\ rx_cur' = h
      /\ defer_intents' = defer_intents \cup {h.iid}
      /\ rx_pc' = IF h.cb_irq_done THEN "done" ELSE "cb"
      /\ UNCHANGED <<pc, call, abort_tx, riids, ab, ba, liids, owed>>
  BY Zenon DEF TakeDataStep
<1>2. /\ 1 \in DOMAIN rx_queue /\ h = rx_queue[1] /\ SingleQueue'
      /\ h.iid \in Queued \ Queued' /\ Queued \ {h.iid} \subseteq Queued'
      /\ Queued' \subseteq Queued
      /\ \A k \in DOMAIN rx_queue' :
            \E a \in DOMAIN rx_queue : rx_queue[a] = rx_queue'[k]
  BY <1>types, <1>single, <1>1, QueueTakes, Zenon
<1>3. /\ rx_pc' = "cb" => h.iid \in DOMAIN liids
      /\ h.reuse => h.iid \in DOMAIN liids /\ liids[h.iid].reuse
  BY <1>sizes, <1>1, <1>2 DEF Exists, Reused, IsJob
<1> HIDE DEF h
<1>4. rx_pc' \in {"cb", "done"}
  BY <1>1, Zenon
<1>5. /\ Fresh' = {} /\ Fresh = {} /\ Working = {} /\ Working' = {h.iid}
      /\ Flying' = Flying /\ Complete' = Complete /\ Sending' = Sending
      /\ Offered' = Offered /\ Returned' = Returned
  BY <1>1, <1>4, Zenon DEF Fresh, Flying, Complete, Working, Sending, Offered,
     Returned, IsData, IsLast, IsIntent, IsDone
<1>6. Away' = Away
  BY <1>1, <1>2, <1>5, Zenon DEF Away
<1>7. Single'
  BY <1>single, <1>1, <1>2 DEF Single, SingleBa, SingleAb, SingleThread,
     IsIntent, IsDone, IsLast, IsData
<1>8. Apart'
  BY <1>known, <1>1, <1>2, <1>5, <1>6 DEF Apart
<1>9. Known'
  BY <1>known, <1>1, <1>5, <1>6, Zenon DEF Known
<1>10. Exists'
  <2>1. \A k \in DOMAIN rx_queue' : IsJob(k)' =>
           rx_queue'[k].cb_irq_done \/ rx_queue'[k].iid \in DOMAIN liids
    BY <1>sizes, <1>2, Zenon DEF Exists, IsJob
  <2>2. UNCHANGED <<riids, liids>> /\ rx_cur' = h
    BY <1>1, Zenon
  <2>. QED  BY <1>sizes, <1>2, <1>3, <1>5, <2>1, <2>2, Zenon DEF Exists
<1>11. Sizes'
  BY <1>sizes, <1>1, <1>4, Zenon DEF Sizes, IsIntent
<1>12. Reused'
  <2>1. \A k \in DOMAIN rx_queue' : IsJob(k)' /\ rx_queue'[k].reuse =>
           rx_queue'[k].iid \in DOMAIN liids /\ liids[rx_queue'[k].iid].reuse
    BY <1>sizes, <1>2 DEF Reused, IsJob
  <2>2. UNCHANGED <<ba, liids>> /\ rx_cur' = h
    BY <1>1, Zenon
  <2>. QED  BY <1>sizes, <1>3, <2>1, <2>2, Zenon DEF Reused, IsDone
<1>13. Chunks' /\ Room'
  BY <1>room, <1>1, <1>5, Zenon DEF Chunks, Room, IsData
<1>. QED
  BY <1>7, <1>8, <1>9, <1>10, <1>11, <1>12, <1>13, Whole, Zenon

CallbackStep ==
    /\ rx_pc = "cb"
    /\ \/ rx_pc' = "done" /\ owed' = owed
       \/ rx_pc' = "idle" /\ owed' = owed \cup {rx_cur.iid}
    /\ UNCHANGED <<pc, call, abort_tx, riids, ab, ba, liids, rx_queue, rx_cur,
                   defer_intents>>

\* After the callback the thread or the client has the buffer.
LEMMA CallsBack ==
    ASSUME Inv, CallbackStep
    PROVE  IdInv' /\ BufInv'
<1>types. SendTypes /\ WireTypes /\ RxTypes /\ IdrTypes
  BY Parts, Zenon
<1>single. SingleBa /\ SingleQueue /\ SingleAb /\ SingleThread
  BY Parts, Zenon
<1>known. Apart /\ Known
  BY Parts, Zenon
<1>sizes. Exists /\ Sizes /\ Reused
  BY Parts, Zenon
<1>room. Chunks /\ Room
  BY Parts, Zenon
<1>1. /\ rx_pc = "cb"
      /\ \/ rx_pc' = "done" /\ owed' = owed
         \/ rx_pc' = "idle" /\ owed' = owed \cup {rx_cur.iid}
      /\ UNCHANGED <<pc, call, abort_tx, riids, ab, ba, liids, rx_queue, rx_cur,
                     defer_intents>>
  BY Zenon DEF CallbackStep
<1>2. /\ Fresh' = {} /\ Fresh = {} /\ Flying' = Flying
      /\ Complete' = Complete /\ Sending' = Sending
      /\ Offered' = Offered /\ Returned' = Returned /\ Queued' = Queued
  BY <1>1, Zenon DEF Fresh, Flying, Complete, Sending, Offered, Queued,
     Returned, IsData, IsLast, IsIntent, IsDone, IsJob
<1>3. /\ Working = {rx_cur.iid}
      /\ \/ Working' = Working /\ owed' = owed
         \/ Working' = {} /\ owed' = owed \cup Working
      /\ rx_cur.iid \in DOMAIN liids
  BY <1>sizes, <1>1, Zenon DEF Working, Exists
<1>4. Away' = Away
  BY <1>2, <1>3, Zenon DEF Away
<1>5. Single'
  BY <1>single, <1>1 DEF Single, SingleBa, SingleAb, SingleThread, SingleQueue,
     IsIntent, IsDone, IsLast, IsData, IsJob
<1>6. Apart'
  BY <1>known, <1>2, <1>3, <1>4, Zenon DEF Apart
<1>7. Known'
  BY <1>known, <1>1, <1>2, <1>3, <1>4, Zenon DEF Known
<1>8. Exists'
  <2>1. UNCHANGED <<riids, liids, rx_queue, rx_cur>>
    BY <1>1, Zenon
  <2>. QED  BY <1>sizes, <1>2, <1>3, <2>1, Zenon DEF Exists, IsJob
<1>9. Sizes' /\ Chunks'
  BY <1>sizes, <1>room, <1>1, Zenon DEF Sizes, Chunks, IsIntent, IsData
<1>11. Room'
  BY <1>room, <1>1, <1>2, Zenon DEF Room, IsData
<1>10. Reused'
  <2>1. UNCHANGED <<ba, liids, rx_queue, rx_cur>>
    BY <1>1, Zenon
  <2>. QED  BY <1>sizes, <1>3, <2>1, Zenon DEF Reused, IsJob, IsDone
<1>. QED  BY <1>5, <1>6, <1>7, <1>8, <1>9, <1>10, <1>11, Whole, Zenon
=============================================================================
