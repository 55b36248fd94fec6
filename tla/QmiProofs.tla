----------------------------- MODULE QmiProofs ------------------------------
(***************************************************************************)
(* Qmi keeps the facts about its transactions and their answers; theorems  *)
(* about Qmi, for any number of threads, ids, sockets and services.        *)
(***************************************************************************)
EXTENDS QmiSockets, FiniteSetTheorems, WellFoundedInduction

\* The time a leaf may take, in seconds.
USE SMTT(20)

(***************************************************************************)
(* Transactions: the ids, their types, then one lemma for each way in      *)
(* which a step changes them.                                              *)
(***************************************************************************)
\* The least of a set of ids is one of them, and no other is less.
LEMMA LeastIn ==
    ASSUME NEW S \in SUBSET Id, S # {}
    PROVE  Least(S) \in S /\ \A j \in S : Least(S) <= j
<1>1. S \subseteq Nat
  BY QmiAssumption, SMT DEF Id
<1>2. PICK x \in S : \A y \in S : ~(<<y, x>> \in OpToRel(<, Nat))
  BY <1>1, NatLessThanWellFounded, WFMin, Zenon
<1>3. \A y \in S : x <= y
  <2>1. OpToRel(<, Nat) = {ss \in Nat \X Nat : ss[1] < ss[2]}
    BY Zenon DEF OpToRel
  <2>2. \A y \in S : <<y, x>> \notin {ss \in Nat \X Nat : ss[1] < ss[2]}
    BY <1>2, <2>1, Zenon
  <2>3. SUFFICES ASSUME NEW y \in S, ~(x <= y)
                 PROVE  FALSE
    BY Zenon
  <2>4. x \in Nat /\ y \in Nat /\ y < x
    BY <1>1, <2>3, SMT
  <2>5. <<y, x>> \in {ss \in Nat \X Nat : ss[1] < ss[2]}
    BY <2>4, SMT
  <2>6. QED
    BY <2>2, <2>5, Zenon
<1>4. QED
  BY <1>3, Zenon DEF Least

\* The id that idr_alloc_cyclic returns is free.
LEMMA AllocFree == FreeIds # {} => idr_alloc_cyclic \in FreeIds
<1>1. \A S \in SUBSET Id : S # {} => Least(S) \in S
  BY LeastIn, Zenon
<1>2. FreeIds \in SUBSET Id /\ {i \in FreeIds : i >= cursor} \in SUBSET Id
  BY Zenon DEF FreeIds
<1>. QED
  BY <1>1, <1>2, Zenon DEF idr_alloc_cyclic

\* Every step keeps the types of the transactions.
LEMMA TxnTypesNext == Types /\ [Next]_vars => TxnTypes'
<1> SUFFICES ASSUME Types, [Next]_vars PROVE TxnTypes'
  BY Zenon
<1> USE DEF Types, TxnTypes
<1>1. ASSUME NEW c \in Client, qmi_txn_init(c) PROVE TxnTypes'
  <2> DEFINE id == idr_alloc_cyclic
  <2>1. id \in Id /\ id \in Nat
    BY <1>1, AllocFree, QmiAssumption DEF qmi_txn_init, FreeIds, Id
  <2>2. [n |-> serial + 1, id |-> id, result |-> 0, done |-> FALSE] \in TxnRec
    BY <2>1 DEF TxnRec
  <2> HIDE DEF id
  <2>3. /\ txns' = [txns EXCEPT ![id] = serial + 1]
        /\ txn' = [txn EXCEPT ![c] = [n |-> serial + 1, id |-> id,
                                       result |-> 0, done |-> FALSE]]
        /\ serial' = serial + 1 /\ pc' = [pc EXCEPT ![c] = "send"]
        /\ asked' = asked /\ rel' = rel
    BY <1>1, Zenon DEF qmi_txn_init, id, relv
  <2>. QED  BY <2>1, <2>2, <2>3 DEF ClientPc
<1>2. ASSUME NEW c \in Client, qmi_send_message(c) PROVE TxnTypes'
  <2>1. [id |-> txn[c].id, n |-> txn[c].n, from |-> sock]
            \in [id : Nat, n : Nat, from : Nat]
    BY DEF TxnRec, SockTypes, Sock
  <2>2. asked' \in SUBSET [id : Nat, n : Nat, from : Nat]
    BY <1>2, <2>1, Zenon DEF qmi_send_message
  <2>. QED  BY <1>2, <2>2, Zenon DEF qmi_send_message, relv, ClientPc
<1>3. ASSUME NEW c \in Client,
             qmi_txn_cancel(c) \/ EndWait(c) \/ Woken(c) \/ Timeout(c)
               \/ LookAtResult(c)
      PROVE TxnTypes'
  BY <1>3, Zenon
     DEF qmi_txn_cancel, EndWait, Woken, Timeout, LookAtResult, AfterWait,
       idr_remove, relv, ClientPc
<1>4. CASE \E q \in asked : Answer(q)
  BY <1>4, Zenon DEF Answer, relv
<1>5. CASE qmi_handle_message
  <2>1. msg.n \in Nat
    BY <1>5, Zenon DEF qmi_handle_message, SockTypes, Message
  <2>2. txn' \in [Client -> TxnRec]
    BY <1>5, <2>1 DEF qmi_handle_message, Completed, TxnRec
  <2>. QED  BY <1>5, <2>2, Zenon DEF qmi_handle_message, relv
<1>6. CASE RemoveTxn
  <2>1. txn' \in [Client -> TxnRec]
    BY <1>6 DEF RemoveTxn, Marked, TxnRec, NetReset
  <2>. QED  BY <1>6, <2>1, Zenon DEF RemoveTxn, idr_remove, RelPc
<1>7. CASE CompleteTxn
  <2>1. txn' \in [Client -> TxnRec]
    BY <1>7, Zenon DEF CompleteTxn, TxnRec
  <2>. QED  BY <1>7, <2>1 DEF CompleteTxn, RelPc
<1>8. CASE \/ qmi_handle_release \/ CancelWork \/ CloseSock \/ DestroyWorkqueue
           \/ EndRelease
  BY <1>8, Zenon
     DEF qmi_handle_release, CancelWork, CloseSock, DestroyWorkqueue,
       EndRelease, txnv, RelPc
<1>9. CASE \/ \E v \in Svc : AddToList(v) \/ SendRegistration(v)
                               \/ RegisterAgain(v)
           \/ NameServerStarts \/ \E v \in Lookup : ServerFlaps(v)
           \/ WorkStart \/ Recv \/ qmi_recv_ctrl_pkt \/ SockCreate
           \/ SockCreateFails \/ ReleaseOld \/ FlushResults \/ Install
           \/ StartWalk \/ EndWalk \/ UNCHANGED vars
  BY <1>9, Zenon
     DEF AddToList, SendRegistration, RegisterAgain, NameServerStarts,
       ServerFlaps, WorkStart, Recv, qmi_recv_ctrl_pkt, SockCreate,
       SockCreateFails, ReleaseOld, FlushResults, Install, StartWalk, EndWalk,
       txnv, relv, vars
<1>. QED
  BY <1>1, <1>2, <1>3, <1>4, <1>5, <1>6, <1>7, <1>8, <1>9, Zenon
     DEF Next, ClientStep, WorkStep, ReleaseStep

\* It holds of a new handle, which has no transactions.
LEMMA TxnInvInit == Init => TxnInv
BY QmiAssumption
   DEF Init, TxnInv, Numbered, Apart, Owner, Mine, Reset, Waiting, Emptied,
     Active, Entered, NoTxn, Id

\* Neither the handle's transactions nor the threads change, and the release
\* has not begun to walk the idr.
LEMMA TxnRelease ==
    ASSUME TxnInv, UNCHANGED <<txns, serial, pc, txn, rtxn>>,
           \/ rel' = rel
           \/ /\ rel \notin {"remove", "complete", "done"}
              /\ rel' \notin {"remove", "complete", "done"}
    PROVE  TxnInv'
BY DEF TxnInv, Numbered, Apart, Owner, Mine, Reset, Waiting, Emptied, Active,
   Entered

\* A thread goes on within its call.
LEMMA TxnGoesOn ==
    ASSUME Types, TxnInv, UNCHANGED <<txns, serial, txn, rel, rtxn>>,
           NEW c \in Client, NEW x \in ClientPc, pc' = [pc EXCEPT ![c] = x],
           Active(c), x # "idle",
           x \in {"send", "wait"} => pc[c] \in {"send", "wait"}
    PROVE  TxnInv'
<1>1. \A d \in Client : /\ Active(d)' <=> Active(d)
                        /\ pc'[d] \in {"send", "wait"} =>
                              pc[d] \in {"send", "wait"}
  BY Zenon DEF Active, Types, TxnTypes
<1>2. Numbered' /\ Apart' /\ Owner' /\ Mine' /\ Reset' /\ Emptied'
  BY <1>1 DEF TxnInv, Numbered, Apart, Owner, Mine, Reset, Emptied, Entered
<1>3. Waiting'
  BY <1>1, Zenon DEF TxnInv, Waiting, Entered
<1>. QED  BY <1>2, <1>3, Zenon DEF TxnInv

\* qmi_txn_init enters a transaction with a number and an id of its own.
LEMMA TxnBegins ==
    ASSUME Types, TxnInv, NEW c \in Client, qmi_txn_init(c)
    PROVE  TxnInv'
<1>1. PICK id \in FreeIds :
        /\ txns' = [txns EXCEPT ![id] = serial + 1]
        /\ txn' = [txn EXCEPT ![c] = [n |-> serial + 1, id |-> id,
                                      result |-> 0, done |-> FALSE]]
  BY AllocFree, Zenon DEF qmi_txn_init
<1>2. /\ pc[c] = "idle" /\ rel \notin {"done", "remove", "complete"}
      /\ serial' = serial + 1 /\ rel' = rel
      /\ pc' = [pc EXCEPT ![c] = "send"]
  BY Zenon DEF qmi_txn_init, TxnLockFree, relv
<1>3. id \in Id /\ txns[id] = None
  BY Zenon DEF FreeIds
<1>4. /\ txn'[c].n = serial + 1 /\ txn'[c].id = id /\ txn'[c].result = 0
      /\ pc'[c] = "send"
      /\ txns'[id] = serial + 1
  BY <1>1, <1>2, <1>3, Zenon DEF Types, TxnTypes
<1>5. \A d \in Client \ {c} : txn'[d] = txn[d] /\ pc'[d] = pc[d]
  BY <1>1, <1>2, Zenon DEF Types, TxnTypes
<1>6. \A i \in Id \ {id} : txns'[i] = txns[i]
  BY <1>1, Zenon DEF Types, TxnTypes
<1>7. \A d \in Client : txn[d].n \in Nat /\ txn[d].n <= serial
  BY Zenon DEF Types, TxnTypes, TxnRec, TxnInv, Numbered
<1>8. serial \in Nat /\ None \notin Nat
  BY QmiAssumption, Zenon DEF Types, TxnTypes
<1>9. \A d \in Client \ {c} : Active(d) => Entered(d) /\ txn[d].id # id
  BY <1>2, <1>3, <1>7, <1>8, Zenon DEF TxnInv, Mine, Entered
<1>10. Numbered'
  BY <1>2, <1>4, <1>5, <1>7, <1>8 DEF TxnInv, Numbered, Active
<1>11. Apart'
  BY <1>4, <1>5, <1>7, <1>8 DEF TxnInv, Apart
<1>12. Owner'
  BY <1>2, <1>3, <1>4, <1>5, <1>6 DEF TxnInv, Owner, Active
<1>13. Mine' /\ Waiting'
  <2>1. \A d \in Client : Active(d)' => Entered(d)'
    BY <1>3, <1>4, <1>5, <1>6, <1>9 DEF Active, Entered
  <2>2. \A d \in Client : pc'[d] \in {"send", "wait"} => Active(d)'
    BY Zenon DEF Active
  <2>. QED  BY <2>1, <2>2, Zenon DEF Mine, Waiting
<1>14. Reset'
  <2>1. \A d \in Client \ {c}, i \in Id :
           Active(d) /\ txn[d].result = NetReset => txns'[i] # txn[d].n
    BY <1>4, <1>6, <1>7, <1>8 DEF TxnInv, Reset
  <2>. QED  BY <2>1, <1>4, <1>5 DEF Reset, NetReset, Active
<1>15. Emptied'
  BY <1>2, Zenon DEF Emptied
<1>. QED  BY <1>10, <1>11, <1>12, <1>13, <1>14, <1>15 DEF TxnInv

\* A thread leaves its call: the end of qmi_txn_wait, and qmi_txn_cancel,
\* remove its own id; after -ENETRESET nothing is left to remove.
LEMMA TxnEnds ==
    ASSUME Types, TxnInv, NEW c \in Client, Active(c),
           pc' = [pc EXCEPT ![c] = "idle"],
           UNCHANGED <<serial, txn, rel, rtxn>>,
           \/ TxnLockFree /\ idr_remove(txn[c].id)
           \/ txn[c].result = NetReset /\ UNCHANGED txns
    PROVE  TxnInv'
<1>1. pc'[c] = "idle" /\ \A d \in Client \ {c} : pc'[d] = pc[d]
  BY Zenon DEF Types, TxnTypes
<1>2. \A d \in Client : txn[d].n \in Nat /\ None \notin Nat
  BY QmiAssumption, Zenon DEF Types, TxnTypes, TxnRec
<1>3. \A i \in Id : txns'[i] \in {txns[i], None}
  BY Zenon DEF idr_remove, Types, TxnTypes
<1>4. \A i \in Id : txns'[i] # None => txns[i] # txn[c].n
  <2>1. CASE txn[c].result = NetReset /\ UNCHANGED txns
    BY <2>1, Zenon DEF TxnInv, Reset
  <2>2. CASE TxnLockFree /\ idr_remove(txn[c].id)
    <3>1. CASE rel = "done"
      BY <2>2, <3>1, <1>3 DEF TxnInv, Emptied
    <3>2. CASE rel # "done"
      <4>1. Entered(c) /\ txns'[txn[c].id] = None
        BY <2>2, <3>2, Zenon
           DEF TxnLockFree, TxnInv, Mine, Entered, idr_remove, Types, TxnTypes
      <4>2. SUFFICES ASSUME NEW i \in Id, txns[i] = txn[c].n, i # txn[c].id
                     PROVE  FALSE
        BY <4>1, Zenon
      <4>3. PICK d \in Client : txn[d].n = txns[i] /\ txn[d].id = i
        BY <4>2, <1>2 DEF TxnInv, Owner
      <4>4. txn[c].n > 0
        BY Zenon DEF TxnInv, Numbered
      <4>. QED  BY <4>2, <4>3, <4>4, Zenon DEF TxnInv, Apart
    <3>. QED  BY <3>1, <3>2, Zenon
  <2>. QED  BY <2>1, <2>2, Zenon
<1>5. \A d \in Client \ {c} : Active(d) /\ Entered(d) => Entered(d)'
  <2>1. SUFFICES ASSUME NEW d \in Client \ {c}, Active(d), Entered(d),
                        txns' # txns
                 PROVE  Entered(d)'
    BY Zenon DEF Entered
  <2>2. TxnLockFree /\ idr_remove(txn[c].id)
    BY <2>1, Zenon
  <2>3. rel # "done"
    BY <2>1, <1>2, Zenon DEF TxnInv, Emptied, Entered
  <2>4. Entered(c)
    BY <2>2, <2>3, Zenon DEF TxnLockFree, TxnInv, Mine
  <2>5. txn[d].n > 0
    BY <2>1, Zenon DEF TxnInv, Numbered
  <2>6. txn[d].id # txn[c].id
    BY <2>1, <2>4, <2>5, Zenon DEF TxnInv, Apart, Entered
  <2>. QED  BY <2>1, <2>2, <2>6 DEF Entered, idr_remove, Types, TxnTypes
<1>6. Numbered' /\ Apart'
  BY <1>1, Zenon DEF TxnInv, Numbered, Apart, Active
<1>7. Owner'
  BY <1>1, <1>3, <1>4 DEF TxnInv, Owner, Active
<1>8. Mine'
  BY <1>1, <1>5 DEF TxnInv, Mine, Active
<1>9. Reset'
  BY <1>1, <1>2, <1>3 DEF TxnInv, Reset, Active
<1>10. Waiting'
  BY <1>1, <1>5, Zenon DEF TxnInv, Waiting, Active
<1>11. Emptied'
  BY <1>3, Zenon DEF TxnInv, Emptied
<1>. QED  BY <1>6, <1>7, <1>8, <1>9, <1>10, <1>11 DEF TxnInv

\* qmi_handle_message writes to a transaction that it finds in the idr, and
\* never the mark of the release.
LEMMA TxnAnswered ==
    ASSUME Types, TxnInv, qmi_handle_message
    PROVE  TxnInv'
<1>1. msg.n \in Nat
  BY Zenon DEF qmi_handle_message, Types, SockTypes, Message
<1>2. /\ txn' = Completed(txn, msg.id, msg.n)
      /\ UNCHANGED <<txns, serial, pc, rel, rtxn>>
  BY Zenon DEF qmi_handle_message, relv
<1>3. \A c \in Client :
        /\ txn'[c].n = txn[c].n /\ txn'[c].id = txn[c].id
        /\ txn'[c].result = NetReset => txn[c].result = NetReset
        /\ ~txn'[c].done => ~txn[c].done
  BY <1>1, <1>2 DEF Completed, Types, TxnTypes, TxnRec, NetReset
<1>4. Numbered' /\ Apart' /\ Owner' /\ Emptied'
  BY <1>2, <1>3 DEF TxnInv, Numbered, Apart, Owner, Emptied, Active
<1>5. Mine' /\ Reset' /\ Waiting'
  BY <1>2, <1>3 DEF TxnInv, Mine, Reset, Waiting, Active, Entered
<1>. QED  BY <1>4, <1>5, Zenon DEF TxnInv

\* The release takes a transaction out of the idr: it is nowhere else there,
\* and its thread will be woken in the next step of the release.
LEMMA TxnRemoved ==
    ASSUME Types, TxnInv, RemoveTxn
    PROVE  TxnInv'
<1> DEFINE h == Least(Held)
<1>1. h \in Id /\ txns[h] # None
  BY LeastIn, Zenon DEF Held, RemoveTxn
<1>2. /\ rel \in {"walk", "remove"} /\ rel' = "complete"
      /\ rtxn' = txns[h] /\ txns' = [txns EXCEPT ![h] = None]
      /\ txn' = Marked(txn, txns[h])
      /\ UNCHANGED <<serial, pc>>
  BY Zenon DEF RemoveTxn, idr_remove
<1> HIDE DEF h
<1>3. \A c \in Client :
        /\ txn'[c].n = txn[c].n /\ txn'[c].id = txn[c].id
        /\ txn'[c].done = txn[c].done
        /\ txn'[c].result = NetReset =>
              txn[c].result = NetReset \/ txn[c].n = txns[h]
  BY <1>2, Zenon DEF Marked, Types, TxnTypes, TxnRec
<1>4. txns'[h] = None /\ \A i \in Id \ {h} : txns'[i] = txns[i]
  BY <1>1, <1>2, Zenon DEF Types, TxnTypes
<1>5. \A c \in Client : txn[c].n \in Nat /\ None \notin Nat
  BY QmiAssumption, Zenon DEF Types, TxnTypes, TxnRec
<1>6. \A i \in Id \ {h} : txns[i] # txns[h]
  <2>1. SUFFICES ASSUME NEW i \in Id, i # h, txns[i] = txns[h]
                 PROVE  FALSE
    BY Zenon
  <2>2. PICK c \in Client : Active(c) /\ txn[c].n = txns[h] /\ txn[c].id = h
    BY <1>1, Zenon DEF TxnInv, Owner
  <2>3. PICK d \in Client : Active(d) /\ txn[d].n = txns[i] /\ txn[d].id = i
    BY <1>1, <2>1, Zenon DEF TxnInv, Owner
  <2>4. c = d
    BY <2>1, <2>2, <2>3, Zenon DEF TxnInv, Apart, Numbered
  <2>. QED  BY <2>1, <2>2, <2>3, <2>4
<1>7. Numbered' /\ Apart' /\ Mine' /\ Emptied'
  BY <1>2, <1>3 DEF TxnInv, Numbered, Apart, Mine, Emptied, Active
<1>8. Owner'
  BY <1>2, <1>3, <1>4 DEF TxnInv, Owner, Active
<1>9. Reset'
  BY <1>2, <1>3, <1>4, <1>5, <1>6 DEF TxnInv, Reset, Active
<1>10. Waiting'
  BY <1>2, <1>3, <1>4 DEF TxnInv, Waiting, Entered
<1>. QED  BY <1>7, <1>8, <1>9, <1>10 DEF TxnInv

\* The release wakes the thread of the transaction it took out.
LEMMA TxnCompleted ==
    ASSUME Types, TxnInv, CompleteTxn
    PROVE  TxnInv'
<1>1. /\ rel = "complete" /\ rel' = "remove"
      /\ UNCHANGED <<txns, serial, pc>>
  BY Zenon DEF CompleteTxn
<1>2. \A c \in Client :
        /\ txn'[c].n = txn[c].n /\ txn'[c].id = txn[c].id
        /\ txn'[c].result = txn[c].result
        /\ ~txn'[c].done => ~txn[c].done /\ txn[c].n # rtxn
  BY Zenon DEF CompleteTxn, Types, TxnTypes, TxnRec
<1>3. Numbered' /\ Apart' /\ Owner' /\ Mine' /\ Reset' /\ Emptied'
  BY <1>1, <1>2
     DEF TxnInv, Numbered, Apart, Owner, Mine, Reset, Emptied, Active
<1>4. Waiting'
  BY <1>1, <1>2, Zenon DEF TxnInv, Waiting, Entered
<1>. QED  BY <1>3, <1>4, Zenon DEF TxnInv

\* The release ends when the idr is empty.
LEMMA TxnReleased ==
    ASSUME Types, TxnInv, EndRelease
    PROVE  TxnInv'
<1>1. /\ rel \in {"walk", "remove"} /\ rel' = "done"
      /\ UNCHANGED <<txns, serial, pc, txn, rtxn>>
      /\ \A i \in Id : txns[i] = None
  BY Zenon DEF EndRelease, txnv, Held
<1>. QED
  BY <1>1, Zenon
     DEF TxnInv, Numbered, Apart, Owner, Mine, Reset, Waiting, Emptied, Active,
       Entered

\* Every step keeps the facts about transactions.
LEMMA TxnInvNext == Types /\ TxnInv /\ [Next]_vars => TxnInv'
<1> SUFFICES ASSUME Types, TxnInv, [Next]_vars PROVE TxnInv'
  BY Zenon
<1>1. ASSUME NEW c \in Client, qmi_txn_init(c) PROVE TxnInv'
  BY <1>1, TxnBegins, Zenon
<1>2. ASSUME NEW c \in Client, qmi_send_message(c) \/ Woken(c) \/ Timeout(c)
      PROVE  TxnInv'
  <2>1. /\ UNCHANGED <<txns, serial, txn, rel, rtxn>>
        /\ pc[c] \in {"send", "wait"}
        /\ \E x \in {"wait", "cancel", "woken"} : pc' = [pc EXCEPT ![c] = x]
    BY <1>2, Zenon DEF qmi_send_message, Woken, Timeout, relv
  <2>. QED  BY <2>1, TxnGoesOn, Zenon DEF ClientPc, Active
<1>3. ASSUME NEW c \in Client, qmi_txn_cancel(c) \/ EndWait(c) PROVE TxnInv'
  <2>1. /\ UNCHANGED <<serial, txn, rel, rtxn>> /\ Active(c)
        /\ pc' = [pc EXCEPT ![c] = "idle"]
        /\ TxnLockFree /\ idr_remove(txn[c].id)
    BY <1>3, Zenon DEF qmi_txn_cancel, EndWait, relv, Active
  <2>. QED  BY <2>1, TxnEnds, Zenon
<1>4. ASSUME NEW c \in Client, LookAtResult(c) PROVE TxnInv'
  <2>1. /\ UNCHANGED <<txns, serial, txn, rel, rtxn>> /\ Active(c)
        /\ pc' = [pc EXCEPT ![c] = AfterWait(c)]
    BY <1>4, Zenon DEF LookAtResult, relv, Active
  <2>2. CASE txn[c].result = NetReset
    BY <2>1, <2>2, TxnEnds, Zenon DEF AfterWait
  <2>3. CASE txn[c].result # NetReset
    BY <2>1, <2>3, TxnGoesOn, Zenon DEF AfterWait, ClientPc
  <2>. QED  BY <2>2, <2>3, Zenon
<1>5. CASE qmi_handle_message
  BY <1>5, TxnAnswered, Zenon
<1>6. CASE RemoveTxn
  BY <1>6, TxnRemoved, Zenon
<1>7. CASE CompleteTxn
  BY <1>7, TxnCompleted, Zenon
<1>8. CASE EndRelease
  BY <1>8, TxnReleased, Zenon
<1>9. CASE qmi_handle_release \/ CancelWork \/ CloseSock \/ DestroyWorkqueue
  <2>1. /\ UNCHANGED <<txns, serial, pc, txn, rtxn>>
        /\ rel \in {"no", "cancel", "close", "destroy"}
        /\ rel' \in {"oops", "cancel", "close", "destroy", "walk"}
    BY <1>9, Zenon
       DEF qmi_handle_release, CancelWork, CloseSock, DestroyWorkqueue, txnv
  <2>. QED  BY <2>1, TxnRelease, Zenon
<1>10. CASE \/ \E q \in asked : Answer(q)
            \/ \E v \in Svc : AddToList(v) \/ SendRegistration(v)
            \/ NameServerStarts
            \/ \E v \in Lookup : ServerFlaps(v)
            \/ WorkStart \/ Recv \/ qmi_recv_ctrl_pkt
            \/ SockCreate \/ SockCreateFails \/ ReleaseOld \/ FlushResults
            \/ Install \/ StartWalk \/ (\E v \in Svc : RegisterAgain(v))
            \/ EndWalk \/ UNCHANGED vars
  <2>1. UNCHANGED <<txns, serial, pc, txn, rtxn, rel>>
    BY <1>10, Zenon DEF Answer, AddToList, SendRegistration, NameServerStarts,
         ServerFlaps, WorkStart, Recv, qmi_recv_ctrl_pkt, SockCreate,
         SockCreateFails, ReleaseOld, FlushResults, Install, StartWalk,
         RegisterAgain, EndWalk, vars, txnv, relv
  <2>. QED  BY <2>1, TxnRelease, Zenon
<1>. QED
  BY <1>1, <1>2, <1>3, <1>4, <1>5, <1>6, <1>7, <1>8, <1>9, <1>10, ZenonT(30)
     DEF Next, ClientStep, WorkStep, ReleaseStep

(***************************************************************************)
(* Answers.                                                                *)
(***************************************************************************)
\* The threads of O whose id is in Y.
Having(O, Y) == {d \in O : txn[d].id \in Y}

\* They are at least as many as the ids, when each id is somebody's.
LEMMA OneEach ==
    ASSUME NEW O \in SUBSET Client, NEW Y, \A j \in Y : \E d \in O : txn[d].id = j
    PROVE  /\ IsFiniteSet(Y) /\ Cardinality(Y) \in Nat
           /\ Cardinality(Having(O, Y)) \in Nat
           /\ Cardinality(Y) <= Cardinality(Having(O, Y))
<1> DEFINE H == Having(O, Y)
           f == [d \in H |-> txn[d].id]
<1>1. IsFiniteSet(H)
  <2>1. H \in SUBSET Client
    BY Zenon DEF Having
  <2>. QED  BY <2>1, QmiAssumption, FS_Subset, Zenon
<1>2. f \in [H -> Y] /\ \A j \in Y : \E d \in H : f[d] = j
  BY Zenon DEF Having
<1> HIDE DEF f, H
<1>3. f \in Surjection(H, Y)
  BY <1>2, Zenon DEF Surjection
<1>4. IsFiniteSet(Y) /\ Cardinality(Y) <= Cardinality(H)
  BY <1>1, <1>3, FS_Surjection, Zenon
<1>5. Cardinality(Y) \in Nat /\ Cardinality(H) \in Nat
  BY <1>1, <1>4, FS_CardinalityType, Zenon
<1>. QED  BY <1>4, <1>5, Zenon DEF H

\* Subsets of a finite set, and what is left of it.
LEMMA Parting ==
    ASSUME NEW S, IsFiniteSet(S), NEW T \in SUBSET S
    PROVE  /\ IsFiniteSet(T) /\ IsFiniteSet(S \ T)
           /\ Cardinality(S) \in Nat /\ Cardinality(T) \in Nat
           /\ Cardinality(S \ T) \in Nat
           /\ Cardinality(S) = Cardinality(T) + Cardinality(S \ T)
<1>1. IsFiniteSet(T) /\ IsFiniteSet(S \ T)
  BY FS_Subset, Zenon
<1>2. T \cup (S \ T) = S /\ T \cap (S \ T) = {}
  BY Zenon
<1>3. Cardinality(T \cup (S \ T)) = Cardinality(T) + Cardinality(S \ T)
                                      - Cardinality(T \cap (S \ T))
  BY <1>1, FS_Union, Zenon
<1>4. Cardinality(T \cap (S \ T)) = 0
  BY <1>2, FS_EmptySet, Zenon
<1>5. /\ Cardinality(S) \in Nat /\ Cardinality(T) \in Nat
      /\ Cardinality(S \ T) \in Nat
  BY <1>1, FS_CardinalityType, Zenon
<1>6. Cardinality(T \cup (S \ T)) = Cardinality(S)
  BY <1>2, Zenon
<1>. QED  BY <1>1, <1>3, <1>4, <1>5, <1>6

\* The ids are as many as NIds says.
LEMMA Ids == /\ IsFiniteSet(Id) /\ Cardinality(Id) = NIds
             /\ IsFiniteSet(Client) /\ Cardinality(Client) \in Nat
             /\ NIds \in Nat /\ Id \in SUBSET Nat
<1>1. IsFiniteSet(0 .. NIds - 1)
      /\ Cardinality(0 .. NIds - 1) = IF 0 > NIds - 1 THEN 0 ELSE NIds - 1 - 0 + 1
  <2>1. 0 \in Int /\ NIds - 1 \in Int
    BY QmiAssumption
  <2>. QED  BY <2>1, FS_Interval, Zenon
<1>2. Cardinality(Id) = NIds
  BY <1>1, QmiAssumption DEF Id
<1>3. IsFiniteSet(Client) /\ Cardinality(Client) \in Nat
  BY QmiAssumption, FS_CardinalityType, Zenon
<1>. QED  BY <1>1, <1>2, <1>3, QmiAssumption DEF Id

\* idr_alloc_cyclic skips only ids that are held.
LEMMA AllocNext ==
    ASSUME FreeIds # {}, cursor \in Nat, NEW id, id = idr_alloc_cyclic
    PROVE  /\ id \in FreeIds
           /\ \/ /\ id >= cursor
                 /\ \A j \in Id : cursor <= j /\ j < id => txns[j] # None
              \/ /\ id < cursor
                 /\ \A j \in Id : cursor <= j \/ j < id => txns[j] # None
<1> DEFINE onward == {i \in FreeIds : i >= cursor}
<1>1. \A S \in SUBSET Id : S # {} => Least(S) \in S /\ \A j \in S : Least(S) <= j
  BY LeastIn, Zenon
<1>2. FreeIds \in SUBSET Id /\ onward \in SUBSET Id
  BY Zenon DEF FreeIds
<1>3. \A j \in Id : txns[j] = None => j \in FreeIds
  BY Zenon DEF FreeIds
<1>4. CASE onward # {}
  <2>1. id \in onward /\ \A j \in onward : id <= j
    BY <1>1, <1>2, <1>4, Zenon DEF idr_alloc_cyclic
  <2>. QED  BY <1>2, <1>3, <2>1, Ids
<1>5. CASE onward = {}
  <2>1. id \in FreeIds /\ \A j \in FreeIds : id <= j
    BY <1>1, <1>2, <1>5, Zenon DEF idr_alloc_cyclic
  <2>. QED  BY <1>2, <1>3, <1>5, <2>1, Ids
<1>. QED  BY <1>4, <1>5, Zenon

\* The next transaction: the cursor goes on within its turn, or it comes past i
\* and m is far.
LEMMA TurnGoesOn ==
    ASSUME Types, TxnInv, cursor \in 0 .. NIds, NEW c \in Client, qmi_txn_init(c),
           NEW i \in Id, NEW m \in 1 .. serial, Turn(i, m),
           \A d \in Client : txn[d].n = m => txn[d].id = i
    PROVE  \/ Far(m)'
           \/ txn'[c].id # i /\ Turn(i, m)'
<1> DEFINE id == idr_alloc_cyclic
           Y  == {j \in Id \ Passed(i) : j # i /\ txns[j] # None}
           O  == Older(i, m)
           past == IF i < cursor THEN i <= id /\ id < cursor
                                 ELSE i <= id \/ id < cursor
<1>1. /\ id \in FreeIds
      /\ \/ /\ id >= cursor
            /\ \A j \in Id : cursor <= j /\ j < id => txns[j] # None
         \/ /\ id < cursor
            /\ \A j \in Id : cursor <= j \/ j < id => txns[j] # None
  <2>1. FreeIds # {} /\ cursor \in Nat
    BY Ids DEF qmi_txn_init
  <2> HIDE DEF id
  <2>2. id = idr_alloc_cyclic
    BY Zenon DEF id
  <2>. QED  BY <2>1, <2>2, AllocNext, Zenon
<1>2. /\ serial' = serial + 1 /\ cursor' = id + 1
      /\ txn' = [txn EXCEPT ![c] = [n |-> serial + 1, id |-> id,
                                    result |-> 0, done |-> FALSE]]
      /\ pc' = [pc EXCEPT ![c] = "send"]
  BY Zenon DEF qmi_txn_init
<1> HIDE DEF id
<1>3. id \in Id /\ txns[id] = None
  BY <1>1, Zenon DEF FreeIds
<1>4. \A j \in Id : j \in Nat /\ j < NIds
  BY Ids DEF Id
<1>5. serial \in Nat /\ cursor \in Nat /\ m \in Nat /\ m > 0 /\ m <= serial
      /\ \A d \in Client : txn[d].n \in Nat
  BY Ids DEF Types, TxnTypes, TxnRec
<1>6. /\ txn'[c].n = serial + 1 /\ txn'[c].id = id
      /\ \A d \in Client \ {c} : /\ txn'[d].n = txn[d].n /\ txn'[d].id = txn[d].id
                                 /\ Active(d)' => Active(d)
  BY <1>2, Zenon DEF Types, TxnTypes, Active
<1>7. \A j \in Y : \E d \in O : txn[d].id = j
  <2>1. SUFFICES ASSUME NEW j \in Y PROVE \E d \in O : txn[d].id = j
    BY Zenon
  <2>2. PICK d \in Client : Active(d) /\ txn[d].n = txns[j] /\ txn[d].id = j
    BY <2>1, Zenon DEF TxnInv, Owner
  <2>3. txn[d].n < m
    BY <1>5, <2>1, <2>2 DEF Turn
  <2>. QED  BY <2>1, <2>2, <2>3, Zenon DEF Older
<1>8. /\ IsFiniteSet(O) /\ Cardinality(O) \in Nat
      /\ IsFiniteSet(Passed(i)) /\ Cardinality(Passed(i)) \in Nat
  <2>1. O \in SUBSET Client /\ Passed(i) \in SUBSET Id
    BY Zenon DEF Older, Passed
  <2>. QED  BY <2>1, Ids, FS_Subset, FS_CardinalityType, Zenon
<1>9. Cardinality(Passed(i)) + Cardinality(O) < serial - m + Cardinality(Client)
  BY Zenon DEF Turn
<1>10. CASE past
  <2>1. \A j \in Id : j # i => j \in Passed(i) \/ txns[j] # None
    <3>1. SUFFICES ASSUME NEW j \in Id, j # i, txns[j] = None
                   PROVE  j \in Passed(i)
      BY Zenon
    <3>2. IF id >= cursor THEN ~(cursor <= j /\ j < id)
                          ELSE ~(cursor <= j) /\ ~(j < id)
      BY <1>1, <1>3, <1>4, <1>5, <3>1
    <3>3. /\ i \in Nat /\ j \in Nat /\ id \in Nat
          /\ j < NIds /\ i < NIds /\ id < NIds
      BY <1>3, <1>4, Zenon
    <3>4. IF i < cursor THEN i < j /\ j < cursor ELSE i < j \/ j < cursor
      BY <1>5, <1>10, <3>1, <3>2, <3>3
    <3>. QED  BY <3>1, <3>4, Zenon DEF Passed
  <2>2. Y = (Id \ {i}) \ Passed(i)
    BY <2>1, Zenon
  <2>3. Passed(i) \subseteq Id \ {i}
    BY <1>4, <1>5 DEF Passed
  <2>4. /\ Cardinality(Y) \in Nat /\ Cardinality(Having(O, Y)) \in Nat
        /\ Cardinality(Y) <= Cardinality(Having(O, Y))
        /\ Cardinality(Having(O, Y)) <= Cardinality(O)
    <3>1. O \in SUBSET Client
      BY Zenon DEF Older
    <3>2. Having(O, Y) \in SUBSET O
      BY Zenon DEF Having
    <3> HIDE DEF O, Y
    <3>. QED  BY <1>7, <1>8, <3>1, <3>2, OneEach, FS_Subset, Zenon
  <2>5. NIds - 1 = Cardinality(Passed(i)) + Cardinality(Y)
    <3>1. Cardinality(Id \ {i}) = NIds - 1 /\ IsFiniteSet(Id \ {i})
      BY Ids, FS_RemoveElement, Zenon
    <3>2. Cardinality(Id \ {i})
             = Cardinality(Passed(i)) + Cardinality((Id \ {i}) \ Passed(i))
      BY <2>3, <3>1, Parting, Zenon
    <3>. QED  BY <2>2, <3>1, <3>2, Zenon
  <2>6. Far(m)'
    <3> HIDE DEF O, Y
    <3>. QED  BY <1>2, <1>5, <1>8, <1>9, <2>4, <2>5, Ids DEF Far
  <2>. QED  BY <2>6, Zenon
<1>11. CASE ~past
  <2> DEFINE P == Passed(i)'
             Z == (P \ Passed(i)) \ {id}
  <2>1. /\ i \in Nat /\ id \in Nat /\ id # i /\ i < NIds /\ id < NIds
        /\ \A j \in Id : j \in P <=>
              IF i < id + 1 THEN i < j /\ j < id + 1 ELSE i < j \/ j < id + 1
        /\ \A j \in Id : j \in Passed(i) <=>
              IF i < cursor THEN i < j /\ j < cursor ELSE i < j \/ j < cursor
    <3>1. i \in Nat /\ id \in Nat /\ id # i /\ i < NIds /\ id < NIds
      BY <1>3, <1>4, <1>5, <1>11
    <3>. QED  BY <1>2, <3>1, Zenon DEF Passed
  <2>2. Passed(i) \subseteq P /\ id \in P
    <3>1. SUFFICES ASSUME NEW j \in Id, j \in Passed(i) \/ j = id PROVE j \in P
      BY <1>3, Zenon DEF Passed
    <3>2. j \in Nat /\ j < NIds
      BY <1>4, Zenon
    <3>. QED  BY <1>1, <1>5, <1>11, <2>1, <3>1, <3>2
  <2>3. Z \subseteq Y
    <3>1. SUFFICES ASSUME NEW j \in Id, j \in P, j \notin Passed(i), j # id
                   PROVE  j # i /\ txns[j] # None
      BY Zenon DEF Passed
    <3>2. j \in Nat /\ j < NIds
      BY <1>4, Zenon
    <3>. QED  BY <1>1, <1>3, <1>5, <1>11, <2>1, <3>1, <3>2
  <2>4. /\ Cardinality(Z) \in Nat /\ Cardinality(Having(O, Z)) \in Nat
        /\ Cardinality(Z) <= Cardinality(Having(O, Z))
    <3>1. O \in SUBSET Client /\ \A j \in Z : \E d \in O : txn[d].id = j
      BY <1>7, <2>3, Zenon DEF Older
    <3> HIDE DEF O, Z
    <3>. QED  BY <3>1, OneEach, Zenon
  <2>5. /\ Cardinality(P) \in Nat
        /\ Cardinality(P) <= Cardinality(Passed(i)) + Cardinality(Z) + 1
    <3>1. IsFiniteSet(P)
      <4>1. P \in SUBSET Id
        BY Zenon DEF Passed
      <4>. QED  BY <4>1, Ids, FS_Subset, Zenon
    <3> HIDE DEF P
    <3>2. /\ IsFiniteSet(P \ Passed(i)) /\ Cardinality(P) \in Nat
          /\ Cardinality(P \ Passed(i)) \in Nat
          /\ Cardinality(P) = Cardinality(Passed(i)) + Cardinality(P \ Passed(i))
      BY <2>2, <3>1, Parting, Zenon
    <3>3. Cardinality(Z) = IF id \in P \ Passed(i)
                           THEN Cardinality(P \ Passed(i)) - 1
                           ELSE Cardinality(P \ Passed(i))
      BY <3>2, FS_RemoveElement, Zenon
    <3> HIDE DEF Z
    <3>. QED  BY <1>8, <2>4, <3>2, <3>3
  <2>6. /\ Cardinality(Older(i, m)') \in Nat
        /\ Cardinality(Older(i, m)') + Cardinality(Having(O, Z)) <= Cardinality(O)
    <3>1. Older(i, m)' \subseteq O \ Having(O, Z)
      BY <1>5, <1>6, <2>2, Zenon DEF Older, Having
    <3>2. Having(O, Z) \in SUBSET O
      BY Zenon DEF Having
    <3> DEFINE Q == Older(i, m)'
               R == Having(O, Z)
    <3> HIDE DEF O, Z, Q, R
    <3>3. /\ IsFiniteSet(O \ R) /\ Cardinality(O \ R) \in Nat
          /\ Cardinality(R) \in Nat
          /\ Cardinality(O) = Cardinality(R) + Cardinality(O \ R)
      BY <1>8, <3>2, Parting, Zenon DEF R
    <3>4. Cardinality(Q) <= Cardinality(O \ R) /\ Cardinality(Q) \in Nat
      BY <3>1, <3>3, FS_Subset, FS_CardinalityType, Zenon DEF Q, R
    <3>. QED  BY <3>3, <3>4, <1>8 DEF Q, R
  <2>7. Cardinality(P) + Cardinality(Older(i, m)')
           < serial' - m + Cardinality(Client)
    <3> DEFINE Q == Cardinality(Older(i, m)')
    <3> HIDE DEF O, Z, P, Q
    <3>. QED  BY <1>2, <1>5, <1>8, <1>9, <2>4, <2>5, <2>6, Ids DEF Q
  <2>8. \A d \in Client : Active(d)' /\ txn'[d].n > m => txn'[d].id \in P
    BY <1>6, <2>2, Zenon DEF Turn
  <2>9. Turn(i, m)'
    BY <2>7, <2>8, Zenon DEF Turn
  <2>. QED  BY <1>6, <2>1, <2>9, Zenon
<1>. QED  BY <1>10, <1>11, Zenon

\* Nothing changes for (i, m) when no transaction begins.
LEMMA UsedStays ==
    ASSUME NEW i, NEW m, Used(i, m), UNCHANGED <<serial, cursor>>,
           \A c \in Client : /\ txn'[c].n = txn[c].n /\ txn'[c].id = txn[c].id
                             /\ Active(c)' => Active(c)
    PROVE  Used(i, m)'
<1>1. Passed(i)' = Passed(i)
  BY Zenon DEF Passed
<1>2. Older(i, m)' = Older(i, m)
  BY <1>1, Zenon DEF Older
<1>3. Far(m)' = Far(m) /\ (Turn(i, m) => Turn(i, m)')
  BY <1>1, <1>2, Zenon DEF Far, Turn
<1>. QED  BY <1>3, Zenon DEF Used

\* What qmi_txn_init does to transactions.
LEMMA BeginFacts ==
    ASSUME Types, TxnInv, NEW c \in Client, qmi_txn_init(c)
    PROVE  /\ idr_alloc_cyclic \in Id /\ cursor' = idr_alloc_cyclic + 1
           /\ serial \in Nat /\ serial' = serial + 1
           /\ txn'[c] = [n |-> serial + 1, id |-> idr_alloc_cyclic,
                         result |-> 0, done |-> FALSE]
           /\ \A d \in Client \ {c} :
                 /\ txn'[d] = txn[d] /\ (Active(d)' => Active(d))
                 /\ Active(d) => txn[d].id # idr_alloc_cyclic
           /\ txn'[c].n = serial + 1 /\ txn'[c].id = idr_alloc_cyclic
           /\ \A d \in Client : txn[d].n \in Nat /\ txn[d].n <= serial
<1>1. /\ pc[c] = "idle" /\ rel \notin {"done", "remove", "complete"}
      /\ FreeIds # {} /\ serial' = serial + 1 /\ cursor' = idr_alloc_cyclic + 1
      /\ txn' = [txn EXCEPT ![c] = [n |-> serial + 1, id |-> idr_alloc_cyclic,
                                    result |-> 0, done |-> FALSE]]
      /\ pc' = [pc EXCEPT ![c] = "send"]
  BY Zenon DEF qmi_txn_init, TxnLockFree
<1>2. idr_alloc_cyclic \in Id /\ txns[idr_alloc_cyclic] = None
  BY <1>1, AllocFree, Zenon DEF FreeIds
<1>3. \A d \in Client : txn[d].n \in Nat /\ txn[d].n <= serial
  BY Zenon DEF Types, TxnTypes, TxnRec, TxnInv, Numbered
<1>4. \A d \in Client : Active(d) => txn[d].id # idr_alloc_cyclic
  BY <1>1, <1>2, <1>3, QmiAssumption DEF TxnInv, Mine, Entered
<1>5. /\ txn'[c] = [n |-> serial + 1, id |-> idr_alloc_cyclic,
                    result |-> 0, done |-> FALSE]
      /\ \A d \in Client \ {c} : txn'[d] = txn[d]
  BY <1>1, Zenon DEF Types, TxnTypes
<1>6. \A d \in Client \ {c} : Active(d)' => Active(d)
  BY <1>1, Zenon DEF Types, TxnTypes, Active
<1>7. txn'[c].n = serial + 1 /\ txn'[c].id = idr_alloc_cyclic
  <2> DEFINE i == idr_alloc_cyclic
  <2> HIDE DEF i
  <2>1. txn'[c] = [n |-> serial + 1, id |-> i, result |-> 0, done |-> FALSE]
    BY <1>5, Zenon DEF i
  <2>2. txn'[c].n = serial + 1 /\ txn'[c].id = i
    BY <2>1
  <2>. QED  BY <2>2, Zenon DEF i
<1>. QED
  BY <1>1, <1>2, <1>3, <1>4, <1>5, <1>6, <1>7, Zenon DEF Types, TxnTypes

\* A transaction that begins leaves (i, m) used.
LEMMA UsedGoesOn ==
    ASSUME Types, TxnInv, cursor \in 0 .. NIds, NEW c \in Client, qmi_txn_init(c),
           NEW i, NEW m, Used(i, m)
    PROVE  Used(i, m)'
<1>1. /\ i \in Id /\ m \in 1 .. serial /\ serial \in Nat
      /\ \A d \in Client : txn[d].n = m => txn[d].id = i
  BY Zenon DEF Used, Types, TxnTypes
<1>2. /\ txn'[c].n = serial + 1 /\ serial' = serial + 1
      /\ \A d \in Client \ {c} : txn'[d] = txn[d] /\ (Active(d)' => Active(d))
  BY BeginFacts, Zenon
<1>3. Far(m)' \/ (txn'[c].id # i /\ Turn(i, m)')
  <2>1. CASE Far(m)
    <3>1. m \in Nat /\ serial \in Nat
      BY <1>1
    <3>2. Far(m)'
      BY <1>2, <2>1, <3>1, Ids DEF Far
    <3>. QED  BY <3>2, Zenon
  <2>2. CASE Turn(i, m)
    BY <1>1, <2>2, TurnGoesOn, Zenon
  <2>. QED  BY <2>1, <2>2, Zenon DEF Used
<1>4. txn'[c].id = i => txn'[c].n - m > NIds - Cardinality(Client)
  BY <1>1, <1>2, <1>3, Zenon DEF Far
<1>5. \A d \in Client : Active(d)' /\ txn'[d].id = i /\ txn'[d].n # m =>
          txn'[d].n - m > NIds - Cardinality(Client)
  BY <1>2, <1>4, Zenon DEF Used
<1>6. \A d \in Client : txn'[d].n = m => txn'[d].id = i
  BY <1>1, <1>2
<1>7. m \in 1 .. serial'
  BY <1>1, <1>2
<1>. QED  BY <1>1, <1>3, <1>5, <1>6, <1>7, Zenon DEF Used

\* A new transaction is the first use of its number.
LEMMA UsedBegins ==
    ASSUME Types, TxnInv, NEW c \in Client, qmi_txn_init(c),
           NEW i, i = idr_alloc_cyclic, NEW m, m = serial + 1
    PROVE  Used(i, m)'
<1>1. /\ i \in Id /\ cursor' = i + 1
      /\ serial \in Nat /\ serial' = serial + 1
      /\ txn'[c] = [n |-> serial + 1, id |-> i,
                    result |-> 0, done |-> FALSE]
      /\ \A d \in Client \ {c} :
            /\ txn'[d] = txn[d] /\ (Active(d)' => Active(d))
            /\ Active(d) => txn[d].id # i
      /\ \A d \in Client : txn[d].n \in Nat /\ txn[d].n <= serial
  BY BeginFacts, Zenon
<1>2. Passed(i)' = {}
  <2>1. i \in Nat /\ \A j \in Id : j \in Nat
    BY <1>1, Ids, Zenon
  <2>2. \A j \in Id : j \notin Passed(i)'
    BY <1>1, <2>1 DEF Passed
  <2>. QED  BY <2>2, Zenon DEF Passed
<1>3. Older(i, m)' \in SUBSET (Client \ {c})
  BY <1>1 DEF Older
<1>4. /\ IsFiniteSet(Client \ {c})
      /\ Cardinality(Client \ {c}) = Cardinality(Client) - 1
  BY Ids, FS_RemoveElement, Zenon
<1>5. Cardinality(Older(i, m)') \in Nat
      /\ Cardinality(Older(i, m)') <= Cardinality(Client \ {c})
  <2> DEFINE Q == Older(i, m)'
  <2> HIDE DEF Q
  <2>1. Q \in SUBSET (Client \ {c})
    BY <1>3, Zenon DEF Q
  <2>2. Cardinality(Q) \in Nat /\ Cardinality(Q) <= Cardinality(Client \ {c})
    BY <1>4, <2>1, FS_Subset, FS_CardinalityType, Zenon
  <2>. QED  BY <2>2, Zenon DEF Q
<1>6. Cardinality(Passed(i)') = 0
  BY <1>2, FS_EmptySet, Zenon
<1>7. Turn(i, m)'
  <2>1. Cardinality(Passed(i)') + Cardinality(Older(i, m)')
          < serial' - m + Cardinality(Client)
    <3> DEFINE Q == Cardinality(Older(i, m)')
               P == Cardinality(Passed(i)')
    <3> HIDE DEF Q, P
    <3>1. P = 0 /\ Q \in Nat /\ Q <= Cardinality(Client) - 1
      BY <1>4, <1>5, <1>6 DEF P, Q
    <3>2. P + Q < serial' - m + Cardinality(Client)
      BY <1>1, <3>1, Ids
    <3>. QED  BY <3>2, Zenon DEF P, Q
  <2>2. \A d \in Client : ~(txn'[d].n > m)
    BY <1>1
  <2>. QED  BY <2>1, <2>2, Zenon DEF Turn
<1>. QED  BY <1>1, <1>7 DEF Used

\* At the start there are no transactions and no messages.
LEMMA AnswerInit == Init => AnswerInv
<1> SUFFICES ASSUME Init PROVE AnswerInv
  BY Zenon
<1>1. Counters
  <2>1. budget.txns \in Nat
    BY QmiAssumption, Zenon DEF Init
  <2>. QED  BY <2>1, QmiAssumption DEF Init, Counters
<1>2. asked = {} /\ serial = 0 /\ work # "message"
      /\ \A c \in Client : ~Active(c) /\ txn[c] = NoTxn
  BY Zenon DEF Init, Active
<1>3. \A s \in Sock : DOMAIN rx[s] = {}
  BY DEF Init
<1>4. \A m : ~OnItsWay(m)
  BY <1>2, <1>3, Zenon DEF OnItsWay
<1>5. \A c \in Client : Result(c)
  <2>1. SUFFICES ASSUME NEW c \in Client PROVE Result(c)
    BY Zenon
  <2>2. Cardinality(Client) # 0
    BY <2>1, Ids, FS_EmptySet
  <2>3. 0 \in Id
    BY <2>2, Ids, QmiAssumption DEF Id
  <2>4. txn[c].id = 0 /\ txn[c].result = 0
    BY <1>2 DEF NoTxn
  <2>. QED  BY <1>2, <2>3, <2>4 DEF Result, NetReset
<1>. QED  BY <1>1, <1>2, <1>4, <1>5, Zenon DEF AnswerInv, Begun

\* Only qmi_txn_init begins a transaction, and what it began keeps its number
\* and its id.
LEMMA TxnsKeepIds ==
    ASSUME Types, [Next]_vars, ~\E c \in Client : qmi_txn_init(c)
    PROVE  /\ UNCHANGED <<serial, cursor>>
           /\ \A c \in Client : /\ txn'[c].n = txn[c].n /\ txn'[c].id = txn[c].id
                                /\ Active(c)' => Active(c)
<1> DEFINE Goal == /\ UNCHANGED <<serial, cursor>>
                   /\ \A c \in Client :
                         /\ txn'[c].n = txn[c].n /\ txn'[c].id = txn[c].id
                         /\ Active(c)' => Active(c)
<1>1. CASE /\ UNCHANGED <<serial, cursor, pc>>
           /\ \A c \in Client : txn'[c].n = txn[c].n /\ txn'[c].id = txn[c].id
  BY <1>1, Zenon DEF Active
<1>2. CASE qmi_handle_message \/ RemoveTxn \/ CompleteTxn
  <2>1. UNCHANGED <<serial, cursor, pc>>
    BY <1>2, Zenon DEF qmi_handle_message, RemoveTxn, CompleteTxn
  <2>2. \A c \in Client : txn'[c].n = txn[c].n /\ txn'[c].id = txn[c].id
    BY <1>2 DEF qmi_handle_message, RemoveTxn, CompleteTxn, Completed, Marked,
                Types, TxnTypes, TxnRec
  <2>. QED  BY <1>1, <2>1, <2>2
<1>3. ASSUME NEW c \in Client, ClientStep(c) \/ Timeout(c) PROVE Goal
  <2>1. /\ UNCHANGED <<serial, cursor, txn>> /\ Active(c)
        /\ \E x : pc' = [pc EXCEPT ![c] = x]
    BY <1>3, Zenon DEF ClientStep, qmi_send_message, qmi_txn_cancel, Woken,
                LookAtResult, EndWait, Timeout, Active
  <2>2. \A d \in Client \ {c} : pc'[d] = pc[d]
    BY <2>1, Zenon DEF Types, TxnTypes
  <2>. QED  BY <2>1, <2>2, Zenon DEF Active
<1>4. CASE UNCHANGED <<serial, cursor, pc, txn>>
  BY <1>1, <1>4, Zenon
<1>. QED
  BY <1>2, <1>3, <1>4, ZenonT(30)
     DEF Next, WorkStep, ReleaseStep, Answer, SendRegistration,
       NameServerStarts, ServerFlaps, AddToList, WorkStart, Recv,
       qmi_recv_ctrl_pkt, SockCreate, SockCreateFails, ReleaseOld,
       FlushResults, Install, StartWalk, RegisterAgain, EndWalk,
       qmi_handle_release, CancelWork, CloseSock, DestroyWorkqueue,
       EndRelease, vars, txnv

\* Numbers and ids that were used together stay so.
LEMMA UsedNext ==
    ASSUME Types, TxnInv, [Next]_vars, cursor \in 0 .. NIds,
           NEW i, NEW m, Used(i, m)
    PROVE  Used(i, m)'
BY UsedGoesOn, UsedStays, TxnsKeepIds, Zenon

\* The result of a transaction is set by its answer, by a late answer to an
\* earlier user of its id, or by the release.
LEMMA ResultNext ==
    ASSUME Types, TxnInv, AnswerInv, [Next]_vars, NEW c \in Client
    PROVE  Result(c)'
<1>1. serial \in Nat /\ txn[c] \in TxnRec /\ txn[c].n \in Nat /\ Result(c)
      /\ txn[c].result \in Int
  BY Zenon DEF Types, TxnTypes, TxnRec, AnswerInv
<1>2. ASSUME NEW d \in Client, qmi_txn_init(d) PROVE Result(c)'
  <2>1. /\ serial' = serial + 1
        /\ txn'[c] = txn[c] \/ (txn'[c].id \in Id /\ txn'[c].result = 0)
    <3>1. idr_alloc_cyclic \in Id /\ serial' = serial + 1
          /\ txn'[d] = [n |-> serial + 1, id |-> idr_alloc_cyclic,
                        result |-> 0, done |-> FALSE]
          /\ \A e \in Client \ {d} : txn'[e] = txn[e]
      BY <1>2, BeginFacts, Zenon
    <3>. QED  BY <3>1
  <2>. QED  BY <1>1, <2>1 DEF Result, NetReset
<1>3. CASE qmi_handle_message
  <2>1. serial' = serial /\ work = "message" /\ msg.type = "resp"
        /\ txn' = Completed(txn, msg.id, msg.n)
    BY <1>3, Zenon DEF qmi_handle_message
  <2>2. Used(msg.id, msg.n)
    BY <2>1, Zenon DEF AnswerInv, OnItsWay
  <2>3. CASE txn'[c] = txn[c]
    BY <1>1, <2>1, <2>3, ZenonT(30) DEF Result
  <2>4. CASE txn'[c] # txn[c]
    <3>1. /\ txn'[c].n = txn[c].n /\ txn'[c].id = txn[c].id
          /\ txn'[c].result = msg.n
          /\ Active(c) /\ txns[msg.id] = txn[c].n
      BY <2>1, <2>4, Zenon DEF Completed, Active
    <3>2. msg.id \in Id /\ msg.n \in 1 .. serial
      BY <2>2, Zenon DEF Used
    <3>3. txn[c].id = msg.id
      <4>1. txn[c].n > 0 /\ txns[msg.id] # None
        BY <1>1, <3>1, QmiAssumption DEF TxnInv, Numbered
      <4>2. PICK d \in Client : txn[d].n = txns[msg.id] /\ txn[d].id = msg.id
        BY <3>2, <4>1 DEF TxnInv, Owner
      <4>. QED  BY <3>1, <4>1, <4>2 DEF TxnInv, Apart
    <3>4. \/ txn[c].n = msg.n
          \/ txn[c].n - msg.n > NIds - Cardinality(Client)
      BY <2>2, <3>1, <3>3, Zenon DEF Used
    <3>. QED  BY <1>1, <2>1, <3>1, <3>2, <3>4 DEF Result, NetReset
  <2>. QED  BY <2>3, <2>4, Zenon
<1>4. CASE RemoveTxn \/ CompleteTxn
  <2>1. /\ serial' = serial /\ txn'[c].id = txn[c].id /\ txn'[c].n = txn[c].n
        /\ txn'[c].result = txn[c].result \/ txn'[c].result = NetReset
    BY <1>1, <1>4 DEF RemoveTxn, CompleteTxn, Marked, TxnRec
  <2>. QED  BY <1>1, <2>1 DEF Result, NetReset
<1>5. CASE UNCHANGED <<serial, txn>>
  BY <1>1, <1>5, Zenon DEF Result
<1>. QED
  BY <1>2, <1>3, <1>4, <1>5, ZenonT(30)
     DEF Next, ClientStep, WorkStep, ReleaseStep, qmi_send_message,
       qmi_txn_cancel, Woken, LookAtResult, EndWait, Timeout, Answer,
       SendRegistration, NameServerStarts, ServerFlaps, AddToList, WorkStart,
       Recv, qmi_recv_ctrl_pkt, SockCreate, SockCreateFails, ReleaseOld,
       FlushResults, Install, StartWalk, RegisterAgain, EndWalk,
       qmi_handle_release, CancelWork, CloseSock, DestroyWorkqueue,
       EndRelease, vars, txnv

\* Every step keeps the facts about answers.
LEMMA AnswerNext ==
    ASSUME Types, TxnInv, RegInv, AnswerInv, [Next]_vars
    PROVE  AnswerInv'
<1>1. Counters'
  <2>1. ASSUME NEW c \in Client, qmi_txn_init(c) PROVE Counters'
    <3>1. serial < budget.txns /\ budget \in Budgets /\ budget' = budget
      BY <2>1, Zenon DEF qmi_txn_init, nsv, AnswerInv, Counters
    <3>2. budget.txns \in Nat
      BY <3>1, QmiAssumption, ZenonT(30)
    <3>. QED  BY <2>1, <3>1, <3>2, BeginFacts, Ids DEF Id, Counters
  <2>2. budget' = budget
    BY Zenon DEF Next, ClientStep, WorkStep, ReleaseStep, qmi_send_message,
         qmi_txn_init, qmi_txn_cancel, Woken, LookAtResult, EndWait, Timeout,
         Answer, AddToList, SendRegistration, NameServerStarts, ServerFlaps,
         WorkStart, Recv, qmi_handle_message, qmi_recv_ctrl_pkt, SockCreate,
         SockCreateFails, ReleaseOld, FlushResults, Install, StartWalk,
         RegisterAgain, EndWalk, qmi_handle_release, CancelWork, CloseSock,
         DestroyWorkqueue, RemoveTxn, CompleteTxn, EndRelease, vars, nsv
  <2>. QED  BY <2>1, <2>2, TxnsKeepIds, Zenon DEF AnswerInv, Counters
<1>2. \A i, m : Used(i, m) => Used(i, m)'
  BY UsedNext, Zenon DEF AnswerInv, Counters
<1>3. \A i, m : Begun(i, m)' => Used(i, m)'
  <2>1. SUFFICES ASSUME NEW i, NEW m, Begun(i, m)' PROVE Used(i, m)'
    BY Zenon
  <2>2. CASE Begun(i, m)
    BY <1>2, <2>2, Zenon DEF AnswerInv
  <2>3. ASSUME NEW c \in Client, qmi_txn_init(c), ~Begun(i, m)
        PROVE  Used(i, m)'
    <3>1. /\ txn'[c].n = serial + 1 /\ txn'[c].id = idr_alloc_cyclic
          /\ \A d \in Client \ {c} : txn'[d] = txn[d] /\ (Active(d)' => Active(d))
      BY <2>3, BeginFacts, Zenon
    <3>2. txn'[c].id = i /\ txn'[c].n = m
      BY <2>1, <2>3, <3>1, Zenon DEF Begun
    <3>3. i = idr_alloc_cyclic /\ m = serial + 1
      BY <3>1, <3>2, Zenon
    <3>. QED  BY <2>3, <3>3, UsedBegins
  <2>4. CASE ~\E c \in Client : qmi_txn_init(c)
    BY <1>2, <2>1, <2>2, <2>4, TxnsKeepIds, Zenon DEF Begun
  <2>. QED  BY <2>2, <2>3, <2>4
<1>4. \A q \in asked' : Used(q.id, q.n)'
  <2>1. ASSUME NEW c \in Client, qmi_send_message(c), NEW q \in asked'
        PROVE  Used(q.id, q.n)
    <3>1. Active(c)
      BY <2>1, Zenon DEF qmi_send_message, Active
    <3>2. \/ q \in asked
          \/ q = [id |-> txn[c].id, n |-> txn[c].n, from |-> sock]
      BY <2>1, Zenon DEF qmi_send_message
    <3>3. Used(txn[c].id, txn[c].n)
      BY <3>1, Zenon DEF AnswerInv, Begun
    <3>4. CASE q \in asked
      BY <3>4, Zenon DEF AnswerInv
    <3>5. CASE q = [id |-> txn[c].id, n |-> txn[c].n, from |-> sock]
      <4>1. q.id = txn[c].id /\ q.n = txn[c].n
        BY <3>5, Zenon
      <4>. QED  BY <3>3, <4>1, Zenon
    <3>. QED  BY <3>2, <3>4, <3>5, Zenon
  <2>2. asked' \subseteq asked \/ \E c \in Client : qmi_send_message(c)
    BY Zenon
     DEF Next, ClientStep, WorkStep, ReleaseStep, qmi_txn_init,
       qmi_txn_cancel, Woken, LookAtResult, EndWait, Timeout, Answer,
       SendRegistration, NameServerStarts, ServerFlaps, AddToList, WorkStart,
       Recv, qmi_handle_message, qmi_recv_ctrl_pkt, SockCreate,
       SockCreateFails, ReleaseOld, FlushResults, Install, StartWalk,
       RegisterAgain, EndWalk, qmi_handle_release, CancelWork, CloseSock,
       DestroyWorkqueue, RemoveTxn, CompleteTxn, EndRelease, vars, txnv
  <2>. QED  BY <1>2, <2>1, <2>2, Zenon DEF AnswerInv
<1>5. \A m : OnItsWay(m)' /\ m.type = "resp" => Used(m.id, m.n)'
  <2>1. SUFFICES ASSUME NEW m, OnItsWay(m)', m.type = "resp"
                 PROVE  Used(m.id, m.n)
    BY <1>2, Zenon
  <2>2. CASE OnItsWay(m)
    BY <2>1, <2>2, Zenon DEF AnswerInv
  <2>3. ASSUME NEW q \in asked, m = Resp(q.id, q.n) PROVE Used(m.id, m.n)
    <3>1. m.id = q.id /\ m.n = q.n
      BY <2>3, Zenon DEF Resp
    <3>. QED  BY <3>1, Zenon DEF AnswerInv
  <2>4. ASSUME NEW v \in Lookup, m \in {NewServer(v), DelServer(v)}
        PROVE  FALSE
    BY <2>1, <2>4 DEF NewServer, DelServer
  <2>. QED  BY <2>1, <2>2, <2>3, <2>4, MailNext, Zenon DEF RegInv, Ranges
<1>6. \A c \in Client : Result(c)'
  BY ResultNext, Zenon
<1>. QED  BY <1>1, <1>3, <1>4, <1>5, <1>6, Zenon DEF AnswerInv

(***************************************************************************)
(* Theorems.                                                               *)
(***************************************************************************)
\* The inductive invariant: the types and the facts about transactions,
\* sockets, registrations and answers hold in every state of the handle.
THEOREM Invariance == Spec => []Inv
<1>1. Init => Inv
  BY TypesInit, TxnInvInit, SockInvInit, RegInit, AnswerInit DEF Inv
<1>2. Inv /\ [Next]_vars => Inv'
  <2>1. SUFFICES ASSUME Inv, [Next]_vars PROVE Inv'
    BY Zenon
  <2>2. Types' /\ TxnInv' /\ SockInv'
    BY <2>1, TxnTypesNext, SockTypesNext, TxnInvNext, SockInvNext
       DEF Inv, Types
  <2>. QED  BY <2>1, <2>2, RegInvNext, AnswerNext, Zenon DEF Inv
<1>. QED  BY <1>1, <1>2, PTL DEF Spec

\* For any number of threads and ids, whatever times out, is answered late or
\* is released meanwhile, what the idr holds belongs to a thread that is still
\* in its call.
THEOREM TxnsAreLive == Spec => []NoDanglingTxn
<1>1. Inv => NoDanglingTxn
  BY Zenon DEF Inv, TxnInv, Owner, Active, NoDanglingTxn
<1>. QED  BY <1>1, Invariance, PTL

\* For any number of sockets and name servers, a worker that sleeps has read
\* its socket and seen its error.
THEOREM WakeupsArrive == Spec => []NoLostWakeup
<1>1. ASSUME Inv PROVE NoLostWakeup
  <2>1. SUFFICES ASSUME work = "idle", ~pending, rel = "no", ~failed
                 PROVE  sock # 0 /\ rx[sock] = <<>> /\ sock \notin err
    BY Zenon DEF NoLostWakeup
  <2>2. Coming = sock
    BY <2>1, Zenon DEF Coming, Replacing
  <2>3. sock \in Sock
    BY <1>1, <2>1, <2>2, ComingOpen, Zenon DEF Inv, Types, SockInv
  <2>. QED  BY <1>1, <2>1, <2>2, <2>3 DEF Inv, SockInv, Told, Sock
<1>. QED  BY <1>1, Invariance, PTL

\* A release that no socket replacement got in the way of leaves no socket, no
\* work and no thread that nobody will wake.
THEOREM ReleaseIsClean == Spec => []ReleaseStopsHandling
<1>1. ASSUME Inv PROVE ReleaseStopsHandling
  <2>1. SUFFICES ASSUME rel = "done", ~raced
                 PROVE  /\ live = {} /\ user_data = {} /\ ~pending
                        /\ work = "idle"
                        /\ \A c \in Client : pc[c] = "wait" => txn[c].done
    BY Zenon DEF ReleaseStopsHandling
  <2>2. live = {} /\ user_data = {} /\ ~pending /\ work = "idle"
    BY <1>1, <2>1, Zenon DEF Inv, SockInv, Closing
  <2>3. \A c \in Client : ~Entered(c)
    BY <1>1, <2>1, QmiAssumption DEF Inv, TxnInv, Emptied, Entered, Types,
       TxnTypes, TxnRec
  <2>4. \A c \in Client : pc[c] = "wait" => txn[c].done
    BY <1>1, <2>1, <2>3 DEF Inv, TxnInv, Waiting
  <2>. QED  BY <2>2, <2>4, Zenon
<1>. QED  BY <1>1, Invariance, PTL

\* For any number of threads and ids, whichever requests are answered late or
\* never, an answer completes its own transaction unless the ids have gone
\* round since; and the state is well typed.
THEOREM AnswersAreOwn == Spec => []AnswerIsOwn
<1>1. Inv => AnswerIsOwn
  <2>1. SUFFICES ASSUME Inv PROVE AnswerIsOwn
    BY Zenon
  <2>2. txns \in [Id -> 1 .. serial \cup {None}]
    <3>1. \A i \in Id : txns[i] # None => txns[i] \in 1 .. serial
      BY <2>1 DEF Inv, TxnInv, Owner, Numbered, Active, Types, TxnTypes, TxnRec
    <3>. QED  BY <2>1, <3>1 DEF Inv, Types, TxnTypes
  <2>3. serial \in 0 .. budget.txns /\ \A c \in Client : txn[c].n \in 0 .. serial
    <3>1. budget.txns \in Nat
      BY <2>1, QmiAssumption, Zenon DEF Inv, AnswerInv, Counters
    <3>. QED  BY <2>1, <3>1 DEF Inv, TxnInv, Numbered, Types, TxnTypes, TxnRec,
                                AnswerInv, Counters
  <2>4. TypeOK
    BY <2>1, <2>2, <2>3 DEF TypeOK, Inv, Types, TxnTypes, SockTypes, AnswerInv,
                            Counters, RegInv, Ranges, Result, ClientPc
  <2>. QED  BY <2>1, <2>4 DEF AnswerIsOwn, Inv, AnswerInv, Result
<1>. QED  BY <1>1, Invariance, PTL

\* When everything is quiet, the lookups and services of the handle are known
\* to the name server under the socket in use, and the servers found are the
\* ones there are: qmi_handle_net_reset, qmi_add_lookup and qmi_add_server
\* lose nothing to each other, for any number of resets.
THEOREM RegistrationsAreCurrent == Spec => []RegistrationsCurrent
<1>1. Inv => RegistrationsCurrent
  BY Quiet, Zenon DEF Inv
<1>. QED  BY <1>1, Invariance, PTL

=============================================================================
