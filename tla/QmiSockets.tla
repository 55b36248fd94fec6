----------------------------- MODULE QmiSockets -----------------------------
(***************************************************************************)
(* Qmi keeps the facts about its sockets and its registrations, for any    *)
(* number of threads, ids, sockets and services.                           *)
(***************************************************************************)
EXTENDS QmiInv, TLAPS

\* The time a leaf may take, in seconds.
USE SMTT(20)

(***************************************************************************)
(* Types.                                                                  *)
(***************************************************************************)
\* The initial state has its types.
LEMMA TypesInit == Init => Types
<1> SUFFICES ASSUME Init PROVE Types
  BY Zenon
<1>1. 1 \in Sock
  BY QmiAssumption DEF Init, Sock
<1>2. TxnTypes
  BY QmiAssumption DEF Init, TxnTypes, ClientPc, RelPc, TxnRec, NoTxn
<1>3. rx \in [Sock -> Seq(Message)]
  BY DEF Init
<1>4. SockTypes
  BY <1>1, <1>3, QmiAssumption DEF Init, SockTypes, WorkPc
<1>. QED  BY <1>2, <1>4, Zenon DEF Types

\* What Deliver does to the receive queues.
LEMMA DeliverTypes ==
    ASSUME SockTypes, NEW S, NEW m \in Message, Deliver(S, m)
    PROVE  rx' \in [Sock -> Seq(Message)]
<1>1. \A s \in Sock : Append(rx[s], m) \in Seq(Message)
  BY DEF SockTypes
<1>. QED  BY <1>1, Zenon DEF Deliver, SockTypes

\* So does a registration.
LEMMA RegisterTypes ==
    ASSUME SockTypes, NEW v \in Svc, Register(v)
    PROVE  /\ rx' \in [Sock -> Seq(Message)]
           /\ err' \in SUBSET live
<1>1. NewServer(v) \in Message
  BY Zenon DEF NewServer, Message
<1>2. CASE Deliver({sock}, NewServer(v))
  BY <1>1, <1>2, DeliverTypes, Zenon DEF Register, qrtr_sendmsg, SockTypes
<1>3. CASE rx' = rx
  BY <1>3, Zenon DEF Register, qrtr_sendmsg, SockTypes
<1>. QED  BY <1>2, <1>3, Zenon DEF Register

\* The four outcomes of kernel_recvmsg.
LEMMA RecvCases ==
    ASSUME Recv
    PROVE  /\ work = "recv"
           /\ \/ sock = 0 /\ work' = "idle" /\ UNCHANGED <<err, rx, msg>>
              \/ /\ sock # 0 /\ sock \in err /\ work' = "create"
                 /\ err' = err \ {sock} /\ UNCHANGED <<rx, msg>>
              \/ /\ sock # 0 /\ sock \notin err /\ rx[sock] = <<>>
                 /\ work' = "idle" /\ UNCHANGED <<err, rx, msg>>
              \/ /\ sock # 0 /\ sock \notin err /\ rx[sock] # <<>>
                 /\ work' = "message" /\ msg' = Head(rx[sock])
                 /\ rx' = [rx EXCEPT ![sock] = Tail(@)] /\ UNCHANGED err
           /\ UNCHANGED <<txnv, sock, socks, live, user_data, bound, pending,
                          new, relv, raced, failed>>
BY Zenon DEF Recv, hist

\* Every step keeps the types of the sockets.
LEMMA SockTypesNext == Types /\ [Next]_vars => SockTypes'
<1> SUFFICES ASSUME Types, [Next]_vars PROVE SockTypes'
  BY Zenon
<1> USE DEF Types, SockTypes
<1>1. ASSUME NEW c \in Client, qmi_send_message(c) PROVE SockTypes'
  BY <1>1, Zenon DEF qmi_send_message, qrtr_sendmsg, workv, relv
<1>2. ASSUME NEW q \in asked, Answer(q) PROVE SockTypes'
  <2>1. Resp(q.id, q.n) \in Message
    BY Zenon DEF Resp, Message, TxnTypes
  <2>2. rx' \in [Sock -> Seq(Message)]
    BY <1>2, <2>1, DeliverTypes, Zenon DEF Answer
  <2>. QED  BY <1>2, <2>2, Zenon DEF Answer, sockv, workv, relv
<1>3. ASSUME NEW v \in Svc, SendRegistration(v) PROVE SockTypes'
  BY <1>3, RegisterTypes, Zenon DEF SendRegistration, workv, relv
<1>4. ASSUME NEW v \in Svc, RegisterAgain(v) PROVE SockTypes'
  BY <1>4, RegisterTypes, Zenon DEF RegisterAgain, relv
<1>5. CASE NameServerStarts
  BY <1>5, Zenon DEF NameServerStarts, workv, relv
<1>6. ASSUME NEW v \in Lookup, ServerFlaps(v) PROVE SockTypes'
  <2>1. NewServer(v) \in Message /\ DelServer(v) \in Message
    BY Zenon DEF NewServer, DelServer, Message, Svc
  <2> DEFINE m == IF v \in up THEN DelServer(v) ELSE NewServer(v)
             S == {s \in Sock : <<v, s>> \in reg}
  <2>2. m \in Message /\ Deliver(S, m)
    BY <1>6, <2>1, Zenon DEF ServerFlaps
  <2> HIDE DEF m, S
  <2>3. rx' \in [Sock -> Seq(Message)]
    BY <2>2, DeliverTypes, Zenon
  <2>. QED  BY <1>6, <2>3, Zenon DEF ServerFlaps, sockv, workv, relv
<1>7. CASE Recv
  <2>1. CASE UNCHANGED <<rx, msg>> /\ work' \in {"idle", "create"}
    BY <1>7, <2>1, RecvCases, Zenon DEF WorkPc, relv
  <2>2. CASE sock # 0 /\ rx[sock] # <<>> /\ msg' = Head(rx[sock])
             /\ rx' = [rx EXCEPT ![sock] = Tail(@)]
    <3>1. sock \in Sock /\ rx[sock] \in Seq(Message)
      BY <2>2, QmiAssumption DEF Sock
    <3>2. Head(rx[sock]) \in Message /\ Tail(rx[sock]) \in Seq(Message)
      BY <2>2, <3>1
    <3>. QED  BY <1>7, <2>2, <3>1, <3>2, RecvCases, Zenon DEF WorkPc, relv
  <2>. QED  BY <1>7, <2>1, <2>2, RecvCases, Zenon
<1>8. CASE SockCreate
  BY <1>8, QmiAssumption DEF SockCreate, relv, Sock, WorkPc
<1>9. CASE ReleaseOld
  <2>1. rx' \in [Sock -> Seq(Message)]
    BY <1>9 DEF ReleaseOld
  <2>. QED  BY <1>9, <2>1 DEF ReleaseOld, relv, Sock, WorkPc
<1>10. CASE CloseSock
  <2>1. rx' \in [Sock -> Seq(Message)]
    <3>1. <<>> \in Seq(Message)
      OBVIOUS
    <3>. QED  BY <1>10, <3>1, Zenon DEF CloseSock
  <2>. QED  BY <1>10, <2>1 DEF CloseSock, workv, Sock
<1>11. CASE \/ WorkStart \/ qmi_handle_message \/ qmi_recv_ctrl_pkt
            \/ SockCreateFails \/ FlushResults \/ Install \/ StartWalk \/ EndWalk
  <2>1. /\ UNCHANGED <<socks, live, user_data, err, rx, rsock>>
        /\ sock' \in {sock, new} /\ new' \in {new, 0}
        /\ msg' \in {msg, None} /\ work' \in WorkPc \ {"message"}
    BY <1>11, Zenon DEF WorkStart, qmi_handle_message, qmi_recv_ctrl_pkt,
                 SockCreateFails, FlushResults, Install, StartWalk, EndWalk,
                 sockv, relv, WorkPc
  <2>. QED  BY <2>1, QmiAssumption DEF Sock
<1>12. CASE qmi_handle_release
  BY <1>12, Zenon DEF qmi_handle_release, workv
<1>13. CASE \/ \E c \in Client : \/ qmi_txn_init(c) \/ qmi_txn_cancel(c)
                                \/ EndWait(c) \/ Woken(c) \/ Timeout(c)
                                \/ LookAtResult(c)
            \/ \E v \in Svc : AddToList(v)
            \/ CancelWork \/ DestroyWorkqueue \/ RemoveTxn \/ CompleteTxn
            \/ EndRelease \/ UNCHANGED vars
  <2>1. UNCHANGED <<sockv, rx, workv, rsock>>
    BY <1>13, Zenon
       DEF qmi_txn_init, qmi_txn_cancel, EndWait, Woken, Timeout, LookAtResult,
         AddToList, CancelWork, DestroyWorkqueue, RemoveTxn, CompleteTxn,
         EndRelease, relv, vars, sockv, workv
  <2>. QED  BY <2>1, Zenon DEF sockv, workv
<1>. QED
  BY <1>1, <1>2, <1>3, <1>4, <1>5, <1>6, <1>7, <1>8, <1>9, <1>10, <1>11, <1>12,
     <1>13, Zenon DEF Next, ClientStep, WorkStep, ReleaseStep

(***************************************************************************)
(* Sockets.                                                                *)
(***************************************************************************)
\* The socket of a new handle is open, empty and known to it.
LEMMA SockInvInit == Init => SockInv
BY QmiAssumption DEF Init, SockInv, Clean, Closing, Opened, Replacing, Told,
   Coming, Sock

\* Before a release, the socket to be read next is open.
LEMMA ComingOpen ==
    ASSUME SockTypes, Closing, rel = "no"
    PROVE  Coming \in live /\ Coming \in user_data /\ Coming \in Sock
<1>1. Coming \in live /\ live = user_data
  BY Zenon DEF Closing, Opened, Coming, Replacing
<1>2. \A s \in live : s \in Sock
  BY QmiAssumption DEF SockTypes, Sock
<1>. QED  BY <1>1, <1>2, Zenon

\* Messages and errors arrive at the sockets in S, errors may be taken, and
\* qmi_data_ready queues the work.
LEMMA SockArrives ==
    ASSUME Types, SockInv, NEW S,
           UNCHANGED <<sock, new, rsock, live, user_data, work, raced, failed,
                       rel>>,
           \A s \in Sock : s \notin S \cap live => rx'[s] = rx[s],
           err' \subseteq err \cup (S \cap live),
           pending' <=> pending \/ S \cap live \cap user_data # {}
    PROVE  SockInv'
<1>1. Clean'
  BY Zenon DEF SockInv, Clean
<1>2. Closing'
  <2>1. Opened' <=> Opened
    BY Zenon DEF Opened
  <2>2. live \cap user_data = {} => (pending' <=> pending)
    BY Zenon
  <2>3. rel = "close" /\ ~raced => live \cap user_data = {}
    BY Zenon DEF SockInv, Closing, Opened, Replacing
  <2>4. rel \in {"destroy", "walk", "remove", "complete", "done"} /\ ~raced =>
            live \cap user_data = {}
    BY Zenon DEF SockInv, Closing
  <2>. QED  BY <2>1, <2>2, <2>3, <2>4, Zenon DEF SockInv, Closing
<1>3. Told'
  <2>1. SUFFICES ASSUME rel = "no", ~failed,
                        work \notin {"recv", "message", "create"},
                        rx'[Coming] # <<>> \/ Coming \in err'
                 PROVE  pending'
    BY Zenon DEF Told, Coming
  <2>2. Coming \in live /\ Coming \in user_data /\ Coming \in Sock
    BY <2>1, ComingOpen, Zenon DEF Types, SockInv
  <2>3. CASE Coming \in S
    BY <2>2, <2>3, Zenon
  <2>4. CASE Coming \notin S
    <3>1. rx'[Coming] = rx[Coming] /\ (Coming \in err' => Coming \in err)
      BY <2>2, <2>4, Zenon
    <3>2. pending
      BY <2>1, <3>1, Zenon DEF SockInv, Told
    <3>. QED  BY <3>2, Zenon
  <2>. QED  BY <2>3, <2>4, Zenon
<1>. QED  BY <1>1, <1>2, <1>3, Zenon DEF SockInv

\* A registration and the name server's answer.
LEMMA SockRegister ==
    ASSUME Types, SockInv, NEW v \in Svc, Register(v),
           UNCHANGED <<sock, new, rsock, live, user_data, work, raced, failed,
                       rel>>
    PROVE  SockInv'
<1>1. err' \subseteq err
  BY Zenon DEF Register, qrtr_sendmsg
<1>2. CASE Deliver({sock}, NewServer(v))
  BY <1>1, <1>2, SockArrives, Zenon DEF Deliver, qmi_data_ready
<1>3. CASE UNCHANGED <<rx, pending>>
  <2>1. pending' <=> pending \/ {} \cap live \cap user_data # {}
    BY <1>3, Zenon
  <2>. QED  BY <1>1, <1>3, <2>1, SockArrives, Zenon
<1>. QED  BY <1>2, <1>3, Zenon DEF Register

\* The worker takes the work item, is done with a message or goes on with the
\* walks over the lists: the sockets stay what they are.
LEMMA SockWorks ==
    ASSUME Types, SockInv,
           WorkStart \/ qmi_handle_message \/ qmi_recv_ctrl_pkt \/ StartWalk
              \/ EndWalk
    PROVE  SockInv'
<1>1. /\ UNCHANGED <<sock, new, rsock, live, user_data, raced, failed, rel, rx,
                     err>>
      /\ work \notin Replacing \cup {"release"}
      /\ work' \notin Replacing \cup {"release"}
      /\ work # "idle" \/ pending
      /\ \/ work' = "recv"
         \/ work \notin {"recv", "message", "create"} /\ pending' = pending
      /\ work = "idle" \/ pending' = pending
  BY Zenon
     DEF WorkStart, qmi_handle_message, qmi_recv_ctrl_pkt, StartWalk, EndWalk,
       sockv, relv, hist, Replacing
<1>2. Clean'
  BY <1>1, Zenon DEF SockInv, Clean
<1>3. Closing'
  <2>1. Opened' <=> Opened
    BY <1>1, Zenon DEF Opened
  <2>. QED  BY <1>1, <2>1, Zenon DEF SockInv, Closing
<1>4. Told'
  BY <1>1, Zenon DEF SockInv, Told, Coming
<1>. QED  BY <1>2, <1>3, <1>4, Zenon DEF SockInv

\* kernel_recvmsg: the worker goes to sleep only on an empty queue.
LEMMA SockRecv ==
    ASSUME Types, SockInv, Recv
    PROVE  SockInv'
<1>1. /\ UNCHANGED <<sock, new, rsock, live, user_data, raced, failed, rel,
                     pending>>
      /\ work = "recv" /\ work' \in {"idle", "create", "message"}
  BY RecvCases, Zenon DEF relv
<1>2. Clean'
  <2>1. CASE rx' = rx
    BY <1>1, <2>1, Zenon DEF SockInv, Clean
  <2>2. CASE rx[sock] # <<>> /\ rx' = [rx EXCEPT ![sock] = Tail(@)]
    BY <1>1, <2>2, Zenon DEF SockInv, Clean, Types, SockTypes
  <2>. QED  BY <2>1, <2>2, RecvCases, Zenon
<1>3. Closing'
  <2>1. Opened' <=> Opened
    BY <1>1, Zenon DEF Opened, Replacing
  <2>2. work \notin Replacing /\ work' \notin Replacing /\ work # "idle"
    BY <1>1, Zenon DEF Replacing
  <2>. QED  BY <1>1, <2>1, <2>2, Zenon DEF SockInv, Closing
<1>4. Told'
  <2>1. SUFFICES ASSUME rel = "no", work' = "idle"
                 PROVE  rx'[sock] = <<>> /\ sock \notin err'
    BY <1>1, Zenon DEF Told, Coming, Replacing
  <2>2. sock # 0
    BY <1>1, <2>1, ComingOpen DEF Types, SockInv, Coming, Replacing, SockTypes
  <2>. QED  BY <2>1, <2>2, RecvCases, Zenon
<1>. QED  BY <1>2, <1>3, <1>4, Zenon DEF SockInv

\* qmi_handle_net_reset: a new socket is open and empty, or the work ends.
LEMMA SockCreated ==
    ASSUME Types, SockInv, SockCreate
    PROVE  SockInv'
<1>1. /\ UNCHANGED <<sock, rsock, err, rx, pending, raced, failed, rel>>
      /\ work = "create" /\ work' = "release" /\ new' = socks + 1
      /\ live' = live \cup {socks + 1}
      /\ user_data' = user_data \cup {socks + 1}
  BY Zenon DEF SockCreate, relv, hist
<1>2. /\ socks + 1 \in Sock /\ socks + 1 \notin live /\ socks + 1 \notin err
      /\ socks + 1 # sock /\ socks + 1 \notin user_data
  BY QmiAssumption DEF SockCreate, Types, SockTypes, Sock
<1>3. Clean'
  BY <1>1, Zenon DEF SockInv, Clean
<1>4. Opened => Opened'
  BY <1>1, <1>2, Zenon DEF Opened, Replacing
<1>5. Closing'
  <2>1. rel = "no" => Opened' /\ user_data' = live'
    BY <1>1, <1>4, Zenon DEF SockInv, Closing
  <2>2. rel \in {"cancel", "close"} /\ ~raced =>
           /\ Opened' /\ work' \notin Replacing
           /\ rsock = sock /\ user_data' = live' \ {sock}
    BY <1>1, <1>2, <1>4, Zenon DEF SockInv, Closing, Replacing
  <2>3. work # "idle"
    BY <1>1, Zenon
  <2>. QED  BY <1>1, <2>1, <2>2, <2>3, Zenon DEF SockInv, Closing
<1>6. Told'
  BY <1>1, <1>2, Zenon DEF SockInv, Clean, Told, Coming
<1>. QED  BY <1>3, <1>5, <1>6, Zenon DEF SockInv

\* Without a new socket the old one is kept.
LEMMA SockNotCreated ==
    ASSUME Types, SockInv, SockCreateFails
    PROVE  SockInv'
<1>1. /\ UNCHANGED <<sock, new, rsock, live, user_data, err, rx, pending, raced,
                     rel>>
      /\ work = "create" /\ work' = "idle" /\ failed'
  BY Zenon DEF SockCreateFails, sockv, relv
<1>2. Clean' /\ Told'
  BY <1>1, Zenon DEF SockInv, Clean, Told
<1>3. Opened' <=> Opened
  BY <1>1, Zenon DEF Opened, Replacing
<1>4. work \notin Replacing /\ work' \notin Replacing /\ work # "idle"
  BY <1>1, Zenon DEF Replacing
<1>5. Closing'
  BY <1>1, <1>3, <1>4, Zenon DEF SockInv, Closing
<1>. QED  BY <1>2, <1>5, Zenon DEF SockInv

\* ... the old socket is released, and what it held is gone with it ...
LEMMA SockReleaseOld ==
    ASSUME Types, SockInv, ReleaseOld
    PROVE  SockInv'
<1>1. /\ UNCHANGED <<new, rsock, pending, failed, rel>>
      /\ work = "release" /\ work' = "flush" /\ sock' = 0
      /\ live' = live \ {sock} /\ user_data' = user_data \ {sock}
      /\ err' = err \ {sock}
      /\ raced' <=> raced \/ rel # "no"
  BY Zenon DEF ReleaseOld, relv
<1>2. \A s \in Sock : rx'[s] = IF s = sock THEN <<>> ELSE rx[s]
  BY Zenon DEF ReleaseOld
<1>3. Clean'
  BY <1>1, <1>2, Zenon DEF SockInv, Clean
<1>4. Closing'
  <2>1. rel = "no" => Opened' /\ user_data' = live'
    BY <1>1 DEF SockInv, Closing, Opened, Replacing
  <2>2. rel # "no" => raced'
    BY <1>1, Zenon
  <2>. QED  BY <1>1, <2>1, <2>2, Zenon DEF Closing
<1>5. Told'
  <2>1. SUFFICES ASSUME rel = "no", ~failed, rx'[new] # <<>> \/ new \in err'
                 PROVE  pending
    BY <1>1, Zenon DEF Told, Coming, Replacing
  <2>2. new \in Sock /\ new # sock
    BY <1>1, <2>1, ComingOpen, Zenon
       DEF Types, SockInv, Coming, Closing, Opened
  <2>. QED  BY <1>1, <1>2, <2>1, <2>2, Zenon DEF SockInv, Told, Coming
<1>. QED  BY <1>3, <1>4, <1>5, Zenon DEF SockInv

\* ... and the new one is put in its place.
LEMMA SockInstalled ==
    ASSUME Types, SockInv, FlushResults \/ Install
    PROVE  SockInv'
<1>1. /\ UNCHANGED <<rsock, live, user_data, err, rx, pending, raced, failed,
                     rel>>
      /\ work \in Replacing
      /\ \/ work' \in Replacing /\ UNCHANGED <<sock, new>>
         \/ work' = "lookups" /\ sock' = new
  BY Zenon DEF FlushResults, Install, sockv, relv, hist, Replacing
<1>2. Clean'
  BY <1>1, Zenon DEF SockInv, Clean
<1>3. Closing'
  <2>1. rel = "no" => Opened'
    BY <1>1, Zenon DEF SockInv, Closing, Opened, Replacing
  <2>2. rel # "no" => raced
    BY <1>1, Zenon DEF SockInv, Closing, Replacing, Types, TxnTypes, RelPc
  <2>. QED  BY <1>1, <2>1, <2>2, Zenon DEF SockInv, Closing
<1>4. Told'
  <2>1. Coming = new /\ Coming' = new
    BY <1>1, Zenon DEF Coming, Replacing
  <2>2. work \notin {"recv", "message", "create"}
    BY <1>1, Zenon DEF Replacing
  <2>. QED  BY <1>1, <2>1, <2>2, Zenon DEF SockInv, Told
<1>. QED  BY <1>2, <1>3, <1>4, Zenon DEF SockInv

\* The steps of qmi_handle_release.
LEMMA SockReleases ==
    ASSUME Types, SockInv, qmi_handle_release \/ ReleaseStep
    PROVE  SockInv'
<1>1. CASE qmi_handle_release
  <2>1. /\ UNCHANGED <<sock, new, live, err, rx, pending, work>>
        /\ rel = "no"
    BY <1>1, Zenon DEF qmi_handle_release, workv
  <2>2. Clean'
    BY <2>1, Zenon DEF SockInv, Clean
  <2>3. \/ rel' = "oops" /\ raced'
        \/ rel' = "cancel" /\ sock # 0 /\ rsock' = sock
             /\ user_data' = user_data \ {sock}
    BY <1>1, Zenon DEF qmi_handle_release
  <2>4. Opened' /\ user_data = live /\ (sock # 0 => work \notin Replacing)
    BY <2>1, Zenon DEF SockInv, Closing, Opened
  <2>5. Closing' /\ Told'
    BY <2>1, <2>3, <2>4, Zenon DEF Closing, Told
  <2>. QED  BY <2>2, <2>5, Zenon DEF SockInv
<1>2. CASE CancelWork
  <2>1. /\ UNCHANGED <<sock, new, rsock, live, user_data, err, rx, raced, work>>
        /\ rel = "cancel" /\ rel' = "close" /\ work = "idle" /\ ~pending'
    BY <1>2, Zenon DEF CancelWork, sockv, workv, hist
  <2>2. Clean' /\ Told'
    BY <2>1, Zenon DEF SockInv, Clean, Told
  <2>3. Opened' <=> Opened
    BY <2>1, Zenon DEF Opened
  <2>4. Closing'
    BY <2>1, <2>3, Zenon DEF SockInv, Closing
  <2>. QED  BY <2>2, <2>4, Zenon DEF SockInv
<1>3. CASE CloseSock
  <2>1. /\ UNCHANGED <<rsock, user_data, pending, raced, work>>
        /\ rel = "close" /\ rel' = "destroy" /\ live' = live \ {rsock}
        /\ rx' = [rx EXCEPT ![rsock] = <<>>]
    BY <1>3, Zenon DEF CloseSock, workv, hist
  <2>2. Clean' /\ Told'
    BY <2>1, Zenon DEF SockInv, Clean, Told, Types, SockTypes
  <2>3. ~raced => live = {rsock} /\ user_data = {}
    BY <2>1, Zenon DEF SockInv, Closing, Opened, Replacing
  <2>4. Closing'
    BY <2>1, <2>3, Zenon DEF SockInv, Closing
  <2>. QED  BY <2>2, <2>4, Zenon DEF SockInv
<1>4. CASE DestroyWorkqueue \/ RemoveTxn \/ CompleteTxn \/ EndRelease
  <2>1. /\ UNCHANGED <<sock, new, rsock, live, user_data, err, rx, pending,
                       raced, work>>
        /\ rel \in {"destroy", "walk", "remove", "complete"}
        /\ rel' \in {"walk", "remove", "complete", "done"}
    BY <1>4, Zenon
       DEF DestroyWorkqueue, RemoveTxn, CompleteTxn, EndRelease, sockv, workv,
         hist
  <2>. QED  BY <2>1, Zenon DEF SockInv, Clean, Closing, Told
<1>. QED  BY <1>1, <1>2, <1>3, <1>4, Zenon DEF ReleaseStep

\* Every step keeps the facts about sockets.
LEMMA SockInvNext == Types /\ SockInv /\ [Next]_vars => SockInv'
<1> SUFFICES ASSUME Types, SockInv, [Next]_vars PROVE SockInv'
  BY Zenon
<1>1. ASSUME NEW q \in asked, Answer(q) PROVE SockInv'
  <2>1. UNCHANGED <<sock, new, rsock, live, user_data, err, work, raced, failed,
                    rel>>
    BY <1>1, Zenon DEF Answer, sockv, workv, relv, hist
  <2>2. CASE Deliver({q.from}, Resp(q.id, q.n))
    BY <2>1, <2>2, SockArrives, Zenon DEF Deliver, qmi_data_ready
  <2>3. CASE UNCHANGED <<rx, pending>>
    <3>1. pending' <=> pending \/ {} \cap live \cap user_data # {}
      BY <2>3, Zenon
    <3>. QED  BY <2>1, <2>3, <3>1, SockArrives, Zenon
  <2>. QED  BY <1>1, <2>2, <2>3, Zenon DEF Answer
<1>2. CASE NameServerStarts
  <2>1. /\ UNCHANGED <<sock, new, rsock, live, user_data, rx, work, raced,
                       failed, rel>>
        /\ err' = live \cap bound /\ qmi_data_ready(live \cap bound)
    BY <1>2, Zenon DEF NameServerStarts, workv, relv, hist
  <2>2. pending' <=> pending \/ bound \cap live \cap user_data # {}
    BY <2>1, Zenon DEF qmi_data_ready
  <2>. QED  BY <2>1, <2>2, SockArrives, Zenon
<1>3. ASSUME NEW v \in Lookup, ServerFlaps(v) PROVE SockInv'
  <2> DEFINE S == {s \in Sock : <<v, s>> \in reg}
             m == IF v \in up THEN DelServer(v) ELSE NewServer(v)
  <2>1. /\ UNCHANGED <<sock, new, rsock, live, user_data, err, work, raced,
                       failed, rel>>
        /\ Deliver(S, m)
    BY <1>3, Zenon DEF ServerFlaps, sockv, workv, relv, hist
  <2> HIDE DEF S, m
  <2>. QED  BY <2>1, SockArrives, Zenon DEF Deliver, qmi_data_ready
<1>4. ASSUME NEW v \in Svc, SendRegistration(v) \/ RegisterAgain(v)
      PROVE  SockInv'
  <2>1. /\ UNCHANGED <<sock, new, rsock, live, user_data, work, raced, failed,
                       rel>>
        /\ Register(v)
    BY <1>4, Zenon DEF SendRegistration, RegisterAgain, workv, relv
  <2>. QED  BY <2>1, SockRegister, Zenon
<1>5. CASE \/ \E c \in Client : \/ qmi_txn_init(c) \/ ClientStep(c)
                               \/ Timeout(c)
           \/ \E v \in Svc : AddToList(v)
           \/ UNCHANGED vars
  <2>1. UNCHANGED <<sock, new, rsock, live, user_data, work, raced, failed,
                    rel, rx, pending>>
    BY <1>5, Zenon DEF qmi_txn_init, ClientStep, Timeout, AddToList,
         qmi_send_message, qmi_txn_cancel, Woken, LookAtResult, EndWait, vars,
         sockv, workv, relv, hist
  <2>2. err' = err \/ err' = err \ {sock}
    BY <1>5, Zenon DEF qmi_txn_init, ClientStep, Timeout, AddToList,
         qmi_send_message, qrtr_sendmsg, qmi_txn_cancel, Woken, LookAtResult,
         EndWait, vars, sockv
  <2>3. pending' <=> pending \/ {} \cap live \cap user_data # {}
    BY <2>1, Zenon
  <2>. QED  BY <2>1, <2>2, <2>3, SockArrives, Zenon
<1>6. CASE WorkStart \/ qmi_handle_message \/ qmi_recv_ctrl_pkt \/ StartWalk
              \/ EndWalk
  BY <1>6, SockWorks, Zenon
<1>7. CASE Recv
  BY <1>7, SockRecv, Zenon
<1>8. CASE SockCreate
  BY <1>8, SockCreated, Zenon
<1>9. CASE SockCreateFails
  BY <1>9, SockNotCreated, Zenon
<1>10. CASE ReleaseOld
  BY <1>10, SockReleaseOld, Zenon
<1>11. CASE FlushResults \/ Install
  BY <1>11, SockInstalled, Zenon
<1>12. CASE qmi_handle_release \/ ReleaseStep
  BY <1>12, SockReleases, Zenon
<1>. QED
  BY <1>1, <1>2, <1>3, <1>4, <1>5, <1>6, <1>7, <1>8, <1>9, <1>10, <1>11, <1>12,
     Zenon DEF Next, WorkStep

(***************************************************************************)
(* Registrations.                                                          *)
(***************************************************************************)
\* Deliver brings one message to each of some sockets.
LEMMA DeliverBrings ==
    ASSUME SockTypes, NEW S, NEW x \in Message, Deliver(S, x),
           NEW s \in Sock, NEW k \in DOMAIN rx'[s]
    PROVE  rx'[s][k] = x \/ (k \in DOMAIN rx[s] /\ rx'[s][k] = rx[s][k])
<1>1. rx'[s] = rx[s] \/ rx'[s] = Append(rx[s], x)
  BY Zenon DEF Deliver
<1>2. rx[s] \in Seq(Message)
  BY Zenon DEF SockTypes
<1>. QED  BY <1>1, <1>2

\* What is on its way was there before, answers a request or tells of a
\* server.
LEMMA MailNext ==
    ASSUME Types, [Next]_vars, up \in SUBSET Lookup, NEW m, OnItsWay(m)'
    PROVE  \/ OnItsWay(m)
           \/ \E q \in asked : m = Resp(q.id, q.n)
           \/ \E v \in Lookup : m \in {NewServer(v), DelServer(v)}
<1> DEFINE Goal == \/ OnItsWay(m)
                   \/ \E q \in asked : m = Resp(q.id, q.n)
                   \/ \E v \in Lookup : m \in {NewServer(v), DelServer(v)}
<1> SUFFICES Goal
  BY Zenon
<1>1. ASSUME NEW S, NEW x \in Message, Deliver(S, x), UNCHANGED <<work, msg>>,
             \/ \E q \in asked : x = Resp(q.id, q.n)
             \/ \E v \in Lookup : x \in {NewServer(v), DelServer(v)}
      PROVE  Goal
  BY <1>1, DeliverBrings, ZenonT(30) DEF OnItsWay, Types
<1>2. ASSUME UNCHANGED <<rx, msg>>, work' # "message" \/ work' = work
      PROVE  Goal
  BY <1>2, Zenon DEF OnItsWay
<1>3. ASSUME NEW q \in asked, Answer(q) PROVE Goal
  <2>1. Resp(q.id, q.n) \in Message
    BY Zenon DEF Resp, Message, Types, TxnTypes
  <2>2. UNCHANGED <<work, msg>>
    BY <1>3, Zenon DEF Answer, workv
  <2>. QED  BY <1>1, <1>2, <1>3, <2>1, <2>2, Zenon DEF Answer
<1>4. ASSUME NEW v \in Svc, SendRegistration(v) \/ RegisterAgain(v) PROVE Goal
  <2>1. NewServer(v) \in Message
    BY Zenon DEF NewServer, Message
  <2>2. UNCHANGED <<work, msg>> /\ Register(v)
    BY <1>4, Zenon DEF SendRegistration, RegisterAgain, workv
  <2>3. UNCHANGED rx \/ (v \in Lookup /\ Deliver({sock}, NewServer(v)))
    BY <2>2, Zenon DEF Register
  <2>. QED  BY <1>1, <1>2, <2>1, <2>2, <2>3, Zenon
<1>5. ASSUME NEW v \in Lookup, ServerFlaps(v) PROVE Goal
  <2> DEFINE x == IF v \in up THEN DelServer(v) ELSE NewServer(v)
             S == {s \in Sock : <<v, s>> \in reg}
  <2>1. x \in Message /\ x \in {NewServer(v), DelServer(v)}
    BY Zenon DEF NewServer, DelServer, Message, Svc
  <2>2. Deliver(S, x) /\ UNCHANGED <<work, msg>>
    BY <1>5, Zenon DEF ServerFlaps, workv
  <2> HIDE DEF x, S
  <2>. QED  BY <1>1, <2>1, <2>2, Zenon
<1>6. CASE Recv
  <2>1. CASE UNCHANGED <<rx, msg>> /\ work' # "message"
    BY <1>2, <2>1, Zenon
  <2>2. CASE /\ sock # 0 /\ rx[sock] # <<>> /\ work = "recv"
             /\ msg' = Head(rx[sock]) /\ rx' = [rx EXCEPT ![sock] = Tail(@)]
    <3>1. sock \in Sock /\ rx[sock] \in Seq(Message)
      BY <2>2, QmiAssumption DEF Types, SockTypes, Sock
    <3>2. 1 \in DOMAIN rx[sock] /\ Head(rx[sock]) = rx[sock][1]
          /\ \A k \in DOMAIN Tail(rx[sock]) :
                /\ k + 1 \in DOMAIN rx[sock]
                /\ Tail(rx[sock])[k] = rx[sock][k + 1]
      BY <2>2, <3>1
    <3>3. rx'[sock] = Tail(rx[sock]) /\ \A s \in Sock \ {sock} : rx'[s] = rx[s]
      BY <2>2, <3>1, Zenon DEF Types, SockTypes
    <3>4. \A s \in Sock : \A k \in DOMAIN rx'[s] :
             \E j \in DOMAIN rx[s] : rx'[s][k] = rx[s][j]
      <4>1. \A k \in DOMAIN rx'[sock] : \E j \in DOMAIN rx[sock] :
               rx'[sock][k] = rx[sock][j]
        BY <3>2, <3>3, Zenon
      <4>. QED  BY <3>3, <4>1, Zenon
    <3>5. OnItsWay(msg')
      BY <2>2, <3>1, <3>2, Zenon DEF OnItsWay
    <3>6. CASE \E s \in Sock : \E k \in DOMAIN rx'[s] : rx'[s][k] = m
      <4>1. PICK s \in Sock : \E k \in DOMAIN rx'[s] : rx'[s][k] = m
        BY <3>6, Zenon
      <4>2. PICK k \in DOMAIN rx'[s] : rx'[s][k] = m
        BY <4>1, Zenon
      <4>3. PICK j \in DOMAIN rx[s] : rx'[s][k] = rx[s][j]
        BY <3>4, Zenon
      <4>4. rx[s][j] = m
        BY <4>2, <4>3, Zenon
      <4>. QED  BY <4>4, Zenon DEF OnItsWay
    <3>7. CASE msg' = m
      BY <3>5, <3>7, Zenon
    <3>. QED  BY <3>6, <3>7, Zenon DEF OnItsWay
  <2>. QED  BY <1>6, <2>1, <2>2, RecvCases, Zenon
<1>7. CASE ReleaseOld
  <2>1. /\ work' = "flush" /\ \A s \in Sock : rx'[s] = rx[s] \/ rx'[s] = <<>>
    BY <1>7, Zenon DEF ReleaseOld
  <2>2. DOMAIN << >> = {}
    OBVIOUS
  <2>. QED  BY <2>1, <2>2, Zenon DEF OnItsWay
<1>8. CASE CloseSock
  <2>1. UNCHANGED <<work, msg>> /\ \A s \in Sock : rx'[s] = rx[s] \/ rx'[s] = <<>>
    BY <1>8, Zenon DEF CloseSock, workv, Types, SockTypes
  <2>2. DOMAIN << >> = {}
    OBVIOUS
  <2>. QED  BY <2>1, <2>2, Zenon DEF OnItsWay
<1>9. CASE \/ WorkStart \/ qmi_handle_message \/ qmi_recv_ctrl_pkt
           \/ SockCreate \/ SockCreateFails \/ FlushResults \/ Install
           \/ StartWalk \/ EndWalk
  <2>1. UNCHANGED rx /\ work' # "message"
    BY <1>9, Zenon
       DEF WorkStart, qmi_handle_message, qmi_recv_ctrl_pkt, SockCreate,
         SockCreateFails, FlushResults, Install, StartWalk, EndWalk
  <2>. QED  BY <2>1, Zenon DEF OnItsWay
<1>10. CASE \/ \E c \in Client : qmi_txn_init(c) \/ ClientStep(c) \/ Timeout(c)
            \/ \E v \in Svc : AddToList(v)
            \/ NameServerStarts \/ qmi_handle_release
            \/ CancelWork \/ DestroyWorkqueue \/ RemoveTxn \/ CompleteTxn
            \/ EndRelease \/ UNCHANGED vars
  <2>1. UNCHANGED <<rx, msg, work>>
    BY <1>10, Zenon DEF qmi_txn_init, ClientStep, Timeout, AddToList,
         qmi_send_message, qmi_txn_cancel, Woken, LookAtResult, EndWait,
         NameServerStarts, qmi_handle_release, CancelWork, DestroyWorkqueue,
         RemoveTxn, CompleteTxn, EndRelease, vars, workv
  <2>. QED  BY <1>2, <2>1, Zenon
<1>. QED
  BY <1>3, <1>4, <1>5, <1>6, <1>7, <1>8, <1>9, <1>10, Zenon
     DEF Next, WorkStep, ReleaseStep

\* Every step keeps the ranges, registers bound sockets only and installs a
\* socket only when no server is known any more.
LEMMA RangesNext ==
    ASSUME Types, RegInv, [Next]_vars
    PROVE  Ranges' /\ Bind' /\ Flushed'
<1> DEFINE Goal == Ranges' /\ Bind' /\ Flushed'
<1>1. socks \in Nat /\ live \in SUBSET (1 .. socks) /\ Ranges /\ Bind /\ Flushed
  BY QmiAssumption DEF Types, SockTypes, Sock, RegInv
<1>2. ASSUME UNCHANGED <<up, listed, adder, results, socks, reg>>,
             bound' = bound \/ bound' = bound \cup ({sock} \cap live),
             err' \subseteq err, work' = "install" => work = "install"
      PROVE  Goal
  <2>1. bound \subseteq bound' /\ bound' \in SUBSET (1 .. socks')
    BY <1>1, <1>2, Zenon DEF Ranges
  <2>. QED  BY <1>1, <1>2, <2>1, Zenon DEF Ranges, Bind, Flushed
<1>3. CASE \/ \E c \in Client : qmi_txn_init(c) \/ ClientStep(c) \/ Timeout(c)
           \/ \E q \in asked : Answer(q)
           \/ qmi_handle_release \/ CloseSock \/ DestroyWorkqueue
           \/ RemoveTxn \/ CompleteTxn \/ UNCHANGED vars
  <2>1. UNCHANGED <<up, listed, adder, results, socks, reg, work>>
    BY <1>3, Zenon DEF ClientStep, qmi_txn_init, qmi_send_message,
       qmi_txn_cancel, Woken, LookAtResult, EndWait, Timeout, Answer,
       qmi_handle_release, CloseSock, DestroyWorkqueue, RemoveTxn, CompleteTxn,
       vars, nsv, addv, sockv, workv
  <2>2. /\ bound' = bound \/ bound' = bound \cup ({sock} \cap live)
        /\ err' \subseteq err
    BY <1>3, Zenon
       DEF ClientStep, qmi_txn_init, qmi_send_message, qrtr_sendmsg,
         qmi_txn_cancel, Woken, LookAtResult, EndWait, Timeout, Answer,
         qmi_handle_release, CloseSock, DestroyWorkqueue, RemoveTxn,
         CompleteTxn, vars, sockv
  <2>. QED  BY <1>2, <2>1, <2>2, Zenon
<1>4. CASE \/ WorkStart \/ Recv \/ qmi_handle_message \/ SockCreateFails
           \/ ReleaseOld \/ Install \/ StartWalk \/ EndWalk
  <2>1. UNCHANGED <<up, listed, adder, results, socks, reg, bound>>
        /\ work' # "install"
    BY <1>4, RecvCases, Zenon DEF WorkStart, Recv, qmi_handle_message,
       SockCreateFails, ReleaseOld, Install, StartWalk, EndWalk, nsv, addv,
       sockv
  <2>2. err' \subseteq err
    BY <1>4, RecvCases, Zenon
       DEF WorkStart, qmi_handle_message, SockCreateFails, ReleaseOld, Install,
         StartWalk, EndWalk, sockv
  <2>. QED  BY <1>2, <2>1, <2>2, Zenon
<1>5. ASSUME NEW v \in Svc, SendRegistration(v) \/ RegisterAgain(v) PROVE Goal
  <2>1. /\ UNCHANGED <<up, listed, results, socks, work>> /\ Register(v)
        /\ adder' = adder \/ adder' = [adder EXCEPT ![v] = "done"]
    BY <1>5, Zenon DEF SendRegistration, RegisterAgain, addv, workv
  <2>2. /\ bound' = bound \cup ({sock} \cap live) /\ err' = err \ {sock}
        /\ reg' = reg \/ (sock \in live /\ reg' = reg \cup {<<v, sock>>})
    BY <2>1, Zenon DEF Register, qrtr_sendmsg
  <2>3. Ranges'
    BY <1>1, <2>1, <2>2, Zenon DEF Ranges
  <2>4. Bind'
    BY <1>1, <2>2 DEF Bind
  <2>. QED  BY <1>1, <2>1, <2>3, <2>4, Zenon DEF Flushed
<1>6. CASE NameServerStarts
  <2>1. /\ UNCHANGED <<up, listed, adder, results, socks, bound, work>>
        /\ reg' = {} /\ err' = live \cap bound
    BY <1>6, Zenon DEF NameServerStarts, addv, workv
  <2>. QED  BY <1>1, <2>1, Zenon DEF Ranges, Bind, Flushed
<1>7. ASSUME NEW v \in Lookup, ServerFlaps(v) PROVE Goal
  <2>1. /\ UNCHANGED <<listed, adder, results, socks, bound, err, work, reg>>
        /\ up' = up \ {v} \/ up' = up \cup {v}
    BY <1>7, Zenon DEF ServerFlaps, addv, workv, sockv
  <2>. QED  BY <1>1, <2>1, Zenon DEF Ranges, Bind, Flushed
<1>8. CASE (\E v \in Svc : AddToList(v)) \/ EndRelease
  <2>1. /\ UNCHANGED <<up, results, socks, bound, err, work, reg>>
        /\ \/ adder' = adder /\ listed' = {}
           \/ \E v \in Svc : /\ adder' = [adder EXCEPT ![v] = "listed"]
                             /\ listed' = listed \cup {v}
    BY <1>8, Zenon DEF AddToList, EndRelease, nsv, sockv, workv
  <2>2. Ranges'
    BY <1>1, <2>1, Zenon DEF Ranges
  <2>. QED  BY <1>1, <2>1, <2>2, Zenon DEF Bind, Flushed
<1>9. CASE FlushResults \/ CancelWork
  <2>1. /\ UNCHANGED <<up, listed, adder, socks, bound, err, reg>>
        /\ results' = [v \in Lookup |-> 0]
    BY <1>9, Zenon DEF FlushResults, CancelWork, nsv, sockv, addv
  <2>2. Ranges'
    BY <1>1, <2>1, Zenon DEF Ranges
  <2>. QED  BY <1>1, <2>1, <2>2, Zenon DEF Bind, Flushed
<1>10. CASE qmi_recv_ctrl_pkt
  <2>1. /\ UNCHANGED <<up, listed, adder, socks, bound, err, reg>>
        /\ work = "message" /\ msg.type # "resp" /\ work' = "recv"
        /\ \E n \in {results[msg.svc] + 1, 0} :
              results' = [results EXCEPT ![msg.svc] = n]
    BY <1>10, Zenon DEF qmi_recv_ctrl_pkt, nsv, sockv, addv
  <2>2. msg.svc \in Lookup
    BY <2>1, Zenon DEF RegInv, Notices, OnItsWay
  <2>3. Ranges'
    BY <1>1, <2>1, <2>2 DEF Ranges
  <2>. QED  BY <1>1, <2>1, <2>3, Zenon DEF Bind, Flushed
<1>11. CASE SockCreate
  <2>1. /\ UNCHANGED <<up, listed, adder, results, bound, err, reg>>
        /\ socks' = socks + 1 /\ work' # "install"
    BY <1>11, Zenon DEF SockCreate, nsv, addv
  <2>2. Ranges'
    BY <1>1, <2>1 DEF Ranges
  <2>. QED  BY <1>1, <2>1, <2>2, Zenon DEF Bind, Flushed
<1>. QED
  BY <1>3, <1>4, <1>5, <1>6, <1>7, <1>8, <1>9, <1>10, <1>11, Zenon
     DEF Next, WorkStep, ReleaseStep

\* A notice is about a service that is looked up.
LEMMA NoticesNext ==
    ASSUME Types, RegInv, [Next]_vars
    PROVE  Notices'
<1>1. SUFFICES ASSUME NEW m, OnItsWay(m)'
               PROVE  m.type = "resp" \/ m.svc \in Lookup
  BY Zenon DEF Notices
<1>2. CASE OnItsWay(m)
  BY <1>2, Zenon DEF RegInv, Notices
<1>3. CASE \E q \in asked : m = Resp(q.id, q.n)
  BY <1>3 DEF Resp
<1>4. CASE \E v \in Lookup : m \in {NewServer(v), DelServer(v)}
  BY <1>4 DEF NewServer, DelServer
<1>. QED  BY <1>1, <1>2, <1>3, <1>4, MailNext, Zenon DEF RegInv, Ranges

\* A message about something else changes nothing.
LEMMA AppendOther ==
    ASSUME NEW q \in Seq(Message), NEW m \in Message, NEW v, ~About(m, v),
           NEW u \in BOOLEAN
    PROVE  /\ Silent(Append(q, m), v) <=> Silent(q, v)
           /\ LastSays(q, v, u) => LastSays(Append(q, m), v, u)
<1> DEFINE a == Append(q, m)
<1>1. /\ DOMAIN a = DOMAIN q \cup {Len(q) + 1} /\ a[Len(q) + 1] = m
      /\ \A k \in DOMAIN q : a[k] = q[k]
  OBVIOUS
<1> HIDE DEF a
<1>2. Silent(a, v) <=> Silent(q, v)
  BY <1>1, Zenon DEF Silent
<1>3. ASSUME LastSays(q, v, u) PROVE LastSays(a, v, u)
  <2>1. SUFFICES ASSUME NEW k \in DOMAIN a, About(a[k], v),
                        \A j \in DOMAIN a : j > k => ~About(a[j], v)
                 PROVE  a[k].type = "new_server" <=> u
    BY Zenon DEF LastSays
  <2>2. k \in DOMAIN q /\ a[k] = q[k]
    BY <1>1, <2>1, Zenon
  <2>3. \A j \in DOMAIN q : j > k => ~About(q[j], v)
    BY <1>1, <2>1, Zenon
  <2>. QED  BY <1>3, <2>1, <2>2, <2>3, Zenon DEF LastSays
<1>. QED  BY <1>2, <1>3, Zenon DEF a

\* A message about v is the last word on it.
LEMMA AppendWord ==
    ASSUME NEW q \in Seq(Message), NEW m \in Message, NEW v, About(m, v),
           NEW u \in BOOLEAN, m.type = "new_server" <=> u
    PROVE  ~Silent(Append(q, m), v) /\ LastSays(Append(q, m), v, u)
<1> DEFINE a == Append(q, m)
<1>1. /\ DOMAIN a = DOMAIN q \cup {Len(q) + 1} /\ a[Len(q) + 1] = m
      /\ \A k \in DOMAIN q : Len(q) + 1 > k
  OBVIOUS
<1> HIDE DEF a
<1>2. ~Silent(a, v)
  BY <1>1, Zenon DEF Silent
<1>3. LastSays(a, v, u)
  BY <1>1, Zenon DEF LastSays
<1>. QED  BY <1>2, <1>3, Zenon DEF a

\* The worker takes the first message.
LEMMA TakeHead ==
    ASSUME NEW q \in Seq(Message), q # <<>>, NEW v, NEW u \in BOOLEAN
    PROVE  /\ Silent(q, v) => Silent(Tail(q), v) /\ ~About(Head(q), v)
           /\ LastSays(q, v, u) =>
                 /\ LastSays(Tail(q), v, u)
                 /\ Silent(Tail(q), v) /\ About(Head(q), v) =>
                       (Head(q).type = "new_server" <=> u)
           /\ Silent(Tail(q), v) /\ ~About(Head(q), v) => Silent(q, v)
<1> DEFINE t == Tail(q)
<1>1. /\ 1 \in DOMAIN q /\ Head(q) = q[1]
      /\ \A k \in DOMAIN q : k \in Int /\ (k = 1 \/ k - 1 \in DOMAIN t)
      /\ \A k \in DOMAIN t : k + 1 \in DOMAIN q /\ t[k] = q[k + 1] /\ k \in Int
      /\ \A k \in DOMAIN q : k # 1 => t[k - 1] = q[k]
  OBVIOUS
<1> HIDE DEF t
<1>2. Silent(q, v) => Silent(t, v) /\ ~About(Head(q), v)
  BY <1>1, Zenon DEF Silent
<1>3. Silent(t, v) /\ ~About(Head(q), v) => Silent(q, v)
  BY <1>1, Zenon DEF Silent
<1>4. ASSUME LastSays(q, v, u) PROVE LastSays(t, v, u)
  <2>1. SUFFICES ASSUME NEW k \in DOMAIN t, About(t[k], v),
                        \A j \in DOMAIN t : j > k => ~About(t[j], v)
                 PROVE  t[k].type = "new_server" <=> u
    BY Zenon DEF LastSays
  <2>2. \A j \in DOMAIN q : j > k + 1 => ~About(q[j], v)
    <3>1. SUFFICES ASSUME NEW j \in DOMAIN q, j > k + 1 PROVE ~About(q[j], v)
      BY Zenon
    <3>2. k \in Int /\ j \in Int /\ j # 1 /\ j - 1 > k
      BY <1>1, <3>1
    <3>. QED  BY <1>1, <2>1, <3>2, Zenon
  <2>3. k + 1 \in DOMAIN q /\ t[k] = q[k + 1]
    BY <1>1, Zenon
  <2>4. About(q[k + 1], v)
    BY <2>1, <2>3, Zenon
  <2>5. q[k + 1].type = "new_server" <=> u
    BY <1>4, <2>2, <2>3, <2>4, Zenon DEF LastSays
  <2>. QED  BY <2>3, <2>5, Zenon
<1>5. ASSUME LastSays(q, v, u), Silent(t, v), About(Head(q), v)
      PROVE  Head(q).type = "new_server" <=> u
  <2>1. \A j \in DOMAIN q : j > 1 => ~About(q[j], v)
    <3>1. SUFFICES ASSUME NEW j \in DOMAIN q, j > 1 PROVE ~About(q[j], v)
      BY Zenon
    <3>2. j # 1
      BY <3>1
    <3>. QED  BY <1>1, <1>5, <3>2, Zenon DEF Silent
  <2>. QED  BY <1>1, <1>5, <2>1, Zenon DEF LastSays
<1>. QED  BY <1>2, <1>3, <1>4, <1>5, Zenon DEF t

\* Nothing the name server or the worker says of v changes.
LEMMA KnownStays ==
    ASSUME NEW v, KnownOf(v), UNCHANGED <<sock, reg, up, results>>,
           Handled(v)' <=> Handled(v), Handled(v) => msg' = msg,
           rx'[sock] = rx[sock]
    PROVE  KnownOf(v)'
BY Zenon DEF KnownOf, Heard

\* Before a release, and unless a reset replaces it, the socket in use is the
\* open one.
LEMMA InUse ==
    ASSUME Types, SockInv, rel = "no", work \notin Replacing \cup {"release"}
    PROVE  sock \in Sock /\ live = {sock}
BY QmiAssumption DEF SockInv, Closing, Opened, Types, SockTypes, Sock

\* A service is registered, and the name server answers if it is there.
LEMMA KnownRegister ==
    ASSUME Types, SockInv, NEW v \in Svc, Register(v), Known,
           UNCHANGED <<sock, live, up, results, work, msg, rel, failed>>
    PROVE  Known'
<1>1. SUFFICES ASSUME Sound', work \notin Replacing \cup {"create", "release"},
                      sock \notin err', NEW w \in Lookup
               PROVE  KnownOf(w)'
  BY Zenon DEF Known
<1>2. sock \notin err /\ Sound
  BY <1>1, Zenon DEF Sound, Register, qrtr_sendmsg
<1>3. sock \in Sock /\ live = {sock} /\ rx[sock] \in Seq(Message)
  <2>1. sock \in Sock /\ live = {sock}
    BY <1>1, <1>2, InUse, Zenon DEF Sound
  <2>. QED  BY <2>1, Zenon DEF Types, SockTypes
<1>4. KnownOf(w)
  BY <1>1, <1>2, Zenon DEF Known
<1>5. reg' = reg \cup {<<v, sock>>}
  BY <1>2, <1>3, Zenon DEF Register
<1>6. <<w, sock>> \in reg' <=> <<w, sock>> \in reg \/ w = v
  BY <1>5, Zenon
<1>7. Handled(w)' <=> Handled(w)
  BY Zenon DEF Handled
<1>8. CASE v \in up
  <2>1. rx'[sock] = Append(rx[sock], NewServer(v)) /\ NewServer(v) \in Message
    <3>1. Deliver({sock}, NewServer(v))
      BY <1>2, <1>3, <1>8, Zenon DEF Register
    <3>. QED  BY <1>3, <3>1, Zenon DEF Deliver, NewServer, Message
  <2>2. CASE w = v
    <3>1. About(NewServer(v), w) /\ (NewServer(v).type = "new_server" <=> w \in up)
      BY <1>8, <2>2, Zenon DEF About, NewServer
    <3>2. (w \in up) \in BOOLEAN
      OBVIOUS
    <3>3. LastSays(rx'[sock], w, w \in up) /\ ~Silent(rx'[sock], w)
      BY <1>3, <2>1, <3>1, <3>2, AppendWord, Zenon
    <3>. QED  BY <1>6, <2>2, <3>3, Zenon DEF KnownOf
  <2>3. CASE w # v
    <3>1. ~About(NewServer(v), w)
      BY <2>3, Zenon DEF About, NewServer
    <3>2. (w \in up) \in BOOLEAN
      OBVIOUS
    <3>3. /\ Silent(rx'[sock], w) <=> Silent(rx[sock], w)
          /\ LastSays(rx[sock], w, w \in up) => LastSays(rx'[sock], w, w \in up)
      BY <1>3, <2>1, <3>1, <3>2, AppendOther, ZenonT(30)
    <3>. QED  BY <1>4, <1>6, <1>7, <2>3, <3>3, Zenon DEF KnownOf, Heard
  <2>. QED  BY <2>2, <2>3, Zenon
<1>9. CASE v \notin up
  <2>1. rx' = rx
    BY <1>2, <1>3, <1>9, Zenon DEF Register
  <2>2. CASE w # v \/ <<w, sock>> \in reg
    BY <1>4, <1>6, <1>7, <2>1, <2>2, Zenon DEF KnownOf, Heard
  <2>3. CASE w = v /\ <<w, sock>> \notin reg
    <3>1. Silent(rx[sock], w) /\ ~Handled(w) /\ results[w] = 0 /\ w \notin up
      BY <1>4, <1>9, <2>3, Zenon DEF KnownOf
    <3>2. LastSays(rx[sock], w, w \in up)
      BY <3>1, Zenon DEF Silent, LastSays
    <3>3. Heard(w)'
      BY <1>7, <3>1 DEF Heard
    <3>. QED  BY <1>6, <2>1, <2>3, <3>2, <3>3, Zenon DEF KnownOf
  <2>. QED  BY <2>2, <2>3, Zenon
<1>. QED  BY <1>8, <1>9, Zenon

\* A server comes or goes.
LEMMA KnownFlaps ==
    ASSUME Types, SockInv, NEW v \in Lookup, ServerFlaps(v), Known
    PROVE  Known'
<1>1. UNCHANGED <<sock, live, err, reg, results, work, msg, rel, failed, stolen>>
  BY Zenon DEF ServerFlaps, sockv, workv, relv, hist
<1>2. SUFFICES ASSUME Sound, work \notin Replacing \cup {"create", "release"},
                      sock \notin err, NEW w \in Lookup
               PROVE  KnownOf(w)'
  BY <1>1, Zenon DEF Known, Sound
<1>3. sock \in Sock /\ live = {sock} /\ rx[sock] \in Seq(Message)
  <2>1. sock \in Sock /\ live = {sock}
    BY <1>2, InUse, Zenon DEF Sound
  <2>. QED  BY <2>1, Zenon DEF Types, SockTypes
<1>4. KnownOf(w)
  BY <1>2, Zenon DEF Known
<1>5. Handled(w)' <=> Handled(w)
  BY <1>1, Zenon DEF Handled
<1> DEFINE m == IF v \in up THEN DelServer(v) ELSE NewServer(v)
<1>6. /\ m \in Message /\ About(m, v) /\ (w # v => ~About(m, w))
      /\ m.type = "new_server" <=> v \in up'
      /\ w # v => (w \in up' <=> w \in up)
  <2>1. up' = IF v \in up THEN up \ {v} ELSE up \cup {v}
    BY Zenon DEF ServerFlaps
  <2>2. v \in Svc
    BY Zenon DEF Svc
  <2>. QED  BY <2>1, <2>2, Zenon DEF NewServer, DelServer, Message, About
<1>7. rx'[sock] = IF <<v, sock>> \in reg THEN Append(rx[sock], m) ELSE rx[sock]
  <2>1. Deliver({s \in Sock : <<v, s>> \in reg}, m)
    BY Zenon DEF ServerFlaps
  <2> HIDE DEF m
  <2>. QED  BY <1>3, <2>1, Zenon DEF Deliver
<1> HIDE DEF m
<1>8. (w \in up') \in BOOLEAN /\ (v \in up') \in BOOLEAN
  OBVIOUS
<1>9. CASE w = v /\ <<v, sock>> \in reg
  <2>1. LastSays(rx'[sock], v, v \in up') /\ ~Silent(rx'[sock], v)
    BY <1>3, <1>6, <1>7, <1>8, <1>9, AppendWord, Zenon
  <2>. QED  BY <1>1, <1>9, <2>1, Zenon DEF KnownOf
<1>10. CASE <<w, sock>> \notin reg
  <2>1. Silent(rx'[sock], w)
    <3>1. Silent(rx[sock], w) /\ (rx'[sock] = rx[sock] \/ w # v)
      BY <1>4, <1>7, <1>10, Zenon DEF KnownOf
    <3>. QED  BY <1>3, <1>6, <1>7, <1>8, <3>1, AppendOther, ZenonT(30)
  <2>. QED  BY <1>1, <1>4, <1>5, <1>10, <2>1, Zenon DEF KnownOf
<1>11. CASE w # v /\ <<w, sock>> \in reg
  <2>1. LastSays(rx[sock], w, w \in up') /\ (Silent(rx[sock], w) => Heard(w))
    BY <1>4, <1>6, <1>11 DEF KnownOf
  <2>2. LastSays(rx'[sock], w, w \in up')
        /\ (Silent(rx'[sock], w) => Silent(rx[sock], w))
    BY <1>3, <1>6, <1>7, <1>8, <1>11, <2>1, AppendOther, Zenon
  <2>3. Heard(w) => Heard(w)'
    BY <1>1, <1>5, <1>6, <1>11, Zenon DEF Heard
  <2>. QED  BY <1>1, <1>11, <2>1, <2>2, <2>3, Zenon DEF KnownOf
<1>. QED  BY <1>9, <1>10, <1>11, Zenon

\* The worker reads the socket.
LEMMA KnownRecv ==
    ASSUME Types, Recv, Known
    PROVE  Known'
<1>1. UNCHANGED <<sock, reg, up, results, rel, failed, stolen>> /\ work = "recv"
  BY Zenon DEF Recv, relv, hist, nsv
<1>2. SUFFICES ASSUME Sound, work' # "create", sock \notin err', NEW v \in Lookup
               PROVE  KnownOf(v)'
  BY <1>1, Zenon DEF Known, Sound
<1>3. sock \notin err
  BY <1>2, RecvCases, Zenon
<1>4. KnownOf(v) /\ ~Handled(v)
  BY <1>1, <1>2, <1>3, Zenon DEF Known, Handled, Replacing
<1>5. CASE work' = "idle" /\ rx' = rx
  BY <1>1, <1>4, <1>5, Zenon DEF KnownOf, Heard, Handled
<1>6. CASE /\ sock # 0 /\ rx[sock] # <<>> /\ work' = "message"
           /\ msg' = Head(rx[sock]) /\ rx' = [rx EXCEPT ![sock] = Tail(@)]
  <2>1. rx[sock] \in Seq(Message) /\ rx'[sock] = Tail(rx[sock])
    BY <1>6, QmiAssumption DEF Types, SockTypes, Sock
  <2>2. Handled(v)' <=> About(Head(rx[sock]), v)
    BY <1>6, Zenon DEF Handled
  <2> DEFINE q == rx[sock]
             u == v \in up
  <2>3. u \in BOOLEAN
    OBVIOUS
  <2>4. /\ Silent(q, v) => Silent(Tail(q), v) /\ ~About(Head(q), v)
        /\ LastSays(q, v, u) =>
              /\ LastSays(Tail(q), v, u)
              /\ Silent(Tail(q), v) /\ About(Head(q), v) =>
                    (Head(q).type = "new_server" <=> u)
        /\ Silent(Tail(q), v) /\ ~About(Head(q), v) => Silent(q, v)
    <3> HIDE DEF u
    <3>. QED  BY <1>6, <2>1, <2>3, TakeHead, Zenon
  <2>5. CASE <<v, sock>> \in reg
    <3>1. LastSays(q, v, u) /\ (Silent(q, v) => (results[v] > 0 <=> v \in up))
      BY <1>4, <2>5, Zenon DEF KnownOf, Heard
    <3>2. Silent(Tail(q), v) => Heard(v)'
      BY <1>1, <1>6, <2>2, <2>4, <3>1, Zenon DEF Heard
    <3>. QED  BY <1>1, <2>1, <2>4, <2>5, <3>1, <3>2, Zenon DEF KnownOf
  <2>6. CASE <<v, sock>> \notin reg
    BY <1>1, <1>4, <2>1, <2>2, <2>4, <2>6, Zenon DEF KnownOf
  <2>. QED  BY <2>5, <2>6, Zenon
<1>. QED  BY <1>2, <1>3, <1>5, <1>6, RecvCases, Zenon

\* Every step keeps what the name server has said.
LEMMA KnownNext ==
    ASSUME Types, SockInv, Ranges, RegInv, [Next]_vars
    PROVE  Known'
<1>1. Known /\ Bind
  BY Zenon DEF RegInv
<1>2. ASSUME UNCHANGED <<sock, reg, up, results, rx, rel, failed>>,
             \/ work' = work /\ msg' = msg
             \/ work # "message" /\ work' # "message",
             work' \notin Replacing \cup {"create", "release"} =>
                work \notin Replacing \cup {"create", "release"},
             Sound' /\ sock \notin err' => Sound /\ sock \notin err
      PROVE  Known'
  <2>1. SUFFICES ASSUME Sound', sock \notin err', NEW v \in Lookup,
                        work' \notin Replacing \cup {"create", "release"}
                 PROVE  KnownOf(v)'
    BY <1>2, Zenon DEF Known
  <2>2. KnownOf(v)
    BY <1>1, <1>2, <2>1, Zenon DEF Known
  <2>3. (Handled(v)' <=> Handled(v)) /\ (Handled(v) => msg' = msg)
    BY <1>2, Zenon DEF Handled
  <2>. QED  BY <1>2, <2>2, <2>3, KnownStays, Zenon
<1>3. CASE \/ \E c \in Client : \/ qmi_txn_init(c) \/ ClientStep(c)
                               \/ Timeout(c)
           \/ \E v \in Svc : AddToList(v)
           \/ UNCHANGED vars
  <2>1. UNCHANGED <<sock, reg, up, results, rx, rel, failed, work, msg>>
    BY <1>3, Zenon DEF qmi_txn_init, ClientStep, Timeout, AddToList,
         qmi_send_message, qmi_txn_cancel, Woken, LookAtResult, EndWait, vars,
         sockv, workv, relv, hist, nsv
  <2>2. Sound' /\ sock \notin err' => Sound /\ sock \notin err
    BY <1>3, ZenonT(30) DEF qmi_txn_init, ClientStep, Timeout, AddToList,
         qmi_send_message, qrtr_sendmsg, qmi_txn_cancel, Woken, LookAtResult,
         EndWait, vars, sockv, relv, hist, Sound
  <2>. QED  BY <1>2, <2>1, <2>2, Zenon
<1>4. ASSUME NEW q \in asked, Answer(q) PROVE Known'
  <2>1. UNCHANGED <<sock, reg, up, results, rel, failed, stolen, err, work, msg>>
    BY <1>4, Zenon DEF Answer, sockv, workv, relv, hist, nsv
  <2>2. CASE rx' = rx
    BY <1>2, <2>1, <2>2, Zenon DEF Sound
  <2>3. CASE Deliver({q.from}, Resp(q.id, q.n))
    <3>1. SUFFICES ASSUME Sound, sock \notin err, NEW v \in Lookup,
                          work \notin Replacing \cup {"create", "release"}
                   PROVE  KnownOf(v)'
      BY <2>1, Zenon DEF Known, Sound
    <3>2. sock \in Sock /\ rx[sock] \in Seq(Message)
      BY <3>1, InUse, Zenon DEF Sound, Types, SockTypes
    <3>3. Resp(q.id, q.n) \in Message /\ ~About(Resp(q.id, q.n), v)
      BY Zenon DEF Resp, Message, Types, TxnTypes, About
    <3>4. rx'[sock] = rx[sock] \/ rx'[sock] = Append(rx[sock], Resp(q.id, q.n))
      BY <2>3, <3>2, Zenon DEF Deliver
    <3>5. KnownOf(v) /\ (Handled(v)' <=> Handled(v))
      BY <1>1, <2>1, <3>1, Zenon DEF Known, Handled
    <3>6. (v \in up) \in BOOLEAN
      OBVIOUS
    <3>7. /\ Silent(rx'[sock], v) <=> Silent(rx[sock], v)
          /\ LastSays(rx[sock], v, v \in up) => LastSays(rx'[sock], v, v \in up)
      <4>1. CASE rx'[sock] = rx[sock]
        BY <4>1, Zenon
      <4>2. CASE rx'[sock] = Append(rx[sock], Resp(q.id, q.n))
        <5> DEFINE u == v \in up
                   r == Resp(q.id, q.n)
        <5>1. u \in BOOLEAN /\ r \in Message /\ ~About(r, v)
          BY <3>3, <3>6, Zenon
        <5> HIDE DEF u, r
        <5>2. /\ Silent(Append(rx[sock], r), v) <=> Silent(rx[sock], v)
              /\ LastSays(rx[sock], v, u) => LastSays(Append(rx[sock], r), v, u)
          BY <3>2, <5>1, AppendOther, Zenon
        <5>. QED  BY <4>2, <5>2, Zenon DEF u, r
      <4>. QED  BY <3>4, <4>1, <4>2, Zenon
    <3>. QED  BY <2>1, <3>5, <3>7, Zenon DEF KnownOf, Heard
  <2>. QED  BY <1>4, <2>2, <2>3, Zenon DEF Answer
<1>5. ASSUME NEW v \in Svc, SendRegistration(v) \/ RegisterAgain(v)
      PROVE  Known'
  <2>1. /\ UNCHANGED <<sock, live, up, results, work, msg, rel, failed>>
        /\ Register(v)
    BY <1>5, Zenon DEF SendRegistration, RegisterAgain, workv, relv
  <2>. QED  BY <1>1, <2>1, KnownRegister, Zenon
<1>6. CASE NameServerStarts
  <2>1. /\ UNCHANGED <<sock, live, up, results, rx, rel, failed, stolen, work,
                       msg>>
        /\ reg' = {} /\ err' = live \cap bound
    BY <1>6, Zenon DEF NameServerStarts, workv, relv, hist
  <2>2. SUFFICES ASSUME Sound, sock \notin err', NEW v \in Lookup,
                        work \notin Replacing \cup {"create", "release"}
                 PROVE  KnownOf(v)'
    BY <2>1, Zenon DEF Known, Sound
  <2>3. sock \notin bound /\ sock \notin err
    BY <2>1, <2>2, InUse, Zenon DEF Sound, Ranges
  <2>4. KnownOf(v) /\ <<v, sock>> \notin reg
    BY <1>1, <2>2, <2>3, Zenon DEF Known, Bind
  <2>5. Silent(rx[sock], v) /\ ~Handled(v)' /\ results[v] = 0
    BY <2>1, <2>4, Zenon DEF KnownOf, Handled
  <2>. QED  BY <2>1, <2>5, Zenon DEF KnownOf
<1>7. ASSUME NEW v \in Lookup, ServerFlaps(v) PROVE Known'
  BY <1>1, <1>7, KnownFlaps, Zenon
<1>8. CASE Recv
  BY <1>1, <1>8, KnownRecv, Zenon
<1>9. CASE qmi_handle_message
  <2>1. UNCHANGED <<sock, reg, up, results, rx, rel, failed, stolen, err>>
        /\ work = "message" /\ msg.type = "resp" /\ work' = "recv"
    BY <1>9, Zenon DEF qmi_handle_message, sockv, relv, hist, nsv
  <2>2. SUFFICES ASSUME Sound, sock \notin err, NEW v \in Lookup
                 PROVE  KnownOf(v)'
    BY <2>1, Zenon DEF Known, Sound
  <2>3. KnownOf(v) /\ ~Handled(v) /\ ~Handled(v)'
    BY <1>1, <2>1, <2>2, Zenon DEF Known, Handled, About, Replacing
  <2>. QED  BY <2>1, <2>3, KnownStays, Zenon
<1>10. CASE qmi_recv_ctrl_pkt
  <2>1. UNCHANGED <<sock, reg, up, rx, rel, failed, stolen, err>>
        /\ work = "message" /\ work' = "recv"
        /\ msg.type \in {"new_server", "del_server"}
    BY <1>10, Zenon DEF qmi_recv_ctrl_pkt, sockv, relv, hist, nsv
  <2>2. SUFFICES ASSUME Sound, sock \notin err, NEW v \in Lookup
                 PROVE  KnownOf(v)'
    BY <2>1, Zenon DEF Known, Sound
  <2>3. KnownOf(v) /\ (Handled(v) <=> msg.svc = v) /\ ~Handled(v)'
    BY <1>1, <2>1, <2>2, Zenon DEF Known, Handled, About, Replacing
  <2>4. /\ msg.svc # v => results'[v] = results[v]
        /\ msg.svc = v => (results'[v] > 0 <=> msg.type = "new_server")
    BY <1>10, <2>2 DEF qmi_recv_ctrl_pkt, Ranges
  <2>. QED  BY <2>1, <2>3, <2>4, Zenon DEF KnownOf, Heard
<1>11. CASE SockCreate \/ SockCreateFails \/ ReleaseOld \/ FlushResults
  <2>1. work' \in Replacing \cup {"release"} \/ failed'
    BY <1>11, Zenon DEF SockCreate, SockCreateFails, ReleaseOld, FlushResults,
                        Replacing
  <2>. QED  BY <2>1, Zenon DEF Known, Sound
<1>12. CASE Install
  <2>1. /\ work = "install" /\ work' = "lookups" /\ sock' = new
        /\ UNCHANGED <<rx, reg, bound, results, rel, failed>>
    BY <1>12, Zenon DEF Install, relv, nsv
  <2>2. SUFFICES ASSUME rel = "no", NEW v \in Lookup PROVE KnownOf(v)'
    BY <2>1, Zenon DEF Known, Sound
  <2>3. new \notin bound /\ \A k \in DOMAIN rx[new] : rx[new][k].type = "resp"
    BY <2>1, <2>2, Zenon DEF RegInv, Fresh, Replacing
  <2>4. <<v, new>> \notin reg /\ Silent(rx[new], v)
    BY <1>1, <2>3, Zenon DEF Bind, Silent, About
  <2>5. results[v] = 0 /\ ~Handled(v)'
    BY <2>1, <2>2, Zenon DEF RegInv, Flushed, Handled
  <2>. QED  BY <2>1, <2>4, <2>5, Zenon DEF KnownOf
<1>13. CASE WorkStart \/ StartWalk \/ EndWalk
  <2>1. UNCHANGED <<sock, reg, up, results, rx, rel, failed, stolen, err>>
    BY <1>13, Zenon DEF WorkStart, StartWalk, EndWalk, sockv, relv, hist, nsv
  <2>2. /\ work \in {"idle", "lookups", "register lookups", "services",
                     "register services"}
        /\ work' # "message"
    BY <1>13, Zenon DEF WorkStart, StartWalk, EndWalk
  <2>3. work # "message" /\ work \notin Replacing \cup {"create", "release"}
    BY <2>2, Zenon DEF Replacing
  <2>. QED  BY <1>2, <2>1, <2>2, <2>3, Zenon DEF Sound
<1>14. CASE qmi_handle_release \/ ReleaseStep
  <2>1. rel' # "no"
    BY <1>14, Zenon DEF qmi_handle_release, ReleaseStep, CancelWork, CloseSock,
                 DestroyWorkqueue, RemoveTxn, CompleteTxn, EndRelease
  <2>. QED  BY <2>1, Zenon DEF Known, Sound
<1>. QED
  BY <1>3, <1>4, <1>5, <1>6, <1>7, <1>8, <1>9, <1>10, <1>11, <1>12, <1>13,
     <1>14, Zenon DEF Next, WorkStep

\* Every service of the lists is registered, or somebody is about to.
LEMMA EnrolledNext ==
    ASSUME Types, SockInv, Ranges, RegInv, [Next]_vars
    PROVE  Enrolled'
<1>1. Enrolled /\ Bind
  BY Zenon DEF RegInv
<1>2. ASSUME UNCHANGED <<listed, adder, sock, reg, work, todo>>,
             Sound' /\ sock \in err => Sound /\ sock \in err',
             Sound' => Sound
      PROVE  Enrolled'
  BY <1>1, <1>2, Zenon DEF Enrolled, Expected
<1>3. CASE \/ \E c \in Client : \/ qmi_txn_init(c) \/ ClientStep(c)
                               \/ Timeout(c)
           \/ \E q \in asked : Answer(q)
           \/ \E v \in Lookup : ServerFlaps(v)
           \/ UNCHANGED vars
  <2>1. UNCHANGED <<listed, adder, sock, reg, work, todo, rel, failed>>
    BY <1>3, Zenon DEF qmi_txn_init, ClientStep, Timeout, Answer, ServerFlaps,
         qmi_send_message, qmi_txn_cancel, Woken, LookAtResult, EndWait, vars,
         sockv, workv, relv, hist, nsv, addv
  <2>2. (err' = err /\ stolen' = stolen) \/ qrtr_sendmsg
    BY <1>3, Zenon DEF qmi_txn_init, ClientStep, Timeout, Answer, ServerFlaps,
         qmi_send_message, qmi_txn_cancel, Woken, LookAtResult, EndWait, vars,
         sockv, hist
  <2>. QED  BY <1>2, <2>1, <2>2, Zenon DEF Sound, qrtr_sendmsg
<1>4. ASSUME NEW v \in Svc, AddToList(v) PROVE Enrolled'
  <2>1. /\ UNCHANGED <<sock, reg, work, todo, rel, failed, stolen, err>>
        /\ listed' = listed \cup {v} /\ adder' = [adder EXCEPT ![v] = "listed"]
        /\ adder[v] = "no"
    BY <1>4, Zenon DEF AddToList, sockv, workv, relv, hist, nsv
  <2>2. adder \in [Svc -> {"no", "listed", "done"}]
    BY Zenon DEF Ranges
  <2>3. /\ adder'[v] = "listed"
        /\ \A w \in Svc : adder[w] = "listed" => adder'[w] = "listed"
    BY <2>1, <2>2, Zenon
  <2>. QED  BY <1>1, <2>1, <2>3, Zenon DEF Enrolled, Expected, Sound, Ranges
<1>5. ASSUME NEW v \in Svc, Register(v), Sound', UNCHANGED <<sock, rel, failed>>
      PROVE  /\ Sound /\ sock \notin err /\ reg \subseteq reg'
             /\ sock \in live => <<v, sock>> \in reg'
  <2>1. Sound /\ sock \notin err
    BY <1>5, Zenon DEF Register, qrtr_sendmsg, Sound
  <2>2. reg' = reg \cup {<<v, sock>>} \/ (sock \notin live /\ reg' = reg)
    BY <1>5, <2>1, Zenon DEF Register
  <2>. QED  BY <2>1, <2>2, Zenon
<1>6. sock \in live \/ rel # "no" \/ work \in Replacing \cup {"release"}
  BY InUse, Zenon
<1>7. ASSUME NEW v \in Svc, SendRegistration(v) PROVE Enrolled'
  <2>1. /\ UNCHANGED <<sock, work, todo, listed, rel, failed>> /\ Register(v)
        /\ adder' = [adder EXCEPT ![v] = "done"]
    BY <1>7, Zenon DEF SendRegistration, workv, relv
  <2>2. \A w \in Svc : w # v => adder'[w] = adder[w]
    BY <2>1, Zenon DEF Ranges
  <2>3. SUFFICES ASSUME Sound', NEW w \in listed
                 PROVE  <<w, sock>> \in reg' \/ Expected(w)'
    BY <2>1, Zenon DEF Enrolled
  <2>4. Sound /\ sock \notin err /\ reg \subseteq reg'
        /\ (sock \in live => <<v, sock>> \in reg')
    BY <1>5, <2>1, <2>3, Zenon
  <2>5. <<w, sock>> \in reg \/ Expected(w)
    BY <1>1, <2>4, Zenon DEF Enrolled
  <2>6. CASE w = v
    BY <1>6, <2>1, <2>4, <2>6, Zenon DEF Sound, Expected
  <2>7. CASE w # v
    BY <2>1, <2>2, <2>4, <2>5, <2>7, Zenon DEF Expected, Ranges
  <2>. QED  BY <2>6, <2>7, Zenon
<1>8. ASSUME NEW v \in Svc, RegisterAgain(v) PROVE Enrolled'
  <2>1. /\ UNCHANGED <<sock, work, adder, listed, rel, failed>> /\ Register(v)
        /\ todo' = todo \ {v} /\ work \in {"register lookups", "register services"}
    BY <1>8, Zenon DEF RegisterAgain, relv, addv
  <2>2. SUFFICES ASSUME Sound', NEW w \in listed
                 PROVE  <<w, sock>> \in reg' \/ Expected(w)'
    BY <2>1, Zenon DEF Enrolled
  <2>3. Sound /\ sock \notin err /\ reg \subseteq reg'
        /\ (sock \in live => <<v, sock>> \in reg')
    BY <1>5, <2>1, <2>2, Zenon
  <2>4. <<v, sock>> \in reg'
    BY <1>6, <2>1, <2>3, Zenon DEF Sound, Replacing
  <2>5. <<w, sock>> \in reg \/ Expected(w)
    BY <1>1, <2>3, Zenon DEF Enrolled
  <2>. QED  BY <2>1, <2>3, <2>4, <2>5, Zenon DEF Expected
<1>9. CASE NameServerStarts
  <2>1. /\ UNCHANGED <<sock, work, todo, listed, adder, rel, failed, stolen>>
        /\ reg' = {} /\ err' = live \cap bound
    BY <1>9, Zenon DEF NameServerStarts, workv, relv, hist, addv
  <2>2. SUFFICES ASSUME Sound, NEW v \in listed PROVE Expected(v)'
    BY <2>1, Zenon DEF Enrolled, Sound
  <2>3. <<v, sock>> \in reg \/ Expected(v)
    BY <1>1, <2>2, Zenon DEF Enrolled
  <2>4. <<v, sock>> \in reg => sock \in bound
    BY <1>1, Zenon DEF Bind
  <2>5. sock \in err => sock \in live \cap bound
    BY Zenon DEF Types, SockTypes, Ranges
  <2>. QED  BY <1>6, <2>1, <2>2, <2>3, <2>4, <2>5, Zenon DEF Expected, Sound
<1>10. CASE Recv
  <2>1. UNCHANGED <<sock, reg, adder, listed, todo, rel, failed, stolen>>
    BY <1>10, Zenon DEF Recv, relv, hist, nsv, addv
  <2>2. work = "recv" /\ (work' = "create" \/ err' = err)
    BY <1>10, RecvCases, Zenon
  <2>3. CASE work' = "create"
    BY <2>3, Zenon DEF Enrolled, Expected
  <2>4. CASE err' = err
    BY <1>1, <2>1, <2>2, <2>4, Zenon DEF Enrolled, Expected, Sound, Replacing
  <2>. QED  BY <2>2, <2>3, <2>4, Zenon
<1>11. CASE \/ WorkStart \/ qmi_handle_message \/ qmi_recv_ctrl_pkt
            \/ StartWalk \/ EndWalk
  <2>1. UNCHANGED <<sock, reg, adder, listed, rel, failed, stolen, err>>
    BY <1>11, Zenon DEF WorkStart, qmi_handle_message, qmi_recv_ctrl_pkt,
        StartWalk, EndWalk, relv, hist, nsv, addv, sockv
  <2>2. \/ work \in {"idle", "message"}
        \/ work = "lookups" /\ work' = "register lookups"
             /\ todo' = listed \cap Lookup
        \/ work = "services" /\ work' = "register services"
             /\ todo' = listed \cap Service
        \/ work = "register lookups" /\ work' = "services" /\ todo = {}
        \/ work = "register services" /\ work' = "idle" /\ todo = {}
    BY <1>11, Zenon DEF WorkStart, qmi_handle_message, qmi_recv_ctrl_pkt,
        StartWalk, EndWalk
  <2>3. SUFFICES ASSUME Sound, NEW v \in listed
                 PROVE  <<v, sock>> \in reg \/ Expected(v)'
    BY <2>1, Zenon DEF Enrolled, Sound
  <2>4. <<v, sock>> \in reg \/ Expected(v)
    BY <1>1, <2>3, Zenon DEF Enrolled
  <2>5. v \in Lookup \/ v \in Service
    BY Zenon DEF Ranges, Svc
  <2>. QED  BY <2>1, <2>2, <2>4, <2>5, QmiAssumption, Zenon
               DEF Expected, Replacing
<1>12. CASE SockCreate \/ ReleaseOld \/ FlushResults \/ Install
            \/ SockCreateFails
  <2>1. work' \in {"release", "flush", "install", "lookups"} \/ failed'
    BY <1>12, Zenon DEF SockCreate, SockCreateFails, ReleaseOld, FlushResults,
                        Install
  <2>. QED  BY <2>1, Zenon DEF Enrolled, Expected, Sound, Replacing
<1>13. CASE qmi_handle_release \/ ReleaseStep
  <2>1. rel' # "no"
    BY <1>13, Zenon DEF qmi_handle_release, ReleaseStep, CancelWork, CloseSock,
                 DestroyWorkqueue, RemoveTxn, CompleteTxn, EndRelease
  <2>. QED  BY <2>1, Zenon DEF Enrolled, Sound
<1>. QED
  BY <1>3, <1>4, <1>7, <1>8, <1>9, <1>10, <1>11, <1>12, <1>13, Zenon
     DEF Next, WorkStep

\* The socket to come is not known to the name server yet: all it can have
\* received is an answer.
LEMMA FreshNext ==
    ASSUME Types, Types', SockInv, Ranges, RegInv, [Next]_vars
    PROVE  Fresh'
<1>1. SUFFICES ASSUME rel' = "no", work' \in Replacing \cup {"release"}
               PROVE  /\ new' \notin bound'
                      /\ \A k \in DOMAIN rx'[new'] : rx'[new'][k].type = "resp"
  BY Zenon DEF Fresh
<1>2. rel = "no" /\ work' \in {"release", "flush", "install"}
  BY <1>1, Zenon
     DEF Next, WorkStep, ClientStep, ReleaseStep, vars, qmi_txn_init, Timeout,
       qmi_send_message, qmi_txn_cancel, Woken, LookAtResult, EndWait, Answer,
       AddToList, SendRegistration, NameServerStarts, ServerFlaps, WorkStart,
       Recv, RegisterAgain, qmi_handle_message, qmi_recv_ctrl_pkt, SockCreate,
       SockCreateFails, ReleaseOld, FlushResults, Install, StartWalk, EndWalk,
       qmi_handle_release, CancelWork, CloseSock, DestroyWorkqueue, RemoveTxn,
       CompleteTxn, EndRelease, relv, Replacing
<1>3. Fresh /\ Bind
  BY Zenon DEF RegInv
<1>4. Opened /\ live \subseteq 1 .. socks /\ Clean /\ socks \in Nat
  <2>1. Opened /\ Clean
    BY <1>2, Zenon DEF SockInv, Closing
  <2>2. live \subseteq 1 .. socks /\ socks \in Nat
    BY QmiAssumption DEF Types, SockTypes, Sock
  <2>. QED  BY <2>1, <2>2, Zenon
<1>5. ASSUME work' = work PROVE /\ work \in Replacing \cup {"release"}
                                /\ new \in Sock /\ new \notin {sock} \cap live
                                /\ new \notin bound /\ new # sock
                                /\ \A k \in DOMAIN rx[new] :
                                      rx[new][k].type = "resp"
  BY <1>1, <1>2, <1>3, <1>4, <1>5, QmiAssumption
     DEF Fresh, Opened, Replacing, Types, SockTypes, Sock
<1>6. ASSUME UNCHANGED <<work, new, rx>>, bound' \subseteq bound \cup ({sock} \cap live)
      PROVE  /\ new' \notin bound'
             /\ \A k \in DOMAIN rx'[new'] : rx'[new'][k].type = "resp"
  BY <1>5, <1>6, Zenon
<1>7. CASE \/ \E c \in Client : \/ qmi_txn_init(c) \/ ClientStep(c)
                               \/ Timeout(c)
           \/ \E v \in Svc : AddToList(v)
           \/ NameServerStarts
           \/ UNCHANGED vars
  <2>1. UNCHANGED <<work, new, rx>>
    BY <1>7, Zenon DEF qmi_txn_init, ClientStep, Timeout, AddToList, workv,
         NameServerStarts, qmi_send_message, qmi_txn_cancel, Woken,
         LookAtResult, EndWait, vars
  <2>2. bound' = bound \/ bound' = bound \cup ({sock} \cap live)
    BY <1>7, Zenon DEF qmi_txn_init, ClientStep, Timeout, AddToList, sockv,
         NameServerStarts, qmi_send_message, qrtr_sendmsg, qmi_txn_cancel,
         Woken, LookAtResult, EndWait, vars
  <2>. QED  BY <1>6, <2>1, <2>2, Zenon
<1>8. ASSUME NEW S, NEW m, Deliver(S, m), UNCHANGED <<work, new>>,
             bound' \subseteq bound \cup ({sock} \cap live),
             new \notin S \/ (m \in Message /\ m.type = "resp")
      PROVE  /\ new' \notin bound'
             /\ \A k \in DOMAIN rx'[new'] : rx'[new'][k].type = "resp"
  <2>1. new' = new /\ new \notin bound'
    BY <1>5, <1>8, Zenon
  <2>2. rx'[new] = rx[new] \/ (m \in Message /\ m.type = "resp" /\ rx'[new] = Append(rx[new], m))
    BY <1>5, <1>8, Zenon DEF Deliver
  <2>3. rx[new] \in Seq(Message)
    BY <1>5, <1>8, Zenon DEF Types, SockTypes
  <2>4. ASSUME m \in Message, m.type = "resp", rx'[new] = Append(rx[new], m),
               NEW k \in DOMAIN rx'[new]
        PROVE  rx'[new][k].type = "resp"
    BY <1>5, <1>8, <2>3, <2>4
  <2>. QED  BY <1>5, <1>8, <2>1, <2>2, <2>4, Zenon
<1>9. ASSUME NEW q \in asked, Answer(q)
      PROVE  /\ new' \notin bound'
             /\ \A k \in DOMAIN rx'[new'] : rx'[new'][k].type = "resp"
  <2>1. UNCHANGED <<work, new, bound>>
    BY <1>9, Zenon DEF Answer, sockv, workv
  <2>2. Resp(q.id, q.n) \in Message /\ Resp(q.id, q.n).type = "resp"
    BY Zenon DEF Resp, Message, Types, TxnTypes
  <2>. QED  BY <1>6, <1>8, <1>9, <2>1, <2>2, Zenon DEF Answer
<1>10. ASSUME NEW v \in Lookup, ServerFlaps(v)
       PROVE  /\ new' \notin bound'
              /\ \A k \in DOMAIN rx'[new'] : rx'[new'][k].type = "resp"
  <2>1. UNCHANGED <<work, new, bound>>
    BY <1>10, Zenon DEF ServerFlaps, sockv, workv
  <2>2. new \notin {s \in Sock : <<v, s>> \in reg}
    BY <1>3, <1>5, <2>1, Zenon DEF Bind
  <2>. QED  BY <1>8, <1>10, <2>1, <2>2, Zenon DEF ServerFlaps
<1>11. ASSUME NEW v \in Svc, SendRegistration(v) \/ RegisterAgain(v)
       PROVE  /\ new' \notin bound'
              /\ \A k \in DOMAIN rx'[new'] : rx'[new'][k].type = "resp"
  <2>1. UNCHANGED <<work, new>> /\ Register(v)
    BY <1>11, Zenon DEF SendRegistration, RegisterAgain, workv
  <2>2. bound' = bound \cup ({sock} \cap live)
    BY <2>1, Zenon DEF Register, qrtr_sendmsg
  <2>3. rx' = rx \/ Deliver({sock}, NewServer(v))
    BY <2>1, Zenon DEF Register
  <2>4. new \notin {sock}
    BY <1>5, <2>1, Zenon
  <2>. QED  BY <1>6, <1>8, <2>1, <2>2, <2>3, <2>4, Zenon
<1>12. CASE SockCreate
  <2>1. new' = socks + 1 /\ bound' = bound /\ rx' = rx /\ socks' = socks + 1
    BY <1>12, Zenon DEF SockCreate
  <2>2. new' \in Sock /\ new' \notin live /\ new' \notin bound'
    <3>1. bound \subseteq 1 .. socks
      BY Zenon DEF Ranges
    <3>2. new' \in Sock
      BY <1>4, <1>12, QmiAssumption DEF SockCreate, Sock
    <3>. QED  BY <1>4, <2>1, <3>1, <3>2
  <2>3. rx'[new'] = <<>>
    BY <1>4, <2>1, <2>2, Zenon DEF Clean
  <2>4. DOMAIN rx'[new'] = {}
    BY <2>3
  <2>. QED  BY <2>2, <2>4, Zenon
<1>13. CASE ReleaseOld
  <2>1. /\ work = "release" /\ UNCHANGED <<new, bound>>
        /\ rx' = [s \in Sock |-> IF s = sock THEN <<>> ELSE rx[s]]
    BY <1>13, Zenon DEF ReleaseOld
  <2>2. /\ new # sock /\ new \in Sock /\ new \notin bound
        /\ \A k \in DOMAIN rx[new] : rx[new][k].type = "resp"
    BY <1>2, <1>3, <1>4, <2>1, QmiAssumption
       DEF Fresh, Opened, Types, SockTypes, Sock
  <2>. QED  BY <2>1, <2>2, Zenon
<1>14. CASE FlushResults
  <2>1. UNCHANGED <<new, bound, rx>> /\ work = "flush"
    BY <1>14, Zenon DEF FlushResults, sockv
  <2>. QED  BY <1>2, <1>3, <2>1, Zenon DEF Fresh, Replacing
<1>15. CASE \/ WorkStart \/ Recv \/ qmi_handle_message \/ qmi_recv_ctrl_pkt
            \/ SockCreateFails \/ Install \/ StartWalk \/ EndWalk
  <2>1. work' \notin {"release", "flush", "install"}
    BY <1>15, RecvCases, Zenon
       DEF WorkStart, qmi_handle_message, qmi_recv_ctrl_pkt, SockCreateFails,
         Install, StartWalk, EndWalk
  <2>. QED  BY <1>2, <2>1, Zenon
<1>16. CASE qmi_handle_release \/ ReleaseStep
  BY <1>1, <1>16, Zenon
     DEF qmi_handle_release, ReleaseStep, CancelWork, CloseSock,
       DestroyWorkqueue, RemoveTxn, CompleteTxn, EndRelease
<1>. QED
  BY <1>7, <1>9, <1>10, <1>11, <1>12, <1>13, <1>14, <1>15, <1>16, Zenon
     DEF Next, WorkStep

\* A new handle has registered nothing.
LEMMA RegInit == Init => RegInv
<1> SUFFICES ASSUME Init PROVE RegInv
  BY Zenon
<1>1. 1 \in Sock
  BY QmiAssumption DEF Init, Sock
<1>2. work = "idle" /\ listed = {} /\ reg = {} /\ sock = 1 /\ err = {}
  BY Zenon DEF Init
<1>3. Bind /\ Enrolled /\ Fresh /\ Flushed
  BY <1>2, Zenon DEF Bind, Enrolled, Fresh, Flushed, Replacing
<1>4. Ranges
  BY Zenon DEF Init, Ranges
<1>5. \A s \in Sock : rx[s] = <<>> /\ DOMAIN rx[s] = {}
  BY DEF Init
<1>6. Notices
  BY <1>2, <1>5, Zenon DEF Notices, OnItsWay
<1>7. \A v \in Lookup : results[v] = 0
  BY Zenon DEF Init
<1>8. ASSUME NEW v \in Lookup PROVE KnownOf(v)
  BY <1>1, <1>2, <1>5, <1>7, Zenon DEF KnownOf, Silent, Handled
<1>. QED  BY <1>3, <1>4, <1>6, <1>8, Zenon DEF RegInv, Known

\* Every step keeps the facts about registrations.
LEMMA RegInvNext ==
    Types /\ Types' /\ SockInv /\ RegInv /\ [Next]_vars => RegInv'
<1> SUFFICES ASSUME Types, Types', SockInv, RegInv, [Next]_vars
             PROVE  RegInv'
  BY Zenon
<1>0. Ranges
  BY Zenon DEF RegInv
<1>1. Ranges' /\ Bind' /\ Flushed' /\ Notices'
  BY RangesNext, NoticesNext, Zenon
<1>2. Enrolled' /\ Fresh' /\ Known'
  BY <1>0, EnrolledNext, FreshNext, KnownNext, Zenon
<1>. QED  BY <1>1, <1>2, Zenon DEF RegInv

\* When everything is quiet, the lists are registered under the socket in use
\* and the servers found are the ones there are.
LEMMA Quiet == SockInv /\ RegInv => RegistrationsCurrent
<1> SUFFICES ASSUME SockInv, RegInv,
                    work = "idle", ~pending, Sound,
                    \A v \in Svc : adder[v] \in {"no", "done"}
             PROVE  /\ \A v \in listed : <<v, sock>> \in reg
                    /\ \A v \in listed \cap Lookup :
                          (results[v] > 0) = (v \in up)
  BY Zenon DEF RegistrationsCurrent, Sound
<1>1. rx[sock] = <<>> /\ sock \notin err
  BY Zenon DEF SockInv, Told, Coming, Replacing, Sound
<1>2. ASSUME NEW v \in listed PROVE <<v, sock>> \in reg
  <2>1. adder[v] # "listed"
    BY Zenon DEF RegInv, Ranges
  <2>2. ~Expected(v)
    BY <1>1, <2>1, Zenon DEF Expected, Replacing
  <2>. QED  BY <2>2, Zenon DEF RegInv, Enrolled
<1>3. ASSUME NEW v \in listed, v \in Lookup
      PROVE  results[v] > 0 <=> v \in up
  <2>1. KnownOf(v)
    BY <1>1, <1>3, Zenon DEF RegInv, Known, Replacing
  <2>2. ~Handled(v)
    BY Zenon DEF Handled
  <2>3. Silent(rx[sock], v)
    BY <1>1 DEF Silent
  <2>. QED  BY <1>2, <2>1, <2>2, <2>3, Zenon DEF KnownOf, Heard
<1>. QED  BY <1>2, <1>3

=============================================================================
