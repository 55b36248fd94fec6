-------------------------------- MODULE Qmi ---------------------------------
(***************************************************************************)
(* A QMI handle (drivers/soc/qcom/qmi_interface.c): transactions of        *)
(* several threads, the ordered worker that reads the handle's socket, the *)
(* replacement of that socket after ENETRESET, lookups and services kept   *)
(* registered with the name server, and the release of the handle.         *)
(*                                                                         *)
(* A transaction lives on the stack of its thread; the handle finds it by  *)
(* a small id, which the peer copies into its answer.  The section of a    *)
(* lock is one step, except that of qmi_handle_release, whose walk over    *)
(* the transactions holds txn_lock for many.  The peer answers when it     *)
(* wants, or never; an answer goes to the socket the request came from.    *)
(*                                                                         *)
(* A socket is bound by its first message (qrtr_autobind), and only bound  *)
(* sockets are reset by a new name server.  The reset is an error of the   *)
(* socket, which the next call that looks takes: the worker's recvmsg, but *)
(* also the allocation of a packet to send.  A message is sent in one      *)
(* step, under sock_lock and the lock of the socket.                       *)
(*                                                                         *)
(* Requests and indications of peers, BYE (a DEL_SERVER of several servers *)
(* at once), handles with a msg_handler of their own, failed allocations   *)
(* other than that of a socket and the time before the first name server   *)
(* are left out.                                                           *)
(***************************************************************************)
EXTENDS Integers, Sequences, FiniteSets

CONSTANTS
    Client,    \* threads that make transactions
    Lookup,    \* services looked up
    Service,   \* services offered
    NIds,      \* transaction ids (U16_MAX in the code)
    None,
    MaxSocks,  \* bound: sockets ever created
    Budgets    \* bounds of a behaviour, which begins by choosing one of them

ASSUME QmiAssumption ==
    /\ IsFiniteSet(Client) /\ NIds \in Nat /\ NIds >= Cardinality(Client)
    /\ \A b \in Budgets :
          /\ b.txns \in Nat             \* transactions
          /\ b.resets \in 0 .. MaxSocks - 1 \* name servers that take over
          /\ b.flaps \in Nat            \* remote servers that come or go
          /\ b.added \subseteq Lookup \cup Service \* services added
    /\ MaxSocks \in Nat /\ Lookup \cap Service = {} /\ None \notin Nat

VARIABLES
    txns, cursor, \* the idr: id -> serial number of a transaction, next id
    serial,       \* transactions started so far
    pc, txn,      \* pc[c]; txn[c]: the transaction on the stack of c
    asked,        \* requests the peer has not answered
    sock,         \* qmi->sock (0: NULL)
    socks,        \* sockets created so far
    live,         \* sockets not yet released
    user_data,    \* sockets whose sk_user_data is the handle
    err,          \* sockets with ENETRESET pending
    bound,        \* sockets with a port
    rx,           \* rx[s]: receive queue of s
    reg,          \* <<v, s>>: the name server knows v from socket s
    up,           \* remote servers that exist
    listed,       \* qmi->lookups and qmi->services
    adder,        \* adder[v]: progress of qmi_add_lookup/qmi_add_server(v)
    results,      \* qmi->lookup_results
    work, pending,\* the work item: what it is doing, whether it is queued
    new, todo,    \* locals of qmi_handle_net_reset
    msg,          \* message being handled
    rel, rsock, rtxn, \* qmi_handle_release: progress and locals
    resets, flaps, \* name servers started, servers come or gone so far
    budget,       \* the bounds of this behaviour
    raced,        \* history: the socket was replaced under a release
    failed,       \* history: a socket could not be created
    stolen        \* history: a send took the ENETRESET of the socket in use

txnv  == <<txns, cursor, serial, pc, txn, asked>>
sockv == <<sock, socks, live, user_data, err, bound>>
nsv   == <<reg, up, resets, flaps, budget>>
addv  == <<listed, adder>>
workv == <<work, new, todo, msg>>
relv  == <<rel, rsock, rtxn>>
hist  == <<raced, failed, stolen>>
vars  == <<txns, cursor, serial, pc, txn, asked, sock, socks, live,
           user_data, err, bound, rx, reg, up, listed, adder, results, work,
           pending, new, todo, msg, rel, rsock, rtxn, resets, flaps, budget,
           raced, failed, stolen>>

Id       == 0 .. NIds - 1
Svc      == Lookup \cup Service
Sock     == 1 .. MaxSocks
NoTxn    == [n |-> 0, id |-> 0, result |-> 0, done |-> FALSE]
NetReset == -1                     \* -ENETRESET

TxnLockFree == rel \notin {"remove", "complete"}

(***************************************************************************)
(* Messages, and the data_ready callback of the socket they arrive at.     *)
(***************************************************************************)
Resp(id, n)    == [type |-> "resp", id |-> id, n |-> n]
NewServer(v)   == [type |-> "new_server", svc |-> v]
DelServer(v)   == [type |-> "del_server", svc |-> v]

\* Mutant: a work item that is running is not queued again.
data_ready_when_idle(S) ==
    pending' = (pending \/ (work = "idle" /\ S \cap user_data # {}))

\* Sockets in S have something to read or report.
qmi_data_ready(S) == pending' = (pending \/ S \cap user_data # {})

Deliver(S, m) ==
    /\ rx' = [s \in Sock |-> IF s \in S \cap live THEN Append(rx[s], m)
                                                  ELSE rx[s]]
    /\ qmi_data_ready(S \cap live)

\* qrtr_sendmsg on qmi->sock, if there is one: it binds the socket; a
\* pending error makes the allocation fail and is gone then.
qrtr_sendmsg ==
    /\ bound' = bound \cup ({sock} \cap live)
    /\ err' = err \ {sock}
    /\ stolen' = (stolen \/ sock \in err)

\* A registration of v is sent; the name server answers a lookup with the
\* servers there are.
Register(v) ==
    /\ qrtr_sendmsg
    /\ IF sock \in live \ err
       THEN /\ reg' = reg \cup {<<v, sock>>}
            /\ IF v \in up THEN Deliver({sock}, NewServer(v))
                           ELSE UNCHANGED <<rx, pending>>
       ELSE UNCHANGED <<reg, rx, pending>>

(***************************************************************************)
(* Transactions.                                                           *)
(***************************************************************************)
FreeIds   == {i \in Id : txns[i] = None}
Least(S)  == CHOOSE i \in S : \A j \in S : i <= j

\* Mutant: always the lowest free id.
alloc_lowest == Least(FreeIds)

\* idr_alloc_cyclic: the next free id from the cursor on, else from 0.
idr_alloc_cyclic ==
    LET onward == {i \in FreeIds : i >= cursor}
    IN  Least(IF onward # {} THEN onward ELSE FreeIds)

\* qmi_txn_init
qmi_txn_init(c) ==
    /\ pc[c] = "idle" /\ serial < budget.txns /\ rel # "done" /\ TxnLockFree
    /\ FreeIds # {}
    /\ LET id == idr_alloc_cyclic
       IN  /\ txns' = [txns EXCEPT ![id] = serial + 1]
           /\ cursor' = id + 1
           /\ txn' = [txn EXCEPT ![c] = [n |-> serial + 1, id |-> id,
                                          result |-> 0, done |-> FALSE]]
    /\ serial' = serial + 1
    /\ pc' = [pc EXCEPT ![c] = "send"]
    /\ UNCHANGED <<asked, sockv, rx, nsv, addv, results, pending, workv, relv,
                   hist>>

\* qmi_send_request fails without a socket (-EPIPE), without a route to the
\* peer (-ECONNRESET, before the allocation) or on a pending error.
qmi_send_message(c) ==
    /\ pc[c] = "send"
    /\ \/ /\ qrtr_sendmsg
          /\ sock # 0 /\ sock \notin err
          /\ asked' = asked \cup {[id |-> txn[c].id, n |-> txn[c].n,
                                   from |-> sock]}
          /\ pc' = [pc EXCEPT ![c] = "wait"]
       \/ /\ qrtr_sendmsg
          /\ sock \in err
          /\ pc' = [pc EXCEPT ![c] = "cancel"]
          /\ UNCHANGED asked
       \/ /\ bound' = bound \cup ({sock} \cap live)
          /\ pc' = [pc EXCEPT ![c] = "cancel"]
          /\ UNCHANGED <<asked, err, stolen>>
    /\ UNCHANGED <<txns, cursor, serial, txn, sock, socks, live, user_data, rx,
                   nsv, addv, results, pending, workv, relv, raced, failed>>

\* idr_remove
idr_remove(id) == txns' = [txns EXCEPT ![id] = None]

\* qmi_txn_cancel
qmi_txn_cancel(c) ==
    /\ pc[c] = "cancel" /\ TxnLockFree
    /\ idr_remove(txn[c].id)
    /\ pc' = [pc EXCEPT ![c] = "idle"]
    /\ UNCHANGED <<cursor, serial, txn, asked, sockv, rx, nsv, addv, results,
                   pending, workv, relv, hist>>

\* The completion ends the wait of qmi_txn_wait ...
Woken(c) ==
    /\ pc[c] = "wait" /\ txn[c].done
    /\ pc' = [pc EXCEPT ![c] = "woken"]
    /\ UNCHANGED <<txns, cursor, serial, txn, asked, sockv, rx, nsv, addv,
                   results, pending, workv, relv, hist>>

\* ... or the timeout does.
Timeout(c) ==
    /\ pc[c] = "wait" /\ ~txn[c].done
    /\ pc' = [pc EXCEPT ![c] = "woken"]
    /\ UNCHANGED <<txns, cursor, serial, txn, asked, sockv, rx, nsv, addv,
                   results, pending, workv, relv, hist>>

\* Mutant: a timeout leaves the transaction in the idr.
LeaveAtOnce(c) ==
    IF txn[c].result = NetReset \/ ~txn[c].done THEN "idle" ELSE "remove"

\* The result is looked at without the lock.
AfterWait(c) == IF txn[c].result = NetReset THEN "idle" ELSE "remove"

LookAtResult(c) ==
    /\ pc[c] = "woken"
    /\ pc' = [pc EXCEPT ![c] = AfterWait(c)]
    /\ UNCHANGED <<txns, cursor, serial, txn, asked, sockv, rx, nsv, addv,
                   results, pending, workv, relv, hist>>

\* The end of qmi_txn_wait.
EndWait(c) ==
    /\ pc[c] = "remove" /\ TxnLockFree
    /\ idr_remove(txn[c].id)
    /\ pc' = [pc EXCEPT ![c] = "idle"]
    /\ UNCHANGED <<cursor, serial, txn, asked, sockv, rx, nsv, addv, results,
                   pending, workv, relv, hist>>

\* The peer answers, in any order, or forgets a request.
Answer(q) ==
    /\ asked' = asked \ {q}
    /\ \/ Deliver({q.from}, Resp(q.id, q.n))
       \/ UNCHANGED <<rx, pending>>
    /\ UNCHANGED <<txns, cursor, serial, pc, txn, sockv, nsv, addv, results,
                   workv, relv, hist>>

(***************************************************************************)
(* The name server: a new one makes every bound socket report ENETRESET,   *)
(* and remote servers come and go.                                         *)
(***************************************************************************)
NameServerStarts ==
    /\ resets < budget.resets
    /\ resets' = resets + 1
    /\ reg' = {}
    /\ err' = live \cap bound
    /\ qmi_data_ready(live \cap bound)
    /\ UNCHANGED <<txnv, sock, socks, live, user_data, bound, rx, up, flaps,
                   budget, addv, results, workv, relv, hist>>

ServerFlaps(v) ==
    /\ flaps < budget.flaps
    /\ flaps' = flaps + 1
    /\ up' = IF v \in up THEN up \ {v} ELSE up \cup {v}
    /\ Deliver({s \in Sock : <<v, s>> \in reg},
               IF v \in up THEN DelServer(v) ELSE NewServer(v))
    /\ UNCHANGED <<txnv, sockv, reg, resets, budget, addv, results, workv,
                   relv, hist>>

(***************************************************************************)
(* qmi_add_lookup and qmi_add_server: list_add, then the registration is   *)
(* sent under sock_lock.                                                   *)
(***************************************************************************)
AddToList(v) ==
    /\ v \in budget.added /\ adder[v] = "no" /\ rel = "no"
    /\ listed' = listed \cup {v}
    /\ adder' = [adder EXCEPT ![v] = "listed"]
    /\ UNCHANGED <<txnv, sockv, rx, nsv, results, pending, workv, relv, hist>>

SendRegistration(v) ==
    /\ adder[v] = "listed"
    /\ adder' = [adder EXCEPT ![v] = "done"]
    /\ Register(v)
    /\ UNCHANGED <<txnv, sock, socks, live, user_data, up, resets, flaps,
                   budget, listed, results, workv, relv, raced, failed>>

(***************************************************************************)
(* qmi_data_ready_work.                                                    *)
(***************************************************************************)
WorkqueueExists == rel \notin {"walk", "remove", "complete", "done"}

WorkStart ==
    /\ work = "idle" /\ pending /\ WorkqueueExists
    /\ pending' = FALSE
    /\ work' = "recv"
    /\ UNCHANGED <<txnv, sockv, rx, nsv, addv, results, new, todo, msg, relv,
                   hist>>

\* kernel_recvmsg under sock_lock: the error first, then the queue.
Recv ==
    /\ work = "recv"
    /\ CASE sock = 0 ->                             \* -EPIPE
              work' = "idle" /\ UNCHANGED <<err, rx, msg>>
         [] sock # 0 /\ sock \in err ->             \* -ENETRESET
              work' = "create" /\ err' = err \ {sock} /\ UNCHANGED <<rx, msg>>
         [] sock # 0 /\ sock \notin err /\ rx[sock] = <<>> -> \* -EAGAIN
              work' = "idle" /\ UNCHANGED <<err, rx, msg>>
         [] OTHER ->
              /\ work' = "message" /\ msg' = Head(rx[sock])
              /\ rx' = [rx EXCEPT ![sock] = Tail(@)]
              /\ UNCHANGED err
    /\ UNCHANGED <<txnv, sock, socks, live, user_data, bound, nsv, addv,
                   results, pending, new, todo, relv, hist>>

\* qmi_handle_message: the transaction of the id, or nothing.
Completed(t, id, n) ==
    [c \in Client |->
        IF pc[c] # "idle" /\ txns[id] = t[c].n
        THEN [n |-> t[c].n, id |-> t[c].id, result |-> n, done |-> TRUE]
        ELSE t[c]]

qmi_handle_message ==
    /\ work = "message" /\ msg.type = "resp" /\ TxnLockFree
    /\ txn' = Completed(txn, msg.id, msg.n)
    /\ work' = "recv" /\ msg' = None
    /\ UNCHANGED <<txns, cursor, serial, pc, asked, sockv, rx, nsv, addv,
                   results, pending, new, todo, relv, hist>>

\* qmi_recv_new_server and qmi_recv_del_server
qmi_recv_ctrl_pkt ==
    /\ work = "message" /\ msg.type \in {"new_server", "del_server"}
    /\ results' = [results EXCEPT ![msg.svc] =
                       IF msg.type = "new_server" THEN @ + 1 ELSE 0]
    /\ work' = "recv" /\ msg' = None
    /\ UNCHANGED <<txnv, sockv, rx, nsv, addv, pending, new, todo, relv, hist>>

\* qmi_handle_net_reset, first the new socket (qmi_sock_create), which may
\* not be had: the old one is then kept and nothing else happens ...
SockCreate ==
    /\ work = "create" /\ socks < MaxSocks
    /\ socks' = socks + 1 /\ new' = socks + 1
    /\ live' = live \cup {socks + 1}
    /\ user_data' = user_data \cup {socks + 1}
    /\ work' = "release"
    /\ UNCHANGED <<txnv, sock, err, bound, rx, nsv, addv, results, pending, todo,
                   msg, relv, hist>>

SockCreateFails ==
    /\ work = "create"
    /\ work' = "idle" /\ failed' = TRUE
    /\ UNCHANGED <<txnv, sockv, rx, nsv, addv, results, pending, new, todo,
                   msg, relv, raced, stolen>>

\* ... then the old one is released ...
ReleaseOld ==
    /\ work = "release"
    /\ live' = live \ {sock} /\ user_data' = user_data \ {sock}
    /\ err' = err \ {sock}
    /\ rx' = [s \in Sock |-> IF s = sock THEN <<>> ELSE rx[s]]
    /\ sock' = 0
    /\ raced' = (raced \/ rel # "no")
    /\ work' = "flush"
    /\ UNCHANGED <<txnv, socks, bound, nsv, addv, results, pending, new, todo,
                   msg, relv, failed, stolen>>

\* ... every known server is gone (qmi_recv_del_server(qmi, -1, -1)) ...
FlushResults ==
    /\ work = "flush"
    /\ results' = [v \in Lookup |-> 0]
    /\ work' = "install"
    /\ UNCHANGED <<txnv, sockv, rx, nsv, addv, pending, new, todo, msg, relv,
                   hist>>

\* ... the new one takes its place, and lookups, then services, are
\* registered again.  list_add puts an entry before the ones a walk has yet to
\* visit, so a walk visits what the list held when it began.
Install ==
    /\ work = "install"
    /\ sock' = new /\ new' = 0
    /\ work' = "lookups" /\ stolen' = FALSE
    /\ UNCHANGED <<txnv, socks, live, user_data, err, bound, rx, nsv, addv,
                   results, pending, todo, msg, relv, raced, failed>>

\* Mutant: the services are forgotten.
WalkLookups ==
    /\ \/ work = "lookups" /\ work' = "register lookups"
          /\ todo' = listed \cap Lookup
       \/ work = "services" /\ work' = "register services"
          /\ todo' = {}
    /\ UNCHANGED <<txnv, sockv, rx, nsv, addv, results, pending, new, msg,
                   relv, hist>>

StartWalk ==
    /\ \/ work = "lookups" /\ work' = "register lookups"
          /\ todo' = listed \cap Lookup
       \/ work = "services" /\ work' = "register services"
          /\ todo' = listed \cap Service
    /\ UNCHANGED <<txnv, sockv, rx, nsv, addv, results, pending, new, msg,
                   relv, hist>>

RegisterAgain(v) ==
    /\ work \in {"register lookups", "register services"} /\ v \in todo
    /\ todo' = todo \ {v}
    /\ Register(v)
    /\ UNCHANGED <<txnv, sock, socks, live, user_data, up, resets, flaps,
                   budget, addv, results, work, new, msg, relv, raced, failed>>

EndWalk ==
    /\ todo = {}
    /\ \/ work = "register lookups" /\ work' = "services"
       \/ work = "register services" /\ work' = "idle"
    /\ UNCHANGED <<txnv, sockv, rx, nsv, addv, results, pending, new, todo,
                   msg, relv, hist>>

(***************************************************************************)
(* qmi_handle_release.  It reads qmi->sock before it stops the worker; a   *)
(* NULL there is dereferenced.                                             *)
(***************************************************************************)
\* Mutant: the socket keeps its sk_user_data.
ReleaseKeepsUserData ==
    /\ rel = "no" /\ sock # 0 /\ \A v \in Svc : adder[v] \in {"no", "done"}
    /\ rel' = "cancel" /\ rsock' = sock
    /\ UNCHANGED <<txnv, sockv, rx, nsv, addv, results, pending, workv, rtxn,
                   hist>>

qmi_handle_release ==
    /\ rel = "no" /\ \A v \in Svc : adder[v] \in {"no", "done"}
    /\ IF sock = 0
       THEN rel' = "oops" /\ raced' = TRUE /\ UNCHANGED <<rsock, user_data>>
       ELSE /\ rel' = "cancel" /\ rsock' = sock
            /\ user_data' = user_data \ {sock}
            /\ raced' = raced
    /\ UNCHANGED <<txnv, sock, socks, live, err, bound, rx, nsv, addv, results,
                   pending, workv, rtxn, failed, stolen>>

\* cancel_work_sync, then every known server is gone.
CancelWork ==
    /\ rel = "cancel" /\ work = "idle"
    /\ pending' = FALSE
    /\ results' = [v \in Lookup |-> 0]
    /\ rel' = "close"
    /\ UNCHANGED <<txnv, sockv, rx, nsv, addv, workv, rsock, rtxn, hist>>

\* The socket read at the start is released.
CloseSock ==
    /\ rel = "close"
    /\ live' = live \ {rsock} /\ err' = err \ {rsock}
    /\ rx' = [rx EXCEPT ![rsock] = <<>>]
    /\ sock' = 0
    /\ rel' = "destroy"
    /\ UNCHANGED <<txnv, socks, user_data, bound, nsv, addv, results,
                   pending, workv, rsock, rtxn, hist>>

\* destroy_workqueue drains the queue.
DestroyWorkqueue ==
    /\ rel = "destroy" /\ work = "idle" /\ ~pending
    /\ rel' = "walk"
    /\ UNCHANGED <<txnv, sockv, rx, nsv, addv, results, pending, workv, rsock,
                   rtxn, hist>>

\* Under txn_lock: every transaction is taken out of the idr and its result
\* set, then completed.
Marked(t, n) ==
    [c \in Client |-> IF t[c].n = n THEN [t[c] EXCEPT !.result = NetReset]
                                    ELSE t[c]]

Held == {i \in Id : txns[i] # None}

RemoveTxn ==
    /\ rel \in {"walk", "remove"} /\ Held # {}
    /\ rtxn' = txns[Least(Held)]
    /\ idr_remove(Least(Held))
    /\ txn' = Marked(txn, txns[Least(Held)])
    /\ rel' = "complete"
    /\ UNCHANGED <<cursor, serial, pc, asked, sockv, rx, nsv, addv, results,
                   pending, workv, rsock, hist>>

\* Mutant: nobody is woken.
ForgetComplete ==
    /\ rel = "complete"
    /\ rtxn' = 0 /\ rel' = "remove"
    /\ UNCHANGED <<txnv, sockv, rx, nsv, addv, results, pending, workv, rsock,
                   hist>>

CompleteTxn ==
    /\ rel = "complete"
    /\ txn' = [c \in Client |-> IF txn[c].n = rtxn
                                THEN [txn[c] EXCEPT !.done = TRUE]
                                ELSE txn[c]]
    /\ rtxn' = 0 /\ rel' = "remove"
    /\ UNCHANGED <<txns, cursor, serial, pc, asked, sockv, rx, nsv, addv,
                   results, pending, workv, rsock, hist>>

EndRelease ==
    /\ rel \in {"walk", "remove"} /\ Held = {}
    /\ rel' = "done"
    /\ listed' = {}
    /\ UNCHANGED <<txnv, sockv, rx, nsv, adder, results, pending, workv,
                   rsock, rtxn, hist>>

(***************************************************************************)
(* The specification.                                                      *)
(***************************************************************************)
Init ==
    /\ txns = [i \in Id |-> None] /\ cursor = 0 /\ serial = 0
    /\ pc = [c \in Client |-> "idle"] /\ txn = [c \in Client |-> NoTxn]
    /\ asked = {}
    /\ sock = 1 /\ socks = 1 /\ live = {1} /\ user_data = {1}
    /\ err = {} /\ bound = {} /\ rx = [s \in Sock |-> <<>>]
    /\ budget \in Budgets /\ resets = 0 /\ flaps = 0
    /\ reg = {} /\ up \in SUBSET (Lookup \cap budget.added)
    /\ listed = {} /\ adder = [v \in Svc |-> "no"]
    /\ results = [v \in Lookup |-> 0]
    /\ work = "idle" /\ pending = FALSE /\ new = 0 /\ todo = {} /\ msg = None
    /\ rel = "no" /\ rsock = 0 /\ rtxn = 0
    /\ raced = FALSE /\ failed = FALSE /\ stolen = FALSE

ClientStep(c) ==
    \/ qmi_send_message(c) \/ qmi_txn_cancel(c)
    \/ Woken(c) \/ LookAtResult(c) \/ EndWait(c)

WorkStep ==
    \/ WorkStart \/ Recv \/ qmi_handle_message \/ qmi_recv_ctrl_pkt
    \/ SockCreate \/ SockCreateFails \/ ReleaseOld \/ FlushResults
    \/ Install \/ StartWalk \/ (\E v \in Svc : RegisterAgain(v)) \/ EndWalk

ReleaseStep ==
    \/ CancelWork \/ CloseSock \/ DestroyWorkqueue
    \/ RemoveTxn \/ CompleteTxn \/ EndRelease

Next ==
    \/ \E c \in Client : qmi_txn_init(c) \/ ClientStep(c) \/ Timeout(c)
    \/ \E q \in asked : Answer(q)
    \/ \E v \in Svc : AddToList(v) \/ SendRegistration(v)
    \/ NameServerStarts
    \/ \E v \in Lookup : ServerFlaps(v)
    \/ WorkStep
    \/ qmi_handle_release \/ ReleaseStep

Spec == Init /\ [][Next]_vars

\* Runnable threads, the worker and a release that has begun are scheduled;
\* nothing obliges a peer to answer or a timeout to fire.
FairSpec ==
    /\ Spec
    /\ \A c \in Client : WF_vars(ClientStep(c))
    /\ \A v \in Svc : WF_vars(SendRegistration(v))
    /\ WF_vars(WorkStep) /\ WF_vars(ReleaseStep)

(***************************************************************************)
(* Properties.                                                             *)
(***************************************************************************)
\* Every variable has its type; an id is never beyond the id space.
TypeOK ==
    /\ txns \in [Id -> 1 .. serial \cup {None}]
    /\ cursor \in 0 .. NIds /\ serial \in 0 .. budget.txns
    /\ pc \in [Client -> {"idle", "send", "wait", "cancel", "woken", "remove"}]
    /\ \A c \in Client : /\ txn[c].id \in Id /\ txn[c].n \in 0 .. serial
                         /\ txn[c].result \in NetReset .. serial
    /\ sock \in 0 .. socks /\ socks \in Sock
    /\ live \subseteq 1 .. socks /\ user_data \subseteq 1 .. socks
    /\ err \subseteq live \cap bound /\ bound \subseteq 1 .. socks
    /\ results \in [Lookup -> Nat] /\ listed \subseteq Svc

\* The handle never holds a transaction whose thread has left the call, so
\* an answer is never written to a dead stack: qmi_txn_wait and
\* qmi_txn_cancel leave only after the id is removed, and the shortcut of
\* qmi_txn_wait on -ENETRESET is taken only when the release removed it.
NoDanglingTxn ==
    \A i \in Id : txns[i] # None =>
        \E c \in Client : pc[c] # "idle" /\ txn[c].n = txns[i]

\* The state is well typed, and an answer completes the transaction it belongs
\* to.  An answer that comes after its transaction timed out can only be taken
\* for that of another one when the ids have gone round: qmi_handle_message
\* looks at the id alone, so this rests on the cyclic allocation of
\* qmi_txn_init.
AnswerIsOwn ==
    TypeOK /\ \A c \in Client : txn[c].result > 0 =>
        \/ txn[c].result = txn[c].n
        \/ txn[c].n - txn[c].result > NIds - Cardinality(Client)

\* The worker never goes to sleep on unread messages or an unhandled
\* ENETRESET, also when they arrive while it replaces the socket, on either
\* socket.  Only a reset that found no socket leaves the old queue unread.
NoLostWakeup ==
    (work = "idle" /\ ~pending /\ rel = "no" /\ ~failed) =>
        sock # 0 /\ rx[sock] = <<>> /\ sock \notin err

\* When everything is quiet, the handle's lookups and services are known to
\* the name server under the socket in use, and the list of servers found
\* is what the name server has; also when qmi_add_lookup runs into a reset
\* and finds no socket.  Only a send that took the ENETRESET of the socket
\* before the worker saw it leaves them unknown.
RegistrationsCurrent ==
    (/\ work = "idle" /\ ~pending /\ rel = "no" /\ ~failed /\ ~stolen
     /\ \A v \in Svc : adder[v] \in {"no", "done"}) =>
        /\ \A v \in listed : <<v, sock>> \in reg
        /\ \A v \in listed \cap Lookup : (results[v] > 0) = (v \in up)

\* After qmi_handle_release no socket refers to the handle, no work is
\* queued and every waiting thread has been woken, unless the socket was
\* replaced while it ran.
ReleaseStopsHandling ==
    (rel = "done" /\ ~raced) =>
        /\ live = {} /\ user_data = {} /\ ~pending /\ work = "idle"
        /\ \A c \in Client : pc[c] = "wait" => txn[c].done

\* "This closes the underlying socket and stops any handling of QMI
\* messages" (qmi_interface.c:678): after qmi_handle_release no open socket
\* has the handle as its sk_user_data.
ReleasedIsSilent == rel = "done" => live \cap user_data = {}

\* qmi_handle_release returns, and every thread that waits for an answer
\* returns from its call too, without waiting for its timeout.
ReleaseReturns ==
    rel = "cancel" ~> (rel = "done" /\ \A c \in Client : pc[c] = "idle")

=============================================================================
