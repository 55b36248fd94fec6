------------------------------- MODULE QmiInv -------------------------------
(***************************************************************************)
(* The inductive invariant of Qmi.                                         *)
(***************************************************************************)
EXTENDS Qmi

(***************************************************************************)
(* Types.                                                                  *)
(***************************************************************************)
ClientPc == {"idle", "send", "wait", "cancel", "woken", "remove"}
RelPc    == {"no", "oops", "cancel", "close", "destroy", "walk", "remove",
             "complete", "done"}
WorkPc   == {"idle", "recv", "message", "create", "release", "flush",
             "install", "lookups", "register lookups", "services",
             "register services"}
TxnRec   == [n : Nat, id : Nat, result : Int, done : BOOLEAN]
Message  == [type : {"resp"}, id : Nat, n : Nat]
                \cup [type : {"new_server", "del_server"}, svc : Svc]

TxnTypes ==
    /\ txns \in [Id -> Nat \cup {None}] /\ serial \in Nat
    /\ pc \in [Client -> ClientPc] /\ txn \in [Client -> TxnRec]
    /\ asked \in SUBSET [id : Nat, n : Nat, from : Nat]
    /\ rel \in RelPc

SockTypes ==
    /\ socks \in Sock /\ sock \in 0 .. socks /\ new \in 0 .. socks
    /\ rsock \in 0 .. socks
    /\ live \in SUBSET (1 .. socks) /\ user_data \in SUBSET (1 .. socks)
    /\ err \in SUBSET live
    /\ rx \in [Sock -> Seq(Message)] /\ msg \in Message \cup {None}
    /\ work \in WorkPc /\ (work = "message" => msg \in Message)

Types == TxnTypes /\ SockTypes

(***************************************************************************)
(* Transactions.  Serial numbers tell them apart (Numbered, Apart).  What  *)
(* the idr holds belongs to a thread that is in a call (Owner), and until  *)
(* the release walks the idr every thread in a call has its transaction    *)
(* there (Mine), so that no thread removes the id of another.  Afterwards  *)
(* a transaction that is not there is, or is about to be, completed        *)
(* (Waiting).                                                              *)
(***************************************************************************)
Active(c) == pc[c] # "idle"
Entered(c) == txn[c].id \in Id /\ txns[txn[c].id] = txn[c].n

Numbered == \A c \in Client : /\ txn[c].n <= serial
                              /\ Active(c) => txn[c].n > 0
Apart == \A c, d \in Client : txn[c].n = txn[d].n /\ txn[c].n > 0 => c = d
Owner == \A i \in Id : txns[i] # None =>
            \E c \in Client : Active(c) /\ txn[c].n = txns[i] /\ txn[c].id = i
Mine == rel \notin {"remove", "complete", "done"} =>
            \A c \in Client : Active(c) => Entered(c)
Reset == \A c \in Client : Active(c) /\ txn[c].result = NetReset =>
            \A i \in Id : txns[i] # txn[c].n
Waiting == \A c \in Client : pc[c] \in {"send", "wait"} /\ ~txn[c].done =>
            Entered(c) \/ (rel = "complete" /\ rtxn = txn[c].n)
Emptied == rel = "done" => \A i \in Id : txns[i] = None

TxnInv == Numbered /\ Apart /\ Owner /\ Mine /\ Reset /\ Waiting /\ Emptied

(***************************************************************************)
(* Sockets.  Opened says which sockets exist while the worker is where it  *)
(* is; Closing follows the release as long as no reset gets in its way;    *)
(* Told is the wake-up: the socket that the worker will read next has      *)
(* nothing for it unless the work is queued or is about to look.           *)
(***************************************************************************)
Replacing == {"flush", "install"}
Coming == IF work \in Replacing \cup {"release"} THEN new ELSE sock

Opened ==
    /\ work = "release" => sock # new /\ live = {sock, new}
    /\ work \in Replacing => sock = 0 /\ live = {new}
    /\ work \notin Replacing \cup {"release"} => live = {sock}

Clean == \A s \in Sock : s \notin live => rx[s] = <<>>

Closing ==
    /\ rel = "no" => Opened /\ user_data = live
    /\ rel \in {"cancel", "close"} /\ ~raced =>
          /\ Opened /\ work \notin Replacing
          /\ rsock = sock /\ user_data = live \ {sock}
    /\ rel = "close" /\ ~raced => work = "idle" /\ ~pending
    /\ rel \in {"destroy", "walk", "remove", "complete", "done"} /\ ~raced =>
          live = {} /\ user_data = {} /\ work = "idle" /\ ~pending
    /\ rel = "oops" => raced

Told ==
    rel = "no" /\ ~failed /\ work \notin {"recv", "message", "create"} =>
        (rx[Coming] # <<>> \/ Coming \in err => pending)

SockInv == Clean /\ Closing /\ Told

(***************************************************************************)
(* Registrations.  The name server knows only sockets with a port (Bind).  *)
(* The socket in use has a registration of each service of the lists, or   *)
(* the worker or the caller that added the service is yet to send it       *)
(* (Enrolled); a socket to come is unknown so far and has been sent        *)
(* nothing but answers (Fresh).  On every service looked up through the    *)
(* socket in use the name server then has the last word (Known): it is     *)
(* what the queue ends with, or the message being handled, or what the     *)
(* list of servers found says.                                             *)
(***************************************************************************)
\* A message is on its way: it waits at a socket, or the worker has it.
OnItsWay(m) ==
    \/ \E s \in Sock : \E k \in DOMAIN rx[s] : rx[s][k] = m
    \/ work = "message" /\ msg = m

Ranges ==
    /\ up \in SUBSET Lookup /\ listed \in SUBSET Svc
    /\ adder \in [Svc -> {"no", "listed", "done"}]
    /\ results \in [Lookup -> Nat]
    /\ bound \in SUBSET (1 .. socks) /\ err \subseteq bound
Bind == \A v, s : <<v, s>> \in reg => s \in bound
Flushed == work = "install" => \A v \in Lookup : results[v] = 0

Sound == rel = "no" /\ ~failed /\ ~stolen

Expected(v) ==
    \/ adder[v] = "listed" \/ sock \in err
    \/ work \in Replacing \cup {"create", "release", "lookups"}
    \/ v \in Lookup /\ work = "register lookups" /\ v \in todo
    \/ v \in Service /\ work \in {"register lookups", "services"}
    \/ v \in Service /\ work = "register services" /\ v \in todo

Enrolled == Sound => \A v \in listed : <<v, sock>> \in reg \/ Expected(v)

Fresh ==
    rel = "no" /\ work \in Replacing \cup {"release"} =>
        new \notin bound /\ \A k \in DOMAIN rx[new] : rx[new][k].type = "resp"

About(m, v) == m.type \in {"new_server", "del_server"} /\ m.svc = v
Silent(q, v) == \A k \in DOMAIN q : ~About(q[k], v)
LastSays(q, v, u) ==
    \A k \in DOMAIN q :
        About(q[k], v) /\ (\A j \in DOMAIN q : j > k => ~About(q[j], v)) =>
            (q[k].type = "new_server" <=> u)

Handled(v) == work = "message" /\ About(msg, v)
Heard(v) ==
    IF Handled(v) THEN msg.type = "new_server" <=> v \in up
                  ELSE results[v] > 0 <=> v \in up
KnownOf(v) ==
    IF <<v, sock>> \in reg
    THEN LastSays(rx[sock], v, v \in up) /\ (Silent(rx[sock], v) => Heard(v))
    ELSE Silent(rx[sock], v) /\ ~Handled(v) /\ results[v] = 0
Known ==
    Sound /\ work \notin Replacing \cup {"create", "release"} /\ sock \notin err
        => \A v \in Lookup : KnownOf(v)

Notices ==
    \A m : OnItsWay(m) => m.type = "resp" \/ m.svc \in Lookup

RegInv ==
    /\ Ranges /\ Bind /\ Flushed /\ Notices
    /\ Enrolled /\ Fresh /\ Known

(***************************************************************************)
(* Answers.  An answer (i, m) may come when i is the id of a transaction   *)
(* later than m.  Since m was given i, the cursor of the idr has passed    *)
(* the ids in Passed(i), one for each later transaction but for those that *)
(* older transactions held, at most one of each thread and none of the     *)
(* thread of m.  Older(i, m) are the threads it may still have to skip.    *)
(* Once it is past i again (Far), enough transactions have been started.   *)
(***************************************************************************)
Passed(i) == {j \in Id : IF i < cursor THEN i < j /\ j < cursor
                                       ELSE i < j \/ j < cursor}
Older(i, m) == {c \in Client : txn[c].n < m /\ txn[c].id \notin Passed(i)}
Far(m) == serial - m > NIds - Cardinality(Client)
Turn(i, m) ==
    /\ Cardinality(Passed(i)) + Cardinality(Older(i, m))
          < serial - m + Cardinality(Client)
    /\ \A c \in Client : Active(c) /\ txn[c].n > m => txn[c].id \in Passed(i)
Used(i, m) ==
    /\ i \in Id /\ m \in 1 .. serial
    /\ \A c \in Client : txn[c].n = m => txn[c].id = i
    /\ \A c \in Client : Active(c) /\ txn[c].id = i /\ txn[c].n # m =>
          txn[c].n - m > NIds - Cardinality(Client)
    /\ Far(m) \/ Turn(i, m)

Result(c) ==
    /\ txn[c].id \in Id /\ txn[c].result \in NetReset .. serial
    /\ txn[c].result > 0 =>
          \/ txn[c].result = txn[c].n
          \/ txn[c].n - txn[c].result > NIds - Cardinality(Client)

Begun(i, m) == \E c \in Client : Active(c) /\ txn[c].id = i /\ txn[c].n = m

Counters == cursor \in 0 .. NIds /\ budget \in Budgets /\ serial <= budget.txns

AnswerInv ==
    /\ Counters
    /\ \A i, m : Begun(i, m) => Used(i, m)
    /\ \A q \in asked : Used(q.id, q.n)
    /\ \A m : OnItsWay(m) /\ m.type = "resp" => Used(m.id, m.n)
    /\ \A c \in Client : Result(c)

Inv == Types /\ TxnInv /\ SockInv /\ RegInv /\ AnswerInv
=============================================================================
