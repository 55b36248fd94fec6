--------------------------- MODULE GlinkIntentInv ---------------------------
(***************************************************************************)
(* The inductive invariant of GlinkIntent.                                 *)
(***************************************************************************)
EXTENDS GlinkIntentState

(***************************************************************************)
(* Types.                                                                  *)
(***************************************************************************)
ThreadPc == {"idle", "scan", "lock", "wait", "send"}

RxPc     == {"idle", "advertise", "ack", "cb", "done"}

Codes    == {"0", "EBUSY", "EIO", "EAGAIN", "ECANCELED", "ETIMEDOUT"}

CallRec  == [len : Nat, wait : BOOLEAN, offset : Nat, iid : Nat, n : Nat]

Riid     == [size : Nat, in_use : BOOLEAN]

Liid     == [size : Nat, reuse : BOOLEAN, offset : Nat, ns : SUBSET Nat]

DataMsg  == [type : {"data"}, iid : Nat, n : Nat, chunk : Nat, left : Nat]

AbMsg    == DataMsg \cup [type : {"req"}, size : Nat]

BaMsg    == [type : {"intent"}, iid : Nat, size : Nat]
              \cup [type : {"done"}, iid : Nat, reuse : BOOLEAN]
              \cup [type : {"ack"}, granted : BOOLEAN]

DataJob  == [kind : {"data"}, iid : Nat, reuse : BOOLEAN, cb_irq_done : BOOLEAN]

AllocJob == [kind : {"alloc"}, size : Nat, reuse : BOOLEAN,
             ack_pending : BOOLEAN, iid : Nat]

SendTypes ==
    /\ pc \in [Threads -> ThreadPc] /\ call \in [Threads -> CallRec]
    /\ ret \in [Threads -> Codes]
    /\ req_lock \in Threads \cup {None} /\ req_result \in -1 .. 1
    /\ intent_received \in BOOLEAN /\ abort_tx \in BOOLEAN
    /\ intent_timeout_count \in Nat /\ nsends \in Nat
    /\ \A t \in Threads :
          /\ call[t].n <= nsends /\ (pc[t] # "idle" => call[t].n > 0)
          /\ pc[t] \in {"scan", "lock", "wait"} =>
                call[t].offset = 0 /\ call[t].len > 0
          /\ pc[t] = "send" => call[t].offset < call[t].len

WireTypes ==
    /\ ab \in Seq(AbMsg) /\ ba \in Seq(BaMsg) /\ work \in Seq(Nat)
    /\ \A k \in DOMAIN ab : ab[k].type = "data" => ab[k].n \in 1 .. nsends

RxTypes ==
    /\ rx_queue \in Seq(DataJob \cup AllocJob)
    /\ rx_pc \in RxPc /\ owed \subseteq Nat
    /\ rx_pc \in {"advertise", "ack"} => rx_cur \in AllocJob
    /\ rx_pc \in {"cb", "done"} => rx_cur \in DataJob

IdrTypes ==
    /\ next_id \in Nat \ {0}
    /\ riids \in [DOMAIN riids -> Riid] /\ liids \in [DOMAIN liids -> Liid]
    /\ DOMAIN riids \subseteq 1 .. next_id - 1
    /\ DOMAIN liids \subseteq 1 .. next_id - 1
    /\ \A i \in DOMAIN liids : liids[i].ns \subseteq 1 .. nsends

Types == SendTypes /\ WireTypes /\ RxTypes /\ IdrTypes

(***************************************************************************)
(* Where an intent is.  A buffer is allocated (Fresh) and offered to the   *)
(* sending end; there it is free, or a thread sends into it (Sending) and  *)
(* its chunks fly until the message is complete.  Then it is with the      *)
(* receiving end: queued, worked on by the thread or owed by the client,   *)
(* until RX_DONE returns it.                                               *)
(***************************************************************************)
IsData(k)   == ab[k].type = "data"

IsLast(k)   == IsData(k) /\ ab[k].left = 0

IsIntent(k) == ba[k].type = "intent"

IsDone(k)   == ba[k].type = "done"

IsJob(k)    == rx_queue[k].kind = "data"

Fresh    == IF rx_pc = "advertise" THEN {rx_cur.iid} ELSE {}

Offered  == {ba[k].iid : k \in {j \in DOMAIN ba : IsIntent(j)}}

Sending  == {call[t].iid : t \in {u \in Threads : pc[u] = "send"}}

Flying   == {ab[k].iid : k \in {j \in DOMAIN ab : IsData(j)}}

Complete == {ab[k].iid : k \in {j \in DOMAIN ab : IsLast(j)}}

Queued   == {rx_queue[k].iid : k \in {j \in DOMAIN rx_queue : IsJob(j)}}

Working  == IF rx_pc \in {"cb", "done"} THEN {rx_cur.iid} ELSE {}

Returned == {ba[k].iid : k \in {j \in DOMAIN ba : IsDone(j)}}

Away     == Queued \cup Working \cup owed \cup Returned

(***************************************************************************)
(* It is in one place at a time (Apart), once (Single), and what is being  *)
(* sent or is away is in use at the sending end (Known).                   *)
(***************************************************************************)
SingleBa ==
    \A j, k \in DOMAIN ba :
        /\ IsIntent(j) /\ IsIntent(k) /\ ba[j].iid = ba[k].iid => j = k
        /\ IsDone(j) /\ IsDone(k) /\ ba[j].iid = ba[k].iid => j = k

SingleQueue ==
    \A j, k \in DOMAIN rx_queue :
        IsJob(j) /\ IsJob(k) /\ rx_queue[j].iid = rx_queue[k].iid => j = k

SingleAb ==
    \A j, k \in DOMAIN ab :
        IsLast(j) /\ IsData(k) /\ ab[j].iid = ab[k].iid => k <= j

SingleThread ==
    \A t, u \in Threads :
        pc[t] = "send" /\ pc[u] = "send" /\ call[t].iid = call[u].iid => t = u

Single == SingleBa /\ SingleQueue /\ SingleAb /\ SingleThread

Apart ==
    /\ Queued \cap Working = {} /\ Queued \cap owed = {}
    /\ Queued \cap Returned = {} /\ Working \cap owed = {}
    /\ Working \cap Returned = {} /\ owed \cap Returned = {}
    /\ Away \cap Flying = {} /\ Away \cap Sending = {}
    /\ Complete \cap Sending = {} /\ Fresh \cap Offered = {}

Known ==
    /\ \A i \in Away \cup Complete \cup Sending :
          i \in DOMAIN riids /\ riids[i].in_use
    /\ Flying \subseteq DOMAIN riids
    /\ (Fresh \cup Offered) \cap DOMAIN riids = {}
    /\ defer_intents = Working \cup owed

IdInv == Single /\ Apart /\ Known

(***************************************************************************)
(* The buffer of an intent exists until the client has had its contents    *)
(* (Exists), the ends agree on its size (Sizes), a reusable one comes back *)
(* empty (Reused), and the chunks under way fit behind what it holds       *)
(* (Room).  After abort_tx a message may stay incomplete.                  *)
(***************************************************************************)
Exists ==
    /\ \A i \in DOMAIN riids :
          i \in DOMAIN liids \cup Queued \cup Working \cup Returned
    /\ \A i \in Fresh \cup Offered : i \in DOMAIN liids /\ liids[i].offset = 0
    /\ \A k \in DOMAIN rx_queue : IsJob(k) =>
          rx_queue[k].cb_irq_done \/ rx_queue[k].iid \in DOMAIN liids
    /\ rx_pc = "cb" => rx_cur.iid \in DOMAIN liids

Sizes ==
    /\ \A i \in DOMAIN liids :
          i \in DOMAIN riids => riids[i].size = liids[i].size
    /\ \A k \in DOMAIN ba : IsIntent(k) => ba[k].size = liids[ba[k].iid].size
    /\ rx_pc = "advertise" => rx_cur.size = liids[rx_cur.iid].size

Reused ==
    /\ \A k \in DOMAIN rx_queue : IsJob(k) /\ rx_queue[k].reuse =>
          rx_queue[k].iid \in DOMAIN liids /\ liids[rx_queue[k].iid].reuse
    /\ Working # {} /\ rx_cur.reuse =>
          rx_cur.iid \in DOMAIN liids /\ liids[rx_cur.iid].reuse
    /\ \A k \in DOMAIN ba : IsDone(k) /\ ba[k].reuse =>
          ba[k].iid \in DOMAIN liids /\ liids[ba[k].iid].offset = 0

Chunks ==
    /\ \A i \in DOMAIN liids : liids[i].offset <= liids[i].size
    /\ \A k \in DOMAIN ab : IsData(k) =>
          liids[ab[k].iid].offset + ab[k].chunk + ab[k].left
              <= liids[ab[k].iid].size
    /\ \A j, k \in DOMAIN ab :
          IsData(j) /\ IsData(k) /\ ab[j].iid = ab[k].iid /\ j < k =>
              ab[k].chunk + ab[k].left <= ab[j].left

Room ==
    ~abort_tx =>
      /\ \A t \in Threads : pc[t] = "send" =>
            /\ liids[call[t].iid].offset + (call[t].len - call[t].offset)
                  <= liids[call[t].iid].size
            /\ \A k \in DOMAIN ab : IsData(k) /\ ab[k].iid = call[t].iid =>
                  call[t].len - call[t].offset <= ab[k].left
            /\ ~call[t].wait => /\ call[t].offset = 0
                                /\ liids[call[t].iid].offset = 0
                                /\ call[t].iid \notin Flying
      /\ \A i \in DOMAIN riids : ~riids[i].in_use =>
            liids[i].offset = 0 /\ i \notin Flying

BufInv == Exists /\ Sizes /\ Reused /\ Chunks /\ Room

Inv == Types /\ IdInv /\ BufInv
=============================================================================
