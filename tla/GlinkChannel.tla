---------------------------- MODULE GlinkChannel ----------------------------
(***************************************************************************)
(* Opening, closing and releasing the channels of one name                 *)
(* (qcom_glink_native.c): the two tables of channel ids, the reference     *)
(* counts, the three completions, and the contexts that share them.        *)
(*                                                                         *)
(* The interrupt handler completes OPEN_ACK at once and defers the other   *)
(* messages to the worker.  The worker, or a thread that loads the driver, *)
(* runs the driver's probe, which opens this end (create_remote); a user   *)
(* of the rpmsg character device may open a channel of its own             *)
(* (create_local).  The remote end and the rpmsg core are external: the    *)
(* remote end opens and closes its side at will and acknowledges ours, the *)
(* core runs probe and remove of a device under the device's lock.         *)
(***************************************************************************)
EXTENDS Integers, Sequences, FiniteSets

CONSTANTS
    Faults,     \* what may go wrong: a subset of FaultKinds
    MaxOpens,   \* bound: how often the remote end opens the channel
    MaxBinds,   \* bound: how often a driver is loaded for its device
    MaxLocals   \* bound: how often a user opens it from this end

\* "nodev": the rpmsg device cannot be registered; "abort": the subsystem
\* restarts, transmission fails from then on; "remove": the edge is taken
\* down; "slow": a completion times out while its message is under way.
FaultKinds == {"nodev", "abort", "remove", "slow"}

ASSUME ChannelAssumption ==
    /\ Faults \subseteq FaultKinds
    /\ MaxOpens \in Nat /\ MaxBinds \in Nat /\ MaxLocals \in Nat

VARIABLES
    chan,       \* every channel ever allocated; refs = 0: it has been freed
    lcids,      \* glink->lcids: local id -> channel
    rcids,      \* glink->rcids: remote id -> channel
    next_lcid,  \* cursor of idr_alloc_cyclic
    work,       \* glink->rx_queue: deferred messages
    worker,     \* "idle", or "probe" while it runs the driver's probe
    drv,        \* the driver: [pc, c], pc: none, close_wait, ack_wait, bound
    usr,        \* a thread in create_local: [pc, c], pc: none, ack_wait, req_wait
    abort_tx,   \* glink->abort_tx
    removed,    \* qcom_glink_native_remove is over
    ab, ba,     \* messages to and from the remote end
    rstate,     \* remote end: closed, opening, open, closing
    ropen,      \* local ids the remote end holds open
    opens, binds, locals, \* how often so far; opens is the remote end's id
    unsent      \* history: channels whose OPEN could not be sent

remote == <<rstate, ropen, opens>>
vars == <<chan, lcids, rcids, next_lcid, work, worker, drv, usr, abort_tx,
          removed, ab, ba, remote, binds, locals, unsent>>

NoCh == [pc |-> "none", c |-> 0]

Msg(type, cid) == [type |-> type, cid |-> cid]

Without(idr, id) == [i \in DOMAIN idr \ {id} |-> idr[i]]
With(idr, id, c) == [i \in DOMAIN idr \cup {id} |-> IF i = id THEN c ELSE idr[i]]
Held(idr) == {idr[i] : i \in DOMAIN idr}

\* qcom_glink_tx as seen from here: nothing is sent once abort_tx is set.
Tx(msgs) == ab' = IF abort_tx THEN ab ELSE ab \o msgs

\* qcom_glink_alloc_channel
NewChannel == [refs |-> 1, lcid |-> 0, rcid |-> 0, open_ack |-> FALSE,
               open_req |-> FALSE, close_ack |-> TRUE, rpdev |-> FALSE,
               cb |-> FALSE]

\* Nothing is under way that would let a waiting thread go on: the pipes are
\* empty, and the worker has nothing to do or waits itself, for the probe it
\* runs or for the lock of a device that is being probed.
Idle ==
    /\ ab = <<>> /\ ba = <<>>
    /\ \/ work = <<>> \/ worker = "probe"
       \/ /\ work # <<>> /\ Head(work).type = "close"
          /\ drv.pc \in {"close_wait", "ack_wait"}

Expired == Idle \/ abort_tx \/ "slow" \in Faults

-----------------------------------------------------------------------------
(* The interrupt handler *)

\* Mutant: OPEN_ACK is deferred like the other messages.
RxOpenAckDeferred ==
    /\ ~removed /\ ba # <<>> /\ Head(ba).type = "open_ack"
    /\ ba' = Tail(ba)
    /\ work' = Append(work, Head(ba))
    /\ UNCHANGED <<chan, lcids, rcids, next_lcid, worker, drv, usr, abort_tx,
                   removed, ab, remote, binds, locals, unsent>>

\* Mutant: close_ack stays complete when the channel is open.
RxOpenAckKeeping ==
    LET l == Head(ba).cid
    IN  /\ ~removed /\ ba # <<>> /\ Head(ba).type = "open_ack"
        /\ ba' = Tail(ba)
        /\ chan' = IF l \in DOMAIN lcids
                     THEN [chan EXCEPT ![lcids[l]].open_ack = TRUE]
                     ELSE chan
        /\ UNCHANGED <<lcids, rcids, next_lcid, work, worker, drv, usr,
                       abort_tx, removed, ab, remote, binds, locals, unsent>>

\* qcom_glink_rx_open_ack
RxOpenAck ==
    LET l == Head(ba).cid
    IN  /\ ~removed /\ ba # <<>> /\ Head(ba).type = "open_ack"
        /\ ba' = Tail(ba)
        /\ chan' = IF l \in DOMAIN lcids
                     THEN [chan EXCEPT ![lcids[l]].open_ack = TRUE,
                                       ![lcids[l]].close_ack = FALSE]
                     ELSE chan
        /\ UNCHANGED <<lcids, rcids, next_lcid, work, worker, drv, usr,
                       abort_tx, removed, ab, remote, binds, locals, unsent>>

\* qcom_glink_rx_defer
RxDefer ==
    /\ ~removed /\ ba # <<>> /\ Head(ba).type # "open_ack"
    /\ ba' = Tail(ba)
    /\ work' = Append(work, Head(ba))
    /\ UNCHANGED <<chan, lcids, rcids, next_lcid, worker, drv, usr, abort_tx,
                   removed, ab, remote, binds, locals, unsent>>

-----------------------------------------------------------------------------
(* The worker *)

\* qcom_glink_rx_open.  If a driver is there it is probed before
\* rpmsg_register_device returns.
RxOpen ==
    LET r == Head(work).cid
        create_device == rcids = <<>>
        c == IF create_device THEN Len(chan) + 1 ELSE CHOOSE x \in Held(rcids) : TRUE
        old == IF create_device THEN NewChannel ELSE chan[c]
        new == [old EXCEPT !.open_req = TRUE, !.rcid = r]
        Channel(x) == IF create_device THEN Append(chan, x)
                                       ELSE [chan EXCEPT ![c] = x]
    IN  /\ worker = "idle" /\ work # <<>> /\ Head(work).type = "open"
        /\ work' = Tail(work)
        /\ Tx(<<Msg("open_ack", r)>>)
        /\ \/ /\ chan' = Channel([new EXCEPT !.rpdev = TRUE])
              /\ rcids' = With(rcids, r, c)
              /\ UNCHANGED <<worker, drv, binds>>
           \/ /\ create_device /\ binds < MaxBinds /\ drv.pc = "none"
              /\ chan' = Channel([new EXCEPT !.rpdev = TRUE])
              /\ rcids' = With(rcids, r, c)
              /\ worker' = "probe"
              /\ drv' = [pc |-> "close_wait", c |-> c]
              /\ binds' = binds + 1
           \/ /\ create_device /\ "nodev" \in Faults
              /\ chan' = Channel([new EXCEPT !.refs = 0, !.rcid = 0])
              /\ UNCHANGED <<rcids, worker, drv, binds>>
        /\ UNCHANGED <<lcids, next_lcid, usr, abort_tx, removed, ba, remote,
                       locals, unsent>>

\* Mutant: CLOSE_ACK is sent only when a driver was bound.
RxCloseSilent ==
    LET r == Head(work).cid
        c == rcids[r]
    IN  /\ worker = "idle" /\ work # <<>> /\ Head(work).type = "close"
        /\ r \in DOMAIN rcids /\ drv.pc \in {"none", "bound"}
        /\ work' = Tail(work)
        /\ Tx(IF chan[c].cb THEN <<Msg("close", chan[c].lcid),
                                   Msg("close_ack", chan[c].rcid)>> ELSE <<>>)
        /\ chan' = [chan EXCEPT ![c].cb = FALSE, ![c].rpdev = FALSE,
                                ![c].close_ack = TRUE, ![c].rcid = 0,
                                ![c].refs = @ - 1]
        /\ rcids' = Without(rcids, chan[c].rcid)
        /\ drv' = NoCh
        /\ UNCHANGED <<lcids, next_lcid, worker, usr, abort_tx, removed, ba,
                       remote, binds, locals, unsent>>

\* qcom_glink_rx_close.  rpmsg_unregister_device waits for the device's lock
\* and removes the driver, whose endpoint is destroyed.
RxClose ==
    LET r == Head(work).cid
        c == rcids[r]
    IN  /\ worker = "idle" /\ work # <<>> /\ Head(work).type = "close"
        /\ work' = Tail(work)
        /\ \/ /\ r \in DOMAIN rcids /\ drv.pc \in {"none", "bound"}
              /\ Tx((IF chan[c].cb THEN <<Msg("close", chan[c].lcid)>> ELSE <<>>)
                    \o <<Msg("close_ack", chan[c].rcid)>>)
              /\ chan' = [chan EXCEPT ![c].cb = FALSE, ![c].rpdev = FALSE,
                                      ![c].close_ack = TRUE, ![c].rcid = 0,
                                      ![c].refs = @ - 1]
              /\ rcids' = Without(rcids, chan[c].rcid)
              /\ drv' = NoCh
           \/ /\ r \notin DOMAIN rcids
              /\ UNCHANGED <<ab, chan, rcids, drv>>
        /\ UNCHANGED <<lcids, next_lcid, worker, usr, abort_tx, removed, ba,
                       remote, binds, locals, unsent>>

\* qcom_glink_rx_close_ack: what is taken out of lcids is the channel's
\* current id.
RxCloseAck ==
    LET l == Head(work).cid
        c == lcids[l]
    IN  /\ worker = "idle" /\ work # <<>> /\ Head(work).type = "close_ack"
        /\ work' = Tail(work)
        /\ \/ /\ l \in DOMAIN lcids
              /\ lcids' = Without(lcids, chan[c].lcid)
              /\ chan' = [chan EXCEPT ![c].lcid = 0, ![c].open_ack = FALSE,
                                      ![c].refs = @ - 1]
           \/ /\ l \notin DOMAIN lcids
              /\ UNCHANGED <<lcids, chan>>
        /\ UNCHANGED <<rcids, next_lcid, worker, drv, usr, abort_tx, removed,
                       ab, ba, remote, binds, locals, unsent>>
-----------------------------------------------------------------------------
(* The driver of the channel's device: qcom_glink_create_remote *)

\* What qcom_glink_send_open_req does to the channel when OPEN is sent ...
OpenReq(ch, c) == [ch EXCEPT ![c].lcid = next_lcid, ![c].refs = @ + 1]

\* Mutant: the error path puts a reference it has not taken.
OpenReqFailedPut(ch, c) == [ch EXCEPT ![c].lcid = 0, ![c].refs = @ - 1]

\* ... and when it is not: the reference stays.
OpenReqFailed(ch, c) == [ch EXCEPT ![c].lcid = 0, ![c].refs = @ + 1]

\* A driver is loaded while its device exists, and probed.
Bind ==
    /\ drv.pc = "none" /\ binds < MaxBinds
    /\ \E c \in Held(rcids) :
          chan[c].rpdev /\ drv' = [pc |-> "close_wait", c |-> c]
    /\ binds' = binds + 1
    /\ UNCHANGED <<chan, lcids, rcids, next_lcid, work, worker, usr, abort_tx,
                   removed, ab, ba, remote, locals, unsent>>

\* close_ack is complete: OPEN is sent, or fails and CLOSE with it.
BindOpen ==
    LET c == drv.c
    IN  /\ drv.pc = "close_wait" /\ chan[c].close_ack
        /\ \/ /\ ~abort_tx
              /\ chan' = OpenReq(chan, c)
              /\ lcids' = With(lcids, next_lcid, c)
              /\ Tx(<<Msg("open", next_lcid)>>)
              /\ drv' = [drv EXCEPT !.pc = "ack_wait"]
              /\ UNCHANGED <<worker, unsent>>
           \/ /\ abort_tx
              /\ chan' = OpenReqFailed(chan, c)
              /\ unsent' = unsent \cup {c}
              /\ drv' = NoCh /\ worker' = "idle"
              /\ UNCHANGED <<lcids, ab>>
        /\ next_lcid' = next_lcid + 1
        /\ UNCHANGED <<rcids, work, usr, abort_tx, removed, ba, remote, binds,
                       locals>>

\* open_ack is complete: create_ept sets the callback and probe succeeds.
BindDone ==
    /\ drv.pc = "ack_wait" /\ chan[drv.c].open_ack
    /\ chan' = [chan EXCEPT ![drv.c].cb = TRUE]
    /\ drv' = [drv EXCEPT !.pc = "bound"]
    /\ worker' = "idle"
    /\ UNCHANGED <<lcids, rcids, next_lcid, work, usr, abort_tx, removed, ab,
                   ba, remote, binds, locals, unsent>>

\* Mutant: wait_for_completion for close_ack, without a timeout.
BindTimeoutAckOnly ==
    /\ drv.pc = "ack_wait" /\ ~chan[drv.c].open_ack
    /\ Expired
    /\ Tx(<<Msg("close", chan[drv.c].lcid)>>)
    /\ drv' = NoCh /\ worker' = "idle"
    /\ UNCHANGED <<chan, lcids, rcids, next_lcid, work, usr, abort_tx,
                   removed, ba, remote, binds, locals, unsent>>

\* 5 s pass in one of the two waits: close_link.
BindTimeout ==
    /\ \/ drv.pc = "close_wait" /\ ~chan[drv.c].close_ack
       \/ drv.pc = "ack_wait" /\ ~chan[drv.c].open_ack
    /\ Expired
    /\ Tx(<<Msg("close", chan[drv.c].lcid)>>)
    /\ drv' = NoCh /\ worker' = "idle"
    /\ UNCHANGED <<chan, lcids, rcids, next_lcid, work, usr, abort_tx,
                   removed, ba, remote, binds, locals, unsent>>

\* The driver is unloaded: qcom_glink_destroy_ept.
Unbind ==
    /\ drv.pc = "bound"
    /\ chan' = [chan EXCEPT ![drv.c].cb = FALSE]
    /\ Tx(<<Msg("close", chan[drv.c].lcid)>>)
    /\ drv' = NoCh
    /\ UNCHANGED <<lcids, rcids, next_lcid, work, worker, usr, abort_tx,
                   removed, ba, remote, binds, locals, unsent>>

-----------------------------------------------------------------------------
(* A user's thread: qcom_glink_create_local *)

\* No channel of the name is in rcids: one is allocated and OPEN is sent.
LocalOpen ==
    LET c == Len(chan) + 1
    IN  /\ ~removed /\ usr.pc = "none" /\ locals < MaxLocals
        /\ rcids = <<>>
        /\ locals' = locals + 1
        /\ next_lcid' = next_lcid + 1
        /\ \/ /\ ~abort_tx
              /\ chan' = OpenReq(Append(chan, NewChannel), c)
              /\ lcids' = With(lcids, next_lcid, c)
              /\ Tx(<<Msg("open", next_lcid)>>)
              /\ usr' = [pc |-> "ack_wait", c |-> c]
           \/ /\ abort_tx
              /\ chan' = Append(chan, [NewChannel EXCEPT !.refs = 0])
              /\ UNCHANGED <<lcids, ab, usr>>
        /\ UNCHANGED <<rcids, work, worker, drv, abort_tx, removed, ba,
                       remote, binds, unsent>>

LocalAcked ==
    /\ usr.pc = "ack_wait" /\ chan[usr.c].open_ack
    /\ usr' = [usr EXCEPT !.pc = "req_wait"]
    /\ UNCHANGED <<chan, lcids, rcids, next_lcid, work, worker, drv, abort_tx,
                   removed, ab, ba, remote, binds, locals, unsent>>

\* Mutant: only one of the two references is released.
LocalTimeoutOnePut ==
    LET c == usr.c
    IN  /\ \/ usr.pc = "ack_wait" /\ ~chan[c].open_ack
           \/ usr.pc = "req_wait" /\ ~chan[c].open_req
        /\ Expired
        /\ lcids' = Without(lcids, chan[c].lcid)
        /\ chan' = [chan EXCEPT ![c].refs = @ - 1]
        /\ usr' = NoCh
        /\ UNCHANGED <<rcids, next_lcid, work, worker, drv, abort_tx, removed,
                       ab, ba, remote, binds, locals, unsent>>

\* err_timeout: the id and both references are released.
LocalTimeout ==
    LET c == usr.c
    IN  /\ \/ usr.pc = "ack_wait" /\ ~chan[c].open_ack
           \/ usr.pc = "req_wait" /\ ~chan[c].open_req
        /\ Expired
        /\ lcids' = Without(lcids, chan[c].lcid)
        /\ chan' = [chan EXCEPT ![c].refs = @ - 2]
        /\ usr' = NoCh
        /\ UNCHANGED <<rcids, next_lcid, work, worker, drv, abort_tx, removed,
                       ab, ba, remote, binds, locals, unsent>>

-----------------------------------------------------------------------------
(* The edge goes down *)

\* qcom_glink_early_ssr_notify
Abort ==
    /\ "abort" \in Faults /\ ~abort_tx
    /\ abort_tx' = TRUE
    /\ UNCHANGED <<chan, lcids, rcids, next_lcid, work, worker, drv, usr,
                   removed, ab, ba, remote, binds, locals, unsent>>

\* How many ids of idr stand for c.
Count(idr, c) == Cardinality({i \in DOMAIN idr : idr[i] = c})

\* Mutant: the channels that wait for CLOSE are forgotten.
ReleasedAllLocal(c) == [chan[c] EXCEPT !.refs = @ - Count(lcids, c), !.cb = FALSE]

\* One reference is put for every id in lcids, then for every one in rcids.
ReleasedAll(c) ==
    [chan[c] EXCEPT !.refs = @ - Count(lcids, c) - Count(rcids, c), !.cb = FALSE]

\* qcom_glink_native_remove, when the interrupt is off.  cancel_work_sync
\* waits for the worker, taking the devices away for their users.
Remove ==
    /\ "remove" \in Faults /\ ~removed
    /\ worker = "idle" /\ drv.pc \in {"none", "bound"} /\ usr.pc = "none"
    /\ removed' = TRUE /\ abort_tx' = TRUE
    /\ work' = <<>> /\ drv' = NoCh
    /\ chan' = [c \in DOMAIN chan |-> ReleasedAll(c)]
    /\ lcids' = <<>> /\ rcids' = <<>>
    /\ UNCHANGED <<next_lcid, worker, usr, ab, ba, remote, binds, locals,
                   unsent>>

-----------------------------------------------------------------------------
(* The remote end *)

remote_only == <<chan, lcids, rcids, next_lcid, work, worker, drv, usr,
                 abort_tx, removed, binds, locals, unsent>>

RemoteOpen ==
    /\ rstate = "closed" /\ opens < MaxOpens
    /\ rstate' = "opening"
    /\ opens' = opens + 1
    /\ ba' = Append(ba, Msg("open", opens + 1))
    /\ UNCHANGED <<remote_only, ropen, ab>>

RemoteClose ==
    /\ rstate = "open"
    /\ rstate' = "closing"
    /\ ba' = Append(ba, Msg("close", opens))
    /\ UNCHANGED <<remote_only, ropen, opens, ab>>

\* It acknowledges OPEN, and CLOSE of an id that is open.
RemoteAcknowledge ==
    LET m == Head(ab)
    IN  /\ ab # <<>>
        /\ ab' = Tail(ab)
        /\ \/ /\ m.type = "open"
              /\ ropen' = ropen \cup {m.cid}
              /\ ba' = Append(ba, Msg("open_ack", m.cid))
              /\ UNCHANGED rstate
           \/ /\ m.type = "close" /\ m.cid \in ropen
              /\ ropen' = ropen \ {m.cid}
              /\ ba' = Append(ba, Msg("close_ack", m.cid))
              /\ UNCHANGED rstate
           \/ /\ m.type = "close" /\ m.cid \notin ropen
              /\ UNCHANGED <<ropen, ba, rstate>>
           \/ /\ m.type = "open_ack"
              /\ rstate' = "open"
              /\ UNCHANGED <<ropen, ba>>
           \/ /\ m.type = "close_ack"
              /\ rstate' = "closed"
              /\ UNCHANGED <<ropen, ba>>
        /\ UNCHANGED <<remote_only, opens>>

-----------------------------------------------------------------------------
\* qcom_glink_native_probe: no channel yet.
Init ==
    /\ chan = <<>> /\ lcids = <<>> /\ rcids = <<>> /\ next_lcid = 1
    /\ work = <<>> /\ worker = "idle" /\ drv = NoCh /\ usr = NoCh
    /\ abort_tx = FALSE /\ removed = FALSE /\ ab = <<>> /\ ba = <<>>
    /\ rstate = "closed" /\ ropen = {} /\ opens = 0
    /\ binds = 0 /\ locals = 0 /\ unsent = {}

Irq == RxOpenAck \/ RxDefer
Worker == RxOpen \/ RxClose \/ RxCloseAck
Probe == BindOpen \/ BindDone \/ BindTimeout
Local == LocalAcked \/ LocalTimeout

Next ==
    \/ Irq \/ Worker \/ Bind \/ Probe \/ Unbind \/ LocalOpen \/ Local
    \/ Abort \/ Remove \/ RemoteOpen \/ RemoteClose \/ RemoteAcknowledge

\* Interrupts and the worker run, waits end, and the remote end answers.
Fairness ==
    /\ WF_vars(Irq) /\ WF_vars(Worker) /\ WF_vars(Probe) /\ WF_vars(Local)
    /\ WF_vars(RemoteAcknowledge)

Spec == Init /\ [][Next]_vars
FairSpec == Spec /\ Fairness

-----------------------------------------------------------------------------
(* Properties *)

\* The types of the state; no reference count becomes negative.
TypeOK ==
    /\ \A c \in DOMAIN chan :
          chan[c] \in [refs : Nat, lcid : Nat, rcid : Nat, open_ack : BOOLEAN,
                       open_req : BOOLEAN, close_ack : BOOLEAN,
                       rpdev : BOOLEAN, cb : BOOLEAN]
    /\ DOMAIN lcids \subseteq 1 .. next_lcid - 1
    /\ DOMAIN rcids \subseteq 1 .. opens
    /\ Held(lcids) \cup Held(rcids) \subseteq DOMAIN chan
    /\ worker \in {"idle", "probe"}
    /\ drv.pc \in {"none", "close_wait", "ack_wait", "bound"}
    /\ usr.pc \in {"none", "ack_wait", "req_wait"}
    /\ ropen \subseteq 1 .. next_lcid - 1
    /\ unsent \subseteq DOMAIN chan

\* The state is well typed, and no channel is freed while one of the id
\* tables, the driver or a user's thread still leads to it.
NoDangling ==
    /\ TypeOK
    /\ \A c \in Held(lcids) \cup Held(rcids) : chan[c].refs > 0
    /\ drv.pc # "none" => chan[drv.c].refs > 0
    /\ usr.pc # "none" => chan[usr.c].refs > 0

\* An endpoint that its driver may use has a local id, under which incoming
\* acknowledgements find it and which the remote end holds open.
BoundIsOpen ==
    \A c \in DOMAIN chan : chan[c].cb /\ ~abort_tx =>
        /\ chan[c].lcid \in DOMAIN lcids /\ lcids[chan[c].lcid] = c
        /\ chan[c].lcid \in ropen

\* The probe that qcom_glink_rx_open runs in the worker, or another, never
\* waits for an OPEN_ACK that the worker would have to deliver: when nothing
\* else is under way, the acknowledgement is there.
OpenAckNotLost ==
    drv.pc = "ack_wait" /\ Idle /\ ~abort_tx => chan[drv.c].open_ack

\* "The close-ack will release qcom_glink_send_open_req() reference and the
\* last reference will be released after receiving remote_close": when all
\* messages are handled, a channel that the remote end has closed is freed,
\* and without a driver no local id is left.
ReleasedAfterClose ==
    Idle /\ work = <<>> /\ drv.pc \in {"none", "bound"} /\ usr.pc = "none"
         /\ ~abort_tx =>
        /\ \A c \in DOMAIN chan : chan[c].refs > 0 => c \in Held(rcids)
        /\ drv.pc = "none" => lcids = <<>>

\* qcom_glink_native_remove leaves none of the channels behind whose OPEN was
\* sent, whatever they were in the middle of.
RemovedFreesOpened ==
    removed => \A c \in DOMAIN chan : chan[c].refs = 0 \/ c \in unsent

\* "the last reference will be relesed after receiving remote_close or
\* transport unregister by calling qcom_glink_native_remove()": removal
\* leaves no channel behind, one whose OPEN could not be sent included.
RemovedFreesAll == removed => \A c \in DOMAIN chan : chan[c].refs = 0

\* "@open_req: completed once open-request has been received": when the
\* remote end opens the channel a user waits for, the user's wait is over.
LocalOpenMatched ==
    usr.pc = "req_wait" /\ rcids # <<>> => chan[usr.c].open_req

\* The remote end's CLOSE of an id in rcids is acknowledged, whatever the
\* driver is doing, unless the edge goes down.  (An id that
\* qcom_glink_rx_open acknowledged and then dropped, because the device could
\* not be registered, is not in rcids, and its CLOSE is never answered.)
RemoteCloseAnswered ==
    (rstate = "closing" /\ opens \in DOMAIN rcids)
        ~> (rstate = "closed" \/ abort_tx)

\* The driver's probe returns.
ProbeReturns ==
    (drv.pc \in {"close_wait", "ack_wait"}) ~> (drv.pc \in {"none", "bound"})
=============================================================================
