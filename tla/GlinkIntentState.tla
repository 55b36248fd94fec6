-------------------------- MODULE GlinkIntentState --------------------------
(***************************************************************************)
(* The receive intents of a G-Link channel (qcom_glink_native.c): the      *)
(* state of its two ends and of the pipes between them, and what is done to *)
(* an intent.  GlinkIntent has the steps.                                  *)
(***************************************************************************)
EXTENDS Integers, Sequences

CONSTANTS
    Threads,      \* threads calling rpmsg_send or rpmsg_trysend
    Lens,         \* lengths of the messages they send
    SZ_8K,        \* longest chunk a blocking sender puts into one message
    BaseIntents,  \* "qcom,intents": sizes of the reusable intents, a sequence
    CbIrqs,       \* what channel->cb_irq may be
    Faults,       \* what may go wrong: a subset of FaultKinds
    MaxSends      \* bound: calls of __qcom_glink_send in one behaviour

\* "abort": the subsystem restarts and abort_tx is set; "nomem": the worker
\* cannot allocate an intent; "slow": 10 s pass while an answer is under way.
FaultKinds == {"abort", "nomem", "slow"}

ASSUME LensAssumption ==
    /\ Lens \subseteq Nat \ {0} /\ SZ_8K \in Nat \ {0}
    /\ BaseIntents \in Seq(Nat)
ASSUME FaultsAssumption ==
    CbIrqs \subseteq BOOLEAN /\ Faults \subseteq FaultKinds /\ MaxSends \in Nat

VARIABLES
    pc,               \* sender threads: idle, scan, lock, wait, send
    call,             \* their call: [len, wait, offset, iid, n]
    ret,              \* what their last call returned
    riids,            \* intents the sending end knows: [size, in_use]
    req_lock,         \* holder of intent_req_lock, or "none"
    req_result,       \* channel->intent_req_result
    intent_received,  \* channel->intent_received
    intent_timeout_count, \* channel->intent_timeout_count
    abort_tx,         \* glink->abort_tx
    ab,               \* messages to the receiving end
    ba,               \* messages back
    cb_irq,           \* channel->cb_irq, set when the channel is made
    liids,            \* the receiving end's intents: [size, reuse, offset, n]
    next_id,          \* cursor of idr_alloc_cyclic
    work,             \* deferred RX_INTENT_REQs: their sizes
    rx_queue,         \* channel->rx_queue: buffers to allocate, data to deliver
    rx_pc,            \* the channel's thread: idle, advertise, ack, cb, done
    rx_cur,           \* what it has taken off rx_queue
    defer_intents,    \* channel->defer_intents: ids
    owed,             \* those the client has answered RPMSG_DEFER for
    nsends,           \* calls so far (bounded by MaxSends); numbers them
    sent,             \* history: messages whose last chunk is in ab, in order
    delivered         \* history: what the client's callback got, in order

None == "none"

\* Adding and removing entries of an idr.
With(idr, id, value) ==
    [i \in DOMAIN idr \cup {id} |-> IF i = id THEN value ELSE idr[i]]
Without(idr, id) == [i \in DOMAIN idr \ {id} |-> idr[i]]

(* The receiving end's intents, and what the ends queue for each other *)

DoneMsg(id, reuse) == [type |-> "done", iid |-> id, reuse |-> reuse]

Emptied(intent) ==
    [size |-> intent.size, reuse |-> intent.reuse, offset |-> 0, ns |-> {}]

\* Mutant: the write offset is not reset.
ReleasedAsIs(idr, id) ==
    CASE id \notin DOMAIN idr -> idr
      [] id \in DOMAIN idr /\ idr[id].reuse -> idr
      [] OTHER -> Without(idr, id)

\* What __qcom_glink_rx_done leaves of liids: an intent that can be used
\* again is emptied, any other is removed (and then freed).
Released(idr, id) ==
    CASE id \notin DOMAIN idr -> idr
      [] id \in DOMAIN idr /\ idr[id].reuse ->
            [idr EXCEPT ![id] = Emptied(idr[id])]
      [] OTHER -> Without(idr, id)

\* Entries of channel->rx_queue.
ToAllocate(size, reuse, ack) ==
    [kind |-> "alloc", size |-> size, reuse |-> reuse, ack_pending |-> ack,
     iid |-> 0]
ToDeliver(id, reuse, done) ==
    [kind |-> "data", iid |-> id, reuse |-> reuse, cb_irq_done |-> done]

\* Data without an intent, or without room in it, is dropped.
Dropped(m) ==
    \/ m.iid \notin DOMAIN liids
    \/ liids[m.iid].size - liids[m.iid].offset < m.chunk

\* A chunk is copied behind what the buffer holds.
Filled(intent, m) ==
    [size |-> intent.size, reuse |-> intent.reuse,
     offset |-> intent.offset + m.chunk, ns |-> intent.ns \cup {m.n}]
=============================================================================
