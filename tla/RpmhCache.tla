----------------------------- MODULE RpmhCache ------------------------------
(***************************************************************************)
(* The vote cache of the RPMh client library (drivers/soc/qcom/rpmh.c) and *)
(* the sleep and wake TCSes it is flushed to (rpmh-rsc.c).                 *)
(*                                                                         *)
(* Clients vote for the value an address takes while the processors sleep  *)
(* and when they wake up.  Votes stay in the cache until the last CPU goes *)
(* down, or a client asks for it: rpmh_flush then invalidates the sleep    *)
(* and wake TCSes and writes every vote that matters into free slots,      *)
(* unless `dirty' says that the TCSes are up to date.  The hardware        *)
(* applies the sleep TCSes on power collapse and the wake TCSes after it.  *)
(*                                                                         *)
(* A step is one critical section under cache_lock; a flush, which holds   *)
(* the lock throughout, is cut at every message it writes and nothing else *)
(* happens meanwhile ("the caller must ensure that no other RPMH actions   *)
(* are happening").  Who may send an active vote, and when, is RpmhRsc.    *)
(***************************************************************************)
EXTENDS Integers, Sequences, FiniteSets

CONSTANTS
    Addr,       \* resource addresses
    Val,        \* what a vote may ask for (UINT_MAX, "no vote", is not one)
    Unset,      \* UINT_MAX in sleep_val and wake_val
    Messages,   \* what clients write: sequences of commands
    Batches,    \* what they write with rpmh_write_batch
    MaxOps,     \* bound: calls of the clients in one behaviour
    num_tcs,    \* TCSes of each type on each channel
    ncpt,       \* commands per TCS
    CMD_DB_MAX_RESOURCES, MAX_RPMH_PAYLOAD,
    Kinds       \* the controllers considered: a subset of KindsOfRsc

\* "own": one channel and dedicated active TCSes; "borrowed": one channel,
\* active votes are sent from a wake TCS; "channels": two hardware channels,
\* no active votes.
KindsOfRsc == {"own", "borrowed", "channels"}

Command == [addr : Addr, data : Val]

ASSUME CacheAssumption ==
    /\ Unset \notin Val
    /\ num_tcs \in Nat /\ ncpt \in Nat \ {0}
    /\ CMD_DB_MAX_RESOURCES \in Nat /\ MAX_RPMH_PAYLOAD \in Nat
    /\ Messages \subseteq Seq(Command) /\ Batches \subseteq Seq(Command)
    /\ MaxOps \in Nat
    /\ Kinds \subseteq KindsOfRsc

VARIABLES
    kind,      \* the controller at hand
    cache,     \* non_batch_cache[0 .. non_batch_cache_idx - 1]
    batch,     \* batch_cache: one message per state
    dirty,     \* ctrlr->dirty
    slots,     \* tcs->slots per channel and type
    cmds,      \* the commands the hardware has enabled, with their slots
    busy,      \* the channel the hardware uses, NoCh before rpmh_drv_start
    wr,        \* the __rpmh_write in progress: its state, commands to cache
    fl,        \* the _rpmh_flush in progress
    vote,      \* history: the votes accepted so far
    flushed,   \* history: channel of a successful flush, no vote after it
    filled,    \* history: the channel last written to by a flush
    clobbered, \* history: a borrowed wake TCS was cleared since then
    nops       \* calls so far (bounded by MaxOps)

vars == <<kind, cache, batch, dirty, slots, cmds, busy, wr, fl, vote,
          flushed, filled, clobbered, nops>>

Type     == {"sleep", "wake"}
State    == Type \cup {"active"}
CH0      == 0
CH1      == 1
Channel  == {CH0, CH1}
NoCh     == -1
NoWrite  == [state |-> "none", cmds |-> << >>]
NoFlush  == [pc |-> "idle", ch |-> NoCh, i |-> 0, then |-> "none"]
MaxSlots == num_tcs * ncpt

-----------------------------------------------------------------------------
(* rpmh-rsc.c: slots of the sleep and wake TCSes *)

\* Where n free slots in a row start, at or after i.
ZeroArea(used, i, n) ==
    {s \in i .. (MaxSlots - n) : \A k \in s .. (s + n - 1) : k \notin used}

Least(S) == CHOOSE x \in S : \A y \in S : x <= y

\* Mutant: a message may run over the end of its TCS.
FindSlotsSpanning(used, n) ==
    IF ZeroArea(used, 0, n) = {} THEN {} ELSE {Least(ZeroArea(used, 0, n))}

\* The slot find_slots returns, as a set: empty for -ENOMEM.  The loop looks
\* for the first area at or after TCS k and accepts it if it ends in TCS k.
find_slots(used, n) ==
    LET first(k)  == Least(ZeroArea(used, k * ncpt, n))
        Ends(k)   == /\ ZeroArea(used, k * ncpt, n) # {}
                     /\ first(k) + n - 1 < (k + 1) * ncpt
        Good      == {k \in 0 .. (num_tcs - 1) : Ends(k)}
    IN  IF Good = {} THEN {} ELSE {first(Least(Good))}

\* The slots a message of n commands takes from slot s on.
Area(s, n) == s .. (s + n - 1)

\* __tcs_buffer_write: the commands of msg, enabled from slot s on.
Written(s, msg) ==
    {[slot |-> s + i - 1, addr |-> msg[i].addr, data |-> msg[i].data] :
        i \in 1 .. Len(msg)}

\* rpmh_rsc_write_ctrl_data: TRUE when msg fits, or is empty.
Fits(ch, ty, msg) == msg = << >> \/ find_slots(slots[ch][ty], Len(msg)) # {}

rpmh_rsc_write_ctrl_data(ch, ty, msg) ==
    IF msg = << >>
    THEN UNCHANGED <<slots, cmds>>
    ELSE \E s \in find_slots(slots[ch][ty], Len(msg)) :
            /\ slots' = [slots EXCEPT ![ch][ty] = @ \cup Area(s, Len(msg))]
            /\ cmds'  = [cmds EXCEPT ![ch][ty] =
                            {c \in @ : c.slot \notin Area(s, Len(msg))}
                               \cup Written(s, msg)]

\* rpmh_rsc_invalidate: both types of the channel, unless no slot is taken.
rpmh_rsc_invalidate(ch) ==
    /\ slots' = [slots EXCEPT ![ch] = [ty \in Type |-> {}]]
    /\ cmds'  = [cmds EXCEPT ![ch] =
                    [ty \in Type |-> IF slots[ch][ty] = {} THEN cmds[ch][ty]
                                                           ELSE {}]]

\* rpmh_rsc_get_channel; empty for -EBUSY.
rpmh_rsc_get_channel ==
    CASE kind # "channels" -> {CH0}
      [] busy = CH0        -> {CH1}
      [] busy = CH1        -> {CH0}
      [] OTHER             -> {}

\* An active vote: on a borrowed wake TCS rpmh_rsc_send_data clears the
\* enabled commands, and tcs_tx_done clears the ones just sent; the slots
\* stay as they are.
rpmh_rsc_send_data ==
    IF kind = "borrowed"
    THEN \E t \in 0 .. (num_tcs - 1) :
            /\ cmds' = [cmds EXCEPT ![CH0]["wake"] =
                            {c \in @ : c.slot \notin Area(t * ncpt, ncpt)}]
            /\ clobbered' = TRUE
    ELSE UNCHANGED <<cmds, clobbered>>

-----------------------------------------------------------------------------
(* rpmh.c: the cache *)

\* get_non_batch_cache_req gives up on a full cache, whatever the address.
CacheHasRoom == Len(cache) < CMD_DB_MAX_RESOURCES

\* The entry get_non_batch_cache_req returns: the one with this address, or
\* a new one at the end.
EntryOf(a) ==
    IF \E i \in 1 .. Len(cache) : cache[i].addr = a
    THEN CHOOSE i \in 1 .. Len(cache) : cache[i].addr = a
    ELSE Len(cache) + 1

OldEntry(a) ==
    IF EntryOf(a) \in 1 .. Len(cache)
    THEN cache[EntryOf(a)]
    ELSE [addr |-> a, sleep_val |-> Unset, wake_val |-> Unset]

\* The switch of cache_rpm_request: an active vote is also the wake vote.
Voted(e, state, data) ==
    IF state = "sleep" THEN [e EXCEPT !.sleep_val = data]
                       ELSE [e EXCEPT !.wake_val = data]

\* Mutant: only a change of the sleep value marks the cache dirty.
BecomesDirtySleepOnly(old, new) ==
    /\ new.sleep_val # old.sleep_val
    /\ new.sleep_val # Unset /\ new.wake_val # Unset

BecomesDirty(old, new) ==
    /\ new.sleep_val # old.sleep_val \/ new.wake_val # old.wake_val
    /\ new.sleep_val # Unset /\ new.wake_val # Unset

\* rpmh_write and rpmh_write_async: check_ctrlr_state, __fill_rpmh_msg and
\* the start of __rpmh_write.  A controller with hardware channels refuses
\* active votes.
rpmh_write(state, msg) ==
    /\ wr = NoWrite
    /\ nops < MaxOps /\ nops' = nops + 1
    /\ ~(state = "active" /\ kind = "channels")
    /\ Len(msg) \in 1 .. MAX_RPMH_PAYLOAD
    /\ wr' = [state |-> state, cmds |-> msg]
    /\ UNCHANGED <<kind, cache, batch, dirty, slots, cmds, busy, fl, vote,
                   flushed, filled, clobbered>>

\* The loop of __rpmh_write: one command under cache_lock.  After the last
\* command a sleep or wake request is done (tx_done is spoofed).
cache_rpm_request ==
    LET cmd == Head(wr.cmds)
        old == OldEntry(cmd.addr)
        new == Voted(old, wr.state, cmd.data)
        ty  == IF wr.state = "sleep" THEN "sleep" ELSE "wake"
    IN  /\ wr.cmds # << >> /\ fl = NoFlush
        /\ \/ /\ ~CacheHasRoom                                 \* -ENOMEM
              /\ wr' = NoWrite
              /\ UNCHANGED <<cache, dirty, vote, flushed>>
           \/ /\ CacheHasRoom
              /\ cache' = [i \in 1 .. Len(cache) \cup {EntryOf(cmd.addr)} |->
                              IF i = EntryOf(cmd.addr) THEN new ELSE cache[i]]
              /\ dirty' = (dirty \/ BecomesDirty(old, new))
              /\ vote'  = [vote EXCEPT ![cmd.addr][ty] = cmd.data]
              /\ wr' = IF Tail(wr.cmds) = << >> /\ wr.state # "active"
                       THEN NoWrite
                       ELSE [wr EXCEPT !.cmds = Tail(@)]
              /\ flushed' = NoCh
        /\ UNCHANGED <<kind, batch, slots, cmds, busy, fl, filled, clobbered,
                       nops>>

\* The rest of __rpmh_write for an active vote: all commands are cached and
\* the message is sent.
SendActive ==
    /\ wr.state = "active" /\ wr.cmds = << >> /\ fl = NoFlush
    /\ rpmh_rsc_send_data
    /\ wr' = NoWrite
    /\ flushed' = NoCh
    /\ UNCHANGED <<kind, cache, batch, dirty, slots, busy, fl, vote, filled,
                   nops>>

\* rpmh_write_batch for sleep and wake: the old message is wiped before the
\* length of the new one is looked at.
rpmh_write_batch(state, msg) ==
    /\ nops < MaxOps /\ nops' = nops + 1
    /\ fl = NoFlush
    /\ batch' = [batch EXCEPT ![state] =
                    IF Len(msg) \in 1 .. MAX_RPMH_PAYLOAD THEN msg ELSE << >>]
    /\ dirty' = TRUE
    /\ flushed' = NoCh
    /\ UNCHANGED <<kind, cache, slots, cmds, busy, wr, fl, vote, filled,
                   clobbered>>

\* rpmh_write_batch for active votes: sent at once and not cached.
SendBatchActive ==
    /\ nops < MaxOps /\ nops' = nops + 1
    /\ fl = NoFlush /\ kind # "channels"
    /\ rpmh_rsc_send_data
    /\ flushed' = NoCh
    /\ UNCHANGED <<kind, cache, batch, dirty, slots, busy, wr, fl, vote,
                   filled>>

rpmh_invalidate ==
    /\ nops < MaxOps /\ nops' = nops + 1
    /\ fl = NoFlush
    /\ batch' = [ty \in Type |-> << >>]
    /\ dirty' = TRUE
    /\ flushed' = NoCh
    /\ UNCHANGED <<kind, cache, slots, cmds, busy, wr, fl, vote, filled,
                   clobbered>>

-----------------------------------------------------------------------------
(* rpmh.c: the flush *)

\* is_req_valid
Matters(e) ==
    /\ e.sleep_val # Unset /\ e.wake_val # Unset
    /\ e.sleep_val # e.wake_val

\* What follows a successful flush: rpmh_rsc_switch_channel, for drv_stop
\* with the channel switched off again.
Switched(ch, then) ==
    CASE then \in {"switch", "start"} -> ch
      [] then = "stop"                -> NoCh
      [] OTHER                        -> busy

\* The start of _rpmh_flush: nothing to do, or both TCS types invalidated.
StartFlush(ch, then) ==
    /\ fl = NoFlush
    /\ \/ /\ ~dirty
          /\ busy' = Switched(ch, then)
          /\ flushed' = ch
          /\ UNCHANGED <<slots, cmds, fl>>
       \/ /\ dirty
          /\ rpmh_rsc_invalidate(ch)
          /\ fl' = [pc |-> "batch_sleep", ch |-> ch, i |-> 1, then |-> then]
          /\ flushed' = NoCh
          /\ UNCHANGED busy
    /\ UNCHANGED <<kind, cache, batch, dirty, wr, vote, filled, clobbered, nops>>

\* The callers of rpmh_flush.  The last CPU going down and the power domain
\* (rpmh_rsc_cpu_pm_callback, rpmh_rsc_pd_callback) are not registered for a
\* controller with hardware channels; rpmh_write_sleep_and_wake switches the
\* channel on such a one; rpmh_drv_start and rpmh_drv_stop switch it on and
\* off.
PmCallback ==
    /\ kind # "channels"
    /\ \E ch \in rpmh_rsc_get_channel : StartFlush(ch, "none")

rpmh_write_sleep_and_wake ==
    \E ch \in rpmh_rsc_get_channel :
        StartFlush(ch, IF kind = "channels" THEN "switch" ELSE "none")

rpmh_drv_start ==
    /\ kind = "channels" /\ busy = NoCh
    /\ StartFlush(CH0, "start")

rpmh_drv_stop ==
    /\ kind = "channels" /\ busy # NoCh
    /\ \E ch \in rpmh_rsc_get_channel : StartFlush(ch, "stop")

\* The message the flush is about to write.
Current ==
    CASE fl.pc = "batch_sleep"  -> batch["sleep"]
      [] fl.pc = "batch_wake"   -> batch["wake"]
      [] fl.pc = "single_sleep" -> <<[addr |-> cache[fl.i].addr,
                                      data |-> cache[fl.i].sleep_val]>>
      [] OTHER                  -> <<[addr |-> cache[fl.i].addr,
                                      data |-> cache[fl.i].wake_val]>>

CurrentType == IF fl.pc \in {"batch_sleep", "single_sleep"} THEN "sleep"
                                                            ELSE "wake"

\* Where the flush goes on after a message that was written.
Onward ==
    CASE fl.pc = "batch_sleep"  -> [fl EXCEPT !.pc = "batch_wake"]
      [] fl.pc = "batch_wake"   -> [fl EXCEPT !.pc = "next"]
      [] fl.pc = "single_sleep" -> [fl EXCEPT !.pc = "single_wake"]
      [] OTHER                  -> [fl EXCEPT !.pc = "next", !.i = @ + 1]

\* flush_batch and send_single: one message, or the error ends the flush.
WriteMessage ==
    /\ fl.pc \in {"batch_sleep", "batch_wake", "single_sleep", "single_wake"}
    /\ \/ /\ Fits(fl.ch, CurrentType, Current)
          /\ rpmh_rsc_write_ctrl_data(fl.ch, CurrentType, Current)
          /\ fl' = Onward
       \/ /\ ~Fits(fl.ch, CurrentType, Current)                \* -ENOMEM
          /\ fl' = NoFlush
          /\ UNCHANGED <<slots, cmds>>
    /\ UNCHANGED <<kind, cache, batch, dirty, busy, wr, vote, flushed, filled,
                   clobbered, nops>>

\* The head of the loop over non_batch_cache.
NextEntry ==
    /\ fl.pc = "next" /\ fl.i <= Len(cache)
    /\ fl' = IF Matters(cache[fl.i]) THEN [fl EXCEPT !.pc = "single_sleep"]
                                     ELSE [fl EXCEPT !.i = @ + 1]
    /\ UNCHANGED <<kind, cache, batch, dirty, slots, cmds, busy, wr, vote,
                   flushed, filled, clobbered, nops>>

EndFlush ==
    /\ fl.pc = "next" /\ fl.i > Len(cache)
    /\ dirty' = FALSE
    /\ busy' = Switched(fl.ch, fl.then)
    /\ flushed' = fl.ch /\ filled' = fl.ch /\ clobbered' = FALSE
    /\ fl' = NoFlush
    /\ UNCHANGED <<kind, cache, batch, slots, cmds, wr, vote, nops>>

-----------------------------------------------------------------------------

Init ==
    /\ kind \in Kinds
    /\ cache = << >>
    /\ batch = [ty \in Type |-> << >>]
    /\ dirty = FALSE
    /\ slots = [ch \in Channel |-> [ty \in Type |-> {}]]
    /\ cmds  = [ch \in Channel |-> [ty \in Type |-> {}]]
    /\ busy = NoCh
    /\ wr = NoWrite /\ fl = NoFlush
    /\ vote = [a \in Addr |-> [ty \in Type |-> Unset]]
    /\ flushed = NoCh /\ filled = CH0 /\ clobbered = FALSE /\ nops = 0

Next ==
    \/ \E state \in State, msg \in Messages : rpmh_write(state, msg)
    \/ cache_rpm_request
    \/ SendActive
    \/ \E ty \in Type, msg \in Batches : rpmh_write_batch(ty, msg)
    \/ SendBatchActive
    \/ rpmh_invalidate
    \/ PmCallback
    \/ rpmh_write_sleep_and_wake
    \/ rpmh_drv_start
    \/ rpmh_drv_stop
    \/ WriteMessage
    \/ NextEntry
    \/ EndFlush

Spec == Init /\ [][Next]_vars

-----------------------------------------------------------------------------
(* Properties *)

Entry == [addr : Addr, sleep_val : Val \cup {Unset},
          wake_val : Val \cup {Unset}]

\* Every variable has its type; the cache stays within its array and the
\* slots within the TCSes.
TypeOK ==
    /\ kind \in Kinds
    /\ cache \in Seq(Entry) /\ Len(cache) <= CMD_DB_MAX_RESOURCES
    /\ batch \in [Type -> Seq(Command)]
    /\ dirty \in BOOLEAN /\ clobbered \in BOOLEAN
    /\ slots \in [Channel -> [Type -> SUBSET (0 .. MaxSlots - 1)]]
    /\ cmds \in [Channel -> [Type -> SUBSET [slot : Int, addr : Addr,
                                             data : Val]]]
    /\ busy \in Channel \cup {NoCh}
    /\ wr \in [state : State \cup {"none"}, cmds : Seq(Command)]
    /\ fl \in [pc : {"idle", "batch_sleep", "batch_wake", "next",
                     "single_sleep", "single_wake"},
               ch : Channel \cup {NoCh}, i : Nat,
               then : {"none", "switch", "start", "stop"}]
    /\ vote \in [Addr -> [Type -> Val \cup {Unset}]]
    /\ flushed \in Channel \cup {NoCh} /\ filled \in Channel
    /\ nops \in 0 .. MaxOps

\* The commands of a set of enabled commands or of a message, without slots.
Enabled(ch, ty) == {<<c.addr, c.data>> : c \in cmds[ch][ty]}
InBatch(ty)     == {<<batch[ty][i].addr, batch[ty][i].data>> :
                        i \in 1 .. Len(batch[ty])}

\* What the hardware must apply, from the votes alone: the batch, and every
\* address whose sleep and wake votes are both known and differ.
Voters == {a \in Addr : /\ vote[a]["sleep"] # Unset /\ vote[a]["wake"] # Unset
                        /\ vote[a]["sleep"] # vote[a]["wake"]}
Needed(ty) == InBatch(ty) \cup {<<a, vote[a][ty]>> : a \in Voters}

\* When rpmh_flush has returned 0 the sleep and wake TCSes of its channel
\* hold exactly the votes of the clients, whether it wrote them or skipped
\* the work because "TCS has latest data" (rpmh.c:400).
FlushedIsLatest ==
    flushed # NoCh => \A ty \in Type : Enabled(flushed, ty) = Needed(ty)

\* The same for a flush of the channel that was written last, while no
\* borrowed wake TCS has been cleared since: then `dirty' tells the truth,
\* whatever mix of votes, batches, failed and skipped flushes came before.
LatestUnlessClobbered ==
    flushed = filled /\ ~clobbered => FlushedIsLatest

\* The state is well typed, and find_slots is first fit ("fit the full payload
\* in a single TCS"): it returns the lowest start of n free slots that lie in
\* one TCS, and -ENOMEM only if no TCS has n free slots in a row.
FindSlotsIsFirstFit ==
    TypeOK /\ \A ch \in Channel, ty \in Type, n \in 1 .. ncpt :
        LET Starts == {s \in 0 .. (MaxSlots - 1) :
                         /\ s \div ncpt = (s + n - 1) \div ncpt
                         /\ Area(s, n) \cap slots[ch][ty] = {}}
        IN  find_slots(slots[ch][ty], n) =
                {s \in Starts : \A r \in Starts : s <= r}

=============================================================================
