------------------------------ MODULE RpmhRsc -------------------------------
(***************************************************************************)
(* Active votes of the RPMh driver: TCS allocation, the completion         *)
(* interrupt, the waiting clients, solver mode and the CPU power           *)
(* notifier (drivers/soc/qcom/rpmh-rsc.c, rpmh.c).                         *)
(*                                                                         *)
(* A client claims a whole TCS under drv->lock, or sleeps until one is     *)
(* free and nobody else is sending to its address.  The hardware executes  *)
(* the TCS and raises an interrupt; the handler gives the TCS back and     *)
(* completes the request, which lies on the stack of the waiting client.   *)
(* rpmh_write_async does not wait: its TCS is free again as soon as it has *)
(* been triggered.  A controller without active TCSes borrows the wake     *)
(* TCSes.  The last CPU going down flushes the cached votes, but not while *)
(* a TCS is in use.                                                        *)
(*                                                                         *)
(* A step is one critical section of drv->lock; the interrupt handler,     *)
(* which touches the TCS registers without the lock, is cut into its four  *)
(* parts.  Every client runs on a CPU of its own and every message has one *)
(* command.                                                                *)
(***************************************************************************)
EXTENDS Integers, FiniteSets

CONSTANTS
    Client,    \* threads that call rpmh_write, each on its own CPU
    Addr,      \* resource addresses
    num_tcs,   \* TCSes that carry active votes
    MaxCalls,  \* bound: calls of each client
    Calls,     \* the calls each client makes: subsets of CallKinds
    None       \* no request

\* "write": rpmh_write; "batch": rpmh_write_batch; "async": rpmh_write_async.
CallKinds == {"write", "batch", "async"}

ASSUME RscAssumption ==
    /\ num_tcs \in Nat /\ MaxCalls \in [Client -> Nat]
    /\ Calls \in [Client -> SUBSET CallKinds]
    /\ None \notin Client \X Nat
    /\ IsFiniteSet(Client) /\ Addr # {}

VARIABLES
    borrowed,    \* no active TCS: active votes go out on wake TCSes
    solvable,    \* SOLVER_PRESENT; without it the CPU notifier is registered
    solver,      \* in_solver_mode
    in_use,      \* drv->tcs_in_use
    req,         \* tcs->req: the request stashed for a TCS
    enabled,     \* CMD_ENABLE and CMD_ADDR: the addresses a TCS writes to
    irq_enable,  \* IRQ_ENABLE
    irq_status,  \* IRQ_STATUS
    xfer,        \* the request whose commands the TCS is executing
    pc,          \* a client: idle, send, asleep, woken or sent
    call,        \* its current or last call: number, kind and address
    completed,   \* its completion has been signalled
    irq,         \* the interrupt handler: where it is, on which CPU and TCS
    cpu,         \* a CPU: up, last (may be the last one going down) or down
    cpus_in_pm,  \* drv->cpus_in_pm
    crashed,     \* BUG_ON hit
    served,      \* history: requests the hardware has executed
    clean,       \* history: the votes have been flushed since the last call
    async        \* history: an asynchronous vote has been sent

lockvars == <<in_use, req, enabled, irq_enable, xfer>>
pmvars   == <<cpu, cpus_in_pm>>
conf     == <<borrowed, solvable>>
vars     == <<borrowed, solvable, solver, in_use, req, enabled, irq_enable,
              irq_status, xfer, pc, call, completed, irq, cpu, cpus_in_pm,
              crashed, served, clean, async>>

Tcs     == 0 .. (num_tcs - 1)
Request == {r \in Client \X Nat : r[2] <= MaxCalls[r[1]]}
WakeSet == "wake set"      \* what a flush writes to the wake TCSes
NoIrq   == [pc |-> "idle", cpu |-> None, tcs |-> 0, todo |-> {}, req |-> None]

\* The request of c's current call.
Req(c) == <<c, call[c].n>>

\* The stack frame a request lies on still exists.
Live(r) == r # None /\ r = Req(r[1]) /\ pc[r[1]] # "idle"

Waits(c) == call[c].kind # "async"      \* msg->wait_for_compl

Least(S) == CHOOSE x \in S : \A y \in S : x <= y

-----------------------------------------------------------------------------
(* rpmh.c, rpmh_rsc_send_data *)

\* rpmh_write, rpmh_write_async, rpmh_write_batch up to rpmh_rsc_send_data:
\* check_ctrlr_state refuses an active vote in solver mode.
rpmh_write(c, kind, a) ==
    /\ ~crashed /\ cpu[c] = "up"
    /\ pc[c] = "idle" /\ call[c].n < MaxCalls[c]
    /\ ~(solvable /\ solver)
    /\ pc' = [pc EXCEPT ![c] = "send"]
    /\ call' = [call EXCEPT ![c] = [n |-> @.n + 1, kind |-> kind, addr |-> a]]
    /\ completed' = [completed EXCEPT ![c] = FALSE]
    /\ clean' = FALSE
    /\ UNCHANGED <<conf, solver, lockvars, irq_status, irq, pmvars, crashed,
                   served, async>>

\* Mutant: requests in flight are not looked at.
NobodySends(a) == TRUE

\* check_for_req_inflight: no TCS in use has a command for this address.
NotInflight(a) == \A t \in in_use : a \notin enabled[t]

Free == Tcs \ in_use

\* find_free_tcs: the first free TCS, unless the hardware is still busy with
\* it after 100 us.
find_free_tcs ==
    {t \in Free : t = Least(Free) /\ xfer[t] = None}

claim_tcs_for_req(c) == IF NotInflight(call[c].addr) THEN find_free_tcs ELSE {}

\* Mutant: nobody is woken.
WakeNobody(p) == p

\* wake_up(&drv->tcs_wait)
wake_up(p) == [c \in Client |-> IF p[c] = "asleep" THEN "woken" ELSE p[c]]

\* The rest of the critical section once TCS t has been claimed.
Claim(c, t) ==
    /\ req'     = [req EXCEPT ![t] = Req(c)]
    /\ enabled' = [enabled EXCEPT ![t] = {call[c].addr}]
    /\ irq_enable' = [irq_enable EXCEPT ![t] = Waits(c) \/ borrowed]
    /\ xfer'    = [xfer EXCEPT ![t] = Req(c)]
    /\ in_use'  = IF Waits(c) THEN in_use \cup {t} ELSE in_use

\* rpmh_rsc_send_data under drv->lock, first entered or woken up again.
\* Solver mode is only looked at on entry.
rpmh_rsc_send_data(c) ==
    /\ ~crashed /\ cpu[c] = "up"
    /\ \/ /\ pc[c] = "send" /\ solver                          \* -EBUSY
          /\ pc' = [pc EXCEPT ![c] = "idle"]
          /\ UNCHANGED <<lockvars, async>>
       \/ /\ pc[c] = "woken" \/ (pc[c] = "send" /\ ~solver)
          /\ claim_tcs_for_req(c) = {}
          /\ pc' = [pc EXCEPT ![c] = "asleep"]
          /\ UNCHANGED <<lockvars, async>>
       \/ /\ pc[c] = "woken" \/ (pc[c] = "send" /\ ~solver)
          /\ \E t \in claim_tcs_for_req(c) : Claim(c, t)
          /\ pc' = IF Waits(c) THEN [pc EXCEPT ![c] = "sent"]
                   ELSE [wake_up(pc) EXCEPT ![c] = "idle"]
          /\ async' = (async \/ ~Waits(c))
    /\ UNCHANGED <<conf, solver, irq_status, call, completed, irq, pmvars,
                   crashed, served, clean>>

\* rpmh_write and rpmh_write_batch: wait_for_completion_timeout succeeds ...
Return(c) ==
    /\ ~crashed /\ cpu[c] = "up"
    /\ pc[c] = "sent" /\ completed[c]
    /\ pc' = [pc EXCEPT ![c] = "idle"]
    /\ UNCHANGED <<conf, solver, lockvars, irq_status, call, completed, irq,
                   pmvars, crashed, served, clean, async>>

\* Mutant: a timeout never stops the system.
BugOnNothing(c) == FALSE

\* rpmh_rsc_debug: BUG_ON(busy); rpmh_write_batch stops in any case.
BugOnTimeout(c) == in_use # {} \/ call[c].kind = "batch"

\* ... or times out.
Timeout(c) ==
    /\ ~crashed /\ cpu[c] = "up"
    /\ pc[c] = "sent" /\ ~completed[c]
    /\ \/ /\ BugOnTimeout(c)
          /\ crashed' = TRUE
          /\ UNCHANGED pc
       \/ /\ ~BugOnTimeout(c)                                  \* -ETIMEDOUT
          /\ pc' = [pc EXCEPT ![c] = "idle"]
          /\ UNCHANGED crashed
    /\ UNCHANGED <<conf, solver, lockvars, irq_status, call, completed, irq,
                   pmvars, served, clean, async>>

-----------------------------------------------------------------------------
(* The hardware and tcs_tx_done *)

\* The TCS has executed its commands: it is idle again, and raises its
\* interrupt if that is enabled.
HwDone(t) ==
    /\ ~crashed /\ xfer[t] # None
    /\ xfer' = [xfer EXCEPT ![t] = None]
    /\ served' = served \cup {xfer[t]}
    /\ irq_status' = [irq_status EXCEPT ![t] = @ \/ irq_enable[t]]
    /\ UNCHANGED <<conf, solver, in_use, req, enabled, irq_enable, pc, call,
                   completed, irq, pmvars, crashed, clean, async>>

Raised == {t \in Tcs : irq_status[t]}

\* The handler turns to the first TCS of S, or returns.
NextIrq(S, c) ==
    IF S = {} THEN NoIrq
    ELSE LET t == Least(S) IN
         [pc |-> "reclaim", cpu |-> c, tcs |-> t, todo |-> S \ {t},
          req |-> req[t]]

\* tcs_tx_done reads IRQ_STATUS once, on a CPU that is up.
IrqEnter(c) ==
    /\ ~crashed /\ cpu[c] = "up"
    /\ irq.pc = "idle" /\ Raised # {}
    /\ irq' = NextIrq(Raised, c)
    /\ UNCHANGED <<conf, solver, lockvars, irq_status, pc, call, completed,
                   pmvars, crashed, served, clean, async>>

\* Without the lock: the commands are disabled, the interrupt is cleared.
IrqReclaim ==
    /\ ~crashed /\ irq.pc = "reclaim"
    /\ enabled' = [enabled EXCEPT ![irq.tcs] = {}]
    /\ irq_status' = [irq_status EXCEPT ![irq.tcs] = FALSE]
    /\ irq' = [irq EXCEPT !.pc = "release"]
    /\ UNCHANGED <<conf, solver, in_use, req, irq_enable, xfer, pc, call,
                   completed, pmvars, crashed, served, clean, async>>

\* Under the lock: the TCS is free; then everyone waiting for one is woken.
IrqRelease ==
    /\ ~crashed /\ irq.pc = "release"
    /\ in_use' = in_use \ {irq.tcs}
    /\ irq_enable' = [irq_enable EXCEPT ![irq.tcs] = @ /\ ~borrowed]
    /\ pc' = wake_up(pc)
    /\ irq' = [irq EXCEPT !.pc = "done"]
    /\ UNCHANGED <<conf, solver, req, enabled, irq_status, xfer, call,
                   completed, pmvars, crashed, served, clean, async>>

\* Mutant: the request is looked up only now.
LateRequest == req[irq.tcs]

\* The request whose client is told.
StashedRequest == irq.req

\* rpmh_tx_done: complete the request if its client waits for it; then the
\* next TCS.
IrqDone ==
    /\ ~crashed /\ irq.pc = "done"
    /\ completed' = [c \in Client |->
                        completed[c] \/ (/\ StashedRequest = Req(c)
                                         /\ pc[c] = "sent")]
    /\ irq' = NextIrq(irq.todo, irq.cpu)
    /\ UNCHANGED <<conf, solver, lockvars, irq_status, pc, call, pmvars,
                   crashed, served, clean, async>>

-----------------------------------------------------------------------------
(* Solver mode and power collapse *)

\* Mutant: only the hardware is looked at, not what still has to be reclaimed.
HardwareBusy == \E t \in Tcs : xfer[t] # None

\* Mutant: a borrowed or dedicated TCS is never busy.
NeverBusy == FALSE

rpmh_rsc_ctrlr_is_busy == in_use # {}

\* rpmh_mode_solver_set
rpmh_rsc_mode_solver_set(enable) ==
    /\ ~crashed /\ solvable
    /\ enable # solver
    /\ enable => ~rpmh_rsc_ctrlr_is_busy
    /\ solver' = enable
    /\ UNCHANGED <<conf, lockvars, irq_status, pc, call, completed, irq,
                   pmvars, crashed, served, clean, async>>

\* A client that is runnable keeps its CPU out of idle.
Runnable(c) == \/ pc[c] \in {"send", "woken"}
               \/ pc[c] = "sent" /\ completed[c]

OnIrq(c) == irq.pc # "idle" /\ irq.cpu = c

\* rpmh_rsc_cpu_pm_callback, CPU_PM_ENTER up to the check for the last CPU.
CpuPmEnter(c) ==
    /\ ~crashed /\ ~solvable
    /\ cpu[c] = "up" /\ ~Runnable(c) /\ ~OnIrq(c)
    /\ cpus_in_pm' = cpus_in_pm + 1
    /\ cpu' = [cpu EXCEPT ![c] = IF cpus_in_pm + 1 < Cardinality(Client)
                                 THEN "down" ELSE "last"]
    /\ UNCHANGED <<conf, solver, lockvars, irq_status, pc, call, completed,
                   irq, crashed, served, clean, async>>

\* NOTIFY_BAD: this CPU is not told CPU_PM_ENTER_FAILED.
NotCounted == cpus_in_pm - 1

\* Another CPU holds drv->lock: it is in a critical section of its own.
LockHeldBy(d) == cpu[d] = "up" /\ (\/ pc[d] \in {"send", "woken"}
                                   \/ OnIrq(d) /\ irq.pc = "release")

\* ... and from the spin_trylock on.  rpmh_flush writes the cached votes, or
\* finds that the wake TCSes still hold them; it fails when there is no room
\* or the cache is locked.
CpuPmLast(c) ==
    /\ ~crashed /\ cpu[c] = "last"
    /\ \/ /\ \E d \in Client \ {c} : LockHeldBy(d)            \* trylock fails
          /\ cpu' = [cpu EXCEPT ![c] = "down"]
          /\ UNCHANGED <<cpus_in_pm, enabled, clean>>
       \/ /\ cpu' = [cpu EXCEPT ![c] = "up"]                  \* NOTIFY_BAD
          /\ cpus_in_pm' = NotCounted
          /\ UNCHANGED <<enabled, clean>>
       \/ /\ ~rpmh_rsc_ctrlr_is_busy                          \* rpmh_flush
          /\ cpu' = [cpu EXCEPT ![c] = "down"]
          /\ clean' = TRUE
          /\ enabled' \in {enabled, IF borrowed THEN [t \in Tcs |-> {WakeSet}]
                                    ELSE enabled}
          /\ UNCHANGED cpus_in_pm
    /\ UNCHANGED <<conf, solver, in_use, req, irq_enable, xfer, irq_status, pc,
                   call, completed, irq, crashed, served, async>>

\* CPU_PM_EXIT
CpuPmExit(c) ==
    /\ ~crashed /\ cpu[c] = "down"
    /\ cpu' = [cpu EXCEPT ![c] = "up"]
    /\ cpus_in_pm' = cpus_in_pm - 1
    /\ UNCHANGED <<conf, solver, lockvars, irq_status, pc, call, completed,
                   irq, crashed, served, clean, async>>

\* The kernel has stopped in BUG().
Halted == crashed /\ UNCHANGED vars

-----------------------------------------------------------------------------
Init ==
    /\ borrowed \in BOOLEAN /\ solvable \in BOOLEAN
    /\ solver = FALSE
    /\ in_use = {}
    /\ req = [t \in Tcs |-> None]
    /\ enabled = [t \in Tcs |-> {}]
    /\ irq_enable = [t \in Tcs |-> ~borrowed]
    /\ irq_status = [t \in Tcs |-> FALSE]
    /\ xfer = [t \in Tcs |-> None]
    /\ pc = [c \in Client |-> "idle"]
    /\ call \in [Client -> {[n |-> 0, kind |-> "write", addr |-> a] :
                              a \in {CHOOSE b \in Addr : TRUE}}]
    /\ completed = [c \in Client |-> FALSE]
    /\ irq = NoIrq
    /\ cpu = [c \in Client |-> "up"]
    /\ cpus_in_pm = 0
    /\ crashed = FALSE
    /\ served = {}
    /\ clean = TRUE
    /\ async = FALSE

IrqStep == IrqReclaim \/ IrqRelease \/ IrqDone

Next ==
    \/ \E c \in Client, a \in Addr : \E k \in Calls[c] : rpmh_write(c, k, a)
    \/ \E c \in Client : \/ rpmh_rsc_send_data(c)
                         \/ Return(c)
                         \/ Timeout(c)
                         \/ IrqEnter(c)
                         \/ CpuPmEnter(c)
                         \/ CpuPmLast(c)
                         \/ CpuPmExit(c)
    \/ \E t \in Tcs : HwDone(t)
    \/ IrqStep
    \/ \E e \in BOOLEAN : rpmh_rsc_mode_solver_set(e)
    \/ Halted

Spec == Init /\ [][Next]_vars

\* A CPU with something to do comes out of idle.
WakeCpu(c) == CpuPmExit(c) /\ (Runnable(c) \/ Raised # {})

\* Runnable clients run, the hardware finishes what it was given, CPUs with
\* something to do wake up, and a raised interrupt is taken by a CPU that
\* keeps coming up.  Timeouts and calls need not happen.
FairSpec ==
    /\ Spec
    /\ \A c \in Client : /\ WF_vars(rpmh_rsc_send_data(c))
                         /\ WF_vars(Return(c))
                         /\ WF_vars(CpuPmLast(c))
                         /\ WF_vars(WakeCpu(c))
    /\ \A t \in Tcs : WF_vars(HwDone(t))
    /\ SF_vars(\E c \in Client : IrqEnter(c))
    /\ WF_vars(IrqStep)

-----------------------------------------------------------------------------
(* Properties *)

\* Every variable has its type; cpus_in_pm never leaves the number of CPUs,
\* however entries, refusals and exits interleave.
TypeOK ==
    /\ borrowed \in BOOLEAN /\ solvable \in BOOLEAN /\ solver \in BOOLEAN
    /\ in_use \subseteq Tcs
    /\ req \in [Tcs -> Request \cup {None}]
    /\ enabled \in [Tcs -> SUBSET (Addr \cup {WakeSet})]
    /\ irq_enable \in [Tcs -> BOOLEAN] /\ irq_status \in [Tcs -> BOOLEAN]
    /\ xfer \in [Tcs -> Request \cup {None}]
    /\ pc \in [Client -> {"idle", "send", "asleep", "woken", "sent"}]
    /\ call \in [Client -> [n : Nat, kind : CallKinds, addr : Addr]]
    /\ \A c \in Client : call[c].n <= MaxCalls[c]
    /\ completed \in [Client -> BOOLEAN]
    /\ irq.pc \in {"idle", "reclaim", "release", "done"}
    /\ cpu \in [Client -> {"up", "last", "down"}]
    /\ cpus_in_pm \in 0 .. Cardinality(Client)
    /\ crashed \in BOOLEAN /\ async \in BOOLEAN /\ clean \in BOOLEAN
    /\ served \subseteq Request

\* An asynchronous vote went out on a borrowed wake TCS.  Its interrupt comes
\* after the TCS was given away again, and the handler then takes the TCS from
\* whoever has it (tcs_tx_done, clear_bit and CMD_ENABLE 0): nothing below is
\* claimed for such a controller.
Mixed == borrowed /\ async

\* What a TCS with a waiting client executes are that client's commands:
\* neither a flush from the CPU notifier nor the reclaiming interrupt handler
\* changes the commands of a transfer in flight (rpmh_rsc_cpu_pm_callback,
\* tcs_tx_done).
TransferIntact ==
    ~Mixed => \A t \in Tcs, c \in Client :
        xfer[t] = Req(c) /\ Waits(c) => enabled[t] = {call[c].addr}

\* Two votes somebody waits for are never in flight to the same address
\* (check_for_req_inflight: "The h/w does not like if we send a request to
\* the same address").
WaitedOnePerAddress ==
    ~Mixed => \A c, d \in Client : \A t, u \in Tcs :
        /\ xfer[t] = Req(c) /\ xfer[u] = Req(d)
        /\ Waits(c) /\ Waits(d)
        /\ call[c].addr = call[d].addr
        => t = u

\* rpmh_write and rpmh_write_batch return 0 only after the hardware has
\* executed the commands of this very call (tcs_tx_done, rpmh_tx_done).
CompletedIsServed ==
    ~Mixed => \A c \in Client : completed[c] => Req(c) \in served

\* The request of a TCS in use, and the one the handler is about to complete,
\* lies on the stack of a client that is still waiting for it, timeouts
\* included: rpmh_rsc_debug stops the system rather than return while a TCS is
\* in use.  Between releasing the TCS and completing the request a timeout of
\* rpmh_write can still return first; that window is left out.
RequestIsLive ==
    ~Mixed /\ ~crashed =>
        /\ \A t \in in_use : Live(req[t])
        /\ irq.pc \in {"reclaim", "release"} => Live(irq.req)

\* When every CPU is down, all votes made have been flushed and no TCS with a
\* waiting client is in use: the notifier neither misses the last CPU nor lets
\* it go while the controller is busy (rpmh_rsc_cpu_pm_callback: "If another
\* CPU came up just after we checked ... we'll notice we're busy and abort").
AllDownIsFlushed ==
    (\A c \in Client : cpu[c] = "down") => clean /\ in_use = {}

\* Solver mode is not entered while a waited vote is in flight
\* (rpmh_rsc_mode_solver_set).
SolverFindsIdle ==
    [][~Mixed /\ ~solver /\ solver' =>
          \A t \in Tcs, c \in Client : ~(xfer[t] = Req(c) /\ Waits(c))]_vars

\* A call returns or the system is stopped: a client waiting for a TCS, or for
\* somebody else's transfer to the same address, gets on
\* (rpmh_rsc_send_data: "It better be there eventually!"), and the interrupt
\* of its own transfer reaches it.  Once asynchronous votes are sent this is
\* not so: the end of one wakes nobody.
CallReturns ==
    \A c \in Client : pc[c] = "send" ~> (pc[c] = "idle" \/ crashed \/ async)

\* Two votes are never in flight to the same address, whoever waits for them.
OnePerAddress ==
    \A t, u \in Tcs : t # u /\ xfer[t] # None /\ xfer[u] # None =>
        enabled[t] \cap enabled[u] = {}

=============================================================================
