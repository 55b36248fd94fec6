--------------------------- MODULE RpmhRscProofs ----------------------------
(***************************************************************************)
(* Proofs about RpmhRsc, for any number of clients, addresses and TCSes.   *)
(***************************************************************************)
EXTENDS RpmhRsc, FiniteSetTheorems, WellFoundedInduction,
        TLAPS

\* The time a leaf may take, in seconds.
USE SMTT(20)

(***************************************************************************)
(* Types.  The count of CPUs is left to the last section.                  *)
(***************************************************************************)
IrqType == [pc : {"idle", "reclaim", "release", "done"},
            cpu : Client \cup {None}, tcs : Nat, todo : SUBSET Tcs,
            req : Request \cup {None}]

Flags ==
    /\ borrowed \in BOOLEAN /\ solvable \in BOOLEAN /\ solver \in BOOLEAN
    /\ irq_enable \in [Tcs -> BOOLEAN] /\ irq_status \in [Tcs -> BOOLEAN]
    /\ completed \in [Client -> BOOLEAN]
    /\ crashed \in BOOLEAN /\ async \in BOOLEAN /\ clean \in BOOLEAN

Shapes ==
    /\ in_use \in SUBSET Tcs
    /\ req \in [Tcs -> Request \cup {None}]
    /\ enabled \in [Tcs -> SUBSET (Addr \cup {WakeSet})]
    /\ xfer \in [Tcs -> Request \cup {None}]
    /\ pc \in [Client -> {"idle", "send", "asleep", "woken", "sent"}]
    /\ call \in [Client -> [n : Nat, kind : CallKinds, addr : Addr]]
    /\ \A c \in Client : call[c].n <= MaxCalls[c]
    /\ irq \in IrqType
    /\ cpu \in [Client -> {"up", "last", "down"}]
    /\ served \in SUBSET Request

Types == Flags /\ Shapes

(***************************************************************************)
(* The inductive invariant.  Requests are numbered by their calls, so a    *)
(* request that a TCS, the handler or the history knows is never one that  *)
(* a client has yet to send (Known, Unsent); this needs no assumption on   *)
(* the controller.  Unless the controller is Mixed, a TCS in use has a     *)
(* waiting client (InUse, Distinct), a waited transfer is in a TCS in use  *)
(* (Flight), interrupts come only from TCSes in use whose transfer is over *)
(* (Raises, Status), and the handler works on such a TCS (Handler).        *)
(***************************************************************************)
OfCall(r) == r # None => r[2] <= call[r[1]].n

Known ==
    /\ \A r \in served : OfCall(r)
    /\ \A t \in Tcs : OfCall(xfer[t]) /\ OfCall(req[t])
    /\ OfCall(irq.req)

Unsent ==
    \A c \in Client : pc[c] \in {"send", "asleep", "woken"} =>
        /\ Req(c) \notin served /\ irq.req # Req(c)
        /\ \A t \in Tcs : xfer[t] # Req(c) /\ req[t] # Req(c)

InUse ==
    \A t \in in_use : \E c \in Client :
        /\ req[t] = Req(c) /\ Waits(c) /\ pc[c] = "sent" /\ ~completed[c]
        /\ xfer[t] # Req(c) => xfer[t] = None /\ Req(c) \in served

Distinct == \A t, u \in in_use : req[t] = req[u] => t = u

Flight ==
    \A t \in Tcs, c \in Client : xfer[t] = Req(c) /\ Waits(c) =>
        t \in in_use /\ req[t] = Req(c) /\ enabled[t] = {call[c].addr}

Raises == \A t \in Tcs : xfer[t] # None /\ irq_enable[t] => t \in in_use

Status == \A t \in Tcs : irq_status[t] => t \in in_use /\ xfer[t] = None

Handler ==
    /\ irq.pc \in {"reclaim", "release"} =>
          /\ irq.tcs \in in_use /\ xfer[irq.tcs] = None
          /\ irq.req = req[irq.tcs]
    /\ irq.pc = "release" => ~irq_status[irq.tcs]
    /\ irq.pc = "done" =>
          irq.req \in served /\ \A t \in in_use : req[t] # irq.req
    /\ irq.pc # "idle" => \A t \in irq.todo : irq_status[t] /\ t # irq.tcs

Done == \A c \in Client : completed[c] => Req(c) \in served

OneAddress ==
    \A t, u \in Tcs, c, d \in Client :
        /\ xfer[t] = Req(c) /\ xfer[u] = Req(d) /\ Waits(c) /\ Waits(d)
        /\ call[c].addr = call[d].addr
        => t = u

TcsInv == /\ InUse /\ Distinct /\ Flight /\ Raises /\ Status /\ Handler
          /\ Done /\ OneAddress

Inv == Types /\ Known /\ Unsent /\ (~Mixed => TcsInv)

\* The least of a set of TCSes.
LEMMA LeastIn ==
    ASSUME NEW S \in SUBSET Tcs, S # {}
    PROVE  Least(S) \in S
<1>1. S \subseteq Nat
  BY RscAssumption DEF Tcs
<1>2. PICK x \in S : \A y \in S : ~(<<y, x>> \in OpToRel(<, Nat))
  BY <1>1, NatLessThanWellFounded, WFMin, Zenon
<1>3. \A y \in S : x <= y
  <2>1. OpToRel(<, Nat) = {ss \in Nat \X Nat : ss[1] < ss[2]}
    BY Zenon DEF OpToRel
  <2>2. \A y \in S : <<y, x>> \notin {ss \in Nat \X Nat : ss[1] < ss[2]}
    BY <1>2, <2>1, Zenon
  <2>3. SUFFICES ASSUME NEW y \in S, ~(x <= y)
                 PROVE  FALSE
    BY Zenon
  <2>4. x \in Nat /\ y \in Nat /\ y < x
    BY <1>1, <2>3
  <2>5. <<y, x>> \in {ss \in Nat \X Nat : ss[1] < ss[2]}
    BY <2>4, Zenon
  <2>6. QED
    BY <2>2, <2>5, Zenon
<1>4. QED
  BY <1>3, Zenon DEF Least

\* What the handler looks at next is one of the TCSes it was given.
LEMMA NextIrqType ==
    ASSUME Shapes, NEW S \in SUBSET Tcs, NEW c \in Client \cup {None}
    PROVE  /\ NextIrq(S, c) \in IrqType
           /\ S # {} => /\ NextIrq(S, c).tcs \in S
                        /\ NextIrq(S, c).pc = "reclaim"
                        /\ NextIrq(S, c).todo = S \ {NextIrq(S, c).tcs}
                        /\ NextIrq(S, c).req = req[NextIrq(S, c).tcs]
           /\ S = {} => NextIrq(S, c) = NoIrq
           /\ NextIrq(S, c).req = None \/ \E t \in Tcs : NextIrq(S, c).req = req[t]
<1>1. CASE S = {}
  BY <1>1, RscAssumption, Zenon DEF NextIrq, NoIrq, IrqType
<1>2. CASE S # {}
  <2>1. Least(S) \in S /\ Least(S) \in Tcs
    BY <1>2, LeastIn, Zenon
  <2>2. Least(S) \in Nat
    BY <2>1, RscAssumption DEF Tcs
  <2>3. NextIrq(S, c) = [pc |-> "reclaim", cpu |-> c, tcs |-> Least(S),
                         todo |-> S \ {Least(S)}, req |-> req[Least(S)]]
    BY <1>2, Zenon DEF NextIrq
  <2>4. req[Least(S)] \in Request \cup {None}
    BY <2>1, Zenon DEF Shapes
  <2>5. QED
    BY <1>2, <2>1, <2>2, <2>3, <2>4 DEF IrqType
<1>3. QED
  BY <1>1, <1>2, Zenon

\* The request of a client is a request, and tells the client.
LEMMA ReqFacts ==
    ASSUME Shapes, NEW c \in Client
    PROVE  /\ Req(c) \in Request /\ Req(c) # None
           /\ Req(c)[1] = c /\ Req(c)[2] = call[c].n
           /\ \A d \in Client : Req(c) = Req(d) => c = d
BY RscAssumption DEF Shapes, Req, Request

\* The initial state is of the right types.
LEMMA TypesInit == Init => Types
<1> SUFFICES ASSUME Init PROVE Types
  BY Zenon
<1>1. (CHOOSE b \in Addr : TRUE) \in Addr
  BY RscAssumption, Zenon
<1>2. call \in [Client -> [n : Nat, kind : CallKinds, addr : Addr]]
      /\ \A c \in Client : call[c].n = 0
  BY <1>1 DEF Init, CallKinds
<1>3. irq \in IrqType
  BY RscAssumption, Zenon DEF Init, IrqType, NoIrq
<1>4. Shapes
  BY <1>2, <1>3, RscAssumption DEF Init, Shapes
<1>5. Flags
  BY Zenon DEF Init, Flags
<1>6. QED
  BY <1>4, <1>5, Zenon DEF Types

\* Every step keeps the Boolean variables Boolean.
LEMMA FlagsNext == Flags /\ [Next]_vars => Flags'
<1> SUFFICES ASSUME Flags, [Next]_vars PROVE Flags'
  BY Zenon
<1> USE DEF lockvars, pmvars, conf
<1>1. ASSUME NEW c \in Client, NEW a \in Addr, NEW k \in Calls[c],
             rpmh_write(c, k, a)
      PROVE  Flags'
  BY <1>1, Zenon DEF rpmh_write, Flags
<1>2. ASSUME NEW c \in Client, rpmh_rsc_send_data(c)
      PROVE  Flags'
  <2>1. irq_enable' \in [Tcs -> BOOLEAN]
    BY <1>2, Zenon DEF rpmh_rsc_send_data, Claim, Flags
  <2>2. async' \in BOOLEAN
    BY <1>2, Zenon DEF rpmh_rsc_send_data, Flags
  <2>3. QED
    BY <1>2, <2>1, <2>2, Zenon DEF rpmh_rsc_send_data, Flags
<1>3. ASSUME NEW c \in Client, Return(c) \/ Timeout(c)
      PROVE  Flags'
  BY <1>3, Zenon DEF Return, Timeout, Flags
<1>4. ASSUME NEW c \in Client, IrqEnter(c)
      PROVE  Flags'
  BY <1>4, Zenon DEF IrqEnter, Flags
<1>5. ASSUME NEW c \in Client, CpuPmEnter(c) \/ CpuPmLast(c) \/ CpuPmExit(c)
      PROVE  Flags'
  BY <1>5, Zenon DEF CpuPmEnter, CpuPmLast, CpuPmExit, Flags
<1>6. ASSUME NEW t \in Tcs, HwDone(t)
      PROVE  Flags'
  BY <1>6, Zenon DEF HwDone, Flags
<1>7. CASE IrqReclaim
  BY <1>7, Zenon DEF IrqReclaim, Flags
<1>8. CASE IrqRelease
  BY <1>8, Zenon DEF IrqRelease, Flags
<1>9. CASE IrqDone
  BY <1>9, Zenon DEF IrqDone, Flags
<1>10. ASSUME NEW e \in BOOLEAN, rpmh_rsc_mode_solver_set(e)
       PROVE  Flags'
  BY <1>10, Zenon DEF rpmh_rsc_mode_solver_set, Flags
<1>11. CASE Halted \/ UNCHANGED vars
  BY <1>11, Zenon DEF Halted, vars, Flags
<1>12. QED
  BY <1>1, <1>2, <1>3, <1>4, <1>5, <1>6, <1>7, <1>8, <1>9, <1>10, <1>11, Zenon
     DEF Next, IrqStep

\* Every step keeps the types of the TCSes, the calls and the handler.
LEMMA ShapesNext == Shapes /\ [Next]_vars => Shapes'
<1> SUFFICES ASSUME Shapes, [Next]_vars PROVE Shapes'
  BY Zenon
<1> USE DEF lockvars, pmvars, conf
<1>1. ASSUME NEW c \in Client, NEW a \in Addr, NEW k \in Calls[c],
             rpmh_write(c, k, a)
      PROVE  Shapes'
  <2>1. k \in CallKinds
    BY RscAssumption, Zenon
  <2>2. MaxCalls[c] \in Nat
    BY RscAssumption, Zenon
  <2>3. QED
    BY <1>1, <2>1, <2>2 DEF rpmh_write, Shapes
<1>2. ASSUME NEW c \in Client, rpmh_rsc_send_data(c)
      PROVE  Shapes'
  <2>1. Req(c) \in Request
    BY ReqFacts, Zenon
  <2>2. wake_up(pc) \in [Client -> {"idle", "send", "asleep", "woken", "sent"}]
    BY Zenon DEF wake_up, Shapes
  <2>3. call[c].addr \in Addr
    BY Zenon DEF Shapes
  <2>4. claim_tcs_for_req(c) \subseteq Tcs
    BY Zenon DEF claim_tcs_for_req, find_free_tcs, Free
  <2>5. CASE UNCHANGED lockvars
    BY <1>2, <2>2, <2>5, Zenon DEF rpmh_rsc_send_data, Shapes
  <2>6. ASSUME NEW t \in claim_tcs_for_req(c), Claim(c, t)
        PROVE  Shapes'
    <3>1. pc' \in [Client -> {"idle", "send", "asleep", "woken", "sent"}]
      BY <1>2, <2>2 DEF rpmh_rsc_send_data, Shapes
    <3>2. in_use' \in SUBSET Tcs
      BY <2>4, <2>6, Zenon DEF Claim, Shapes
    <3>3. /\ req' \in [Tcs -> Request \cup {None}]
          /\ xfer' \in [Tcs -> Request \cup {None}]
      <4>1. /\ req' = [req EXCEPT ![t] = Req(c)]
            /\ xfer' = [xfer EXCEPT ![t] = Req(c)]
        BY <2>6, Zenon DEF Claim
      <4>2. QED
        BY <2>1, <4>1, Zenon DEF Shapes
    <3>4. {call[c].addr} \in SUBSET (Addr \cup {WakeSet})
      BY <2>3, Zenon
    <3>5. enabled' \in [Tcs -> SUBSET (Addr \cup {WakeSet})]
      <4>1. enabled' = [enabled EXCEPT ![t] = {call[c].addr}]
        BY <2>6, Zenon DEF Claim
      <4>2. QED
        BY <3>4, <4>1, Zenon DEF Shapes
    <3>6. UNCHANGED <<call, irq, cpu, served>>
      BY <1>2, Zenon DEF rpmh_rsc_send_data
    <3>7. QED
      BY <3>1, <3>2, <3>3, <3>5, <3>6, Zenon DEF Shapes
  <2>7. QED
    BY <1>2, <2>5, <2>6, Zenon DEF rpmh_rsc_send_data
<1>3. ASSUME NEW c \in Client, Return(c) \/ Timeout(c)
      PROVE  Shapes'
  BY <1>3, Zenon DEF Return, Timeout, Shapes
<1>4. ASSUME NEW c \in Client, IrqEnter(c)
      PROVE  Shapes'
  <2>1. Raised \in SUBSET Tcs
    BY Zenon DEF Raised
  <2>2. irq' \in IrqType
    BY <1>4, <2>1, NextIrqType, Zenon DEF IrqEnter
  <2>3. QED
    BY <1>4, <2>2, Zenon DEF IrqEnter, Shapes
<1>5. ASSUME NEW c \in Client, CpuPmEnter(c) \/ CpuPmLast(c) \/ CpuPmExit(c)
      PROVE  Shapes'
  <2>1. [t \in Tcs |-> {WakeSet}] \in [Tcs -> SUBSET (Addr \cup {WakeSet})]
    BY Zenon
  <2>2. enabled' \in [Tcs -> SUBSET (Addr \cup {WakeSet})]
    BY <1>5, <2>1, Zenon DEF CpuPmEnter, CpuPmLast, CpuPmExit, Shapes
  <2>3. cpu' \in [Client -> {"up", "last", "down"}]
    BY <1>5, Zenon DEF CpuPmEnter, CpuPmLast, CpuPmExit, Shapes
  <2>4. UNCHANGED <<in_use, req, xfer, pc, call, irq, served>>
    BY <1>5, Zenon DEF CpuPmEnter, CpuPmLast, CpuPmExit
  <2>5. QED
    BY <2>2, <2>3, <2>4, Zenon DEF Shapes
<1>6. ASSUME NEW t \in Tcs, HwDone(t)
      PROVE  Shapes'
  <2>1. /\ xfer' = [xfer EXCEPT ![t] = None]
        /\ served' = served \cup {xfer[t]} /\ xfer[t] # None
        /\ UNCHANGED <<in_use, req, enabled, pc, call, irq, cpu>>
    BY <1>6, Zenon DEF HwDone
  <2>2. QED
    BY <2>1, Zenon DEF Shapes
<1>7. CASE IrqReclaim
  <2>1. enabled' \in [Tcs -> SUBSET (Addr \cup {WakeSet})]
    BY <1>7, Zenon DEF IrqReclaim, Shapes
  <2>2. irq' \in IrqType
    BY <1>7, Zenon DEF IrqReclaim, Shapes, IrqType
  <2>3. UNCHANGED <<in_use, req, xfer, pc, call, cpu, served>>
    BY <1>7, Zenon DEF IrqReclaim
  <2>4. QED
    BY <2>1, <2>2, <2>3, Zenon DEF Shapes
<1>8. CASE IrqRelease
  <2>1. wake_up(pc) \in [Client -> {"idle", "send", "asleep", "woken", "sent"}]
    BY Zenon DEF wake_up, Shapes
  <2>2. QED
    BY <1>8, <2>1, Zenon DEF IrqRelease, Shapes, IrqType
<1>9. CASE IrqDone
  <2>1. irq.todo \in SUBSET Tcs /\ irq.cpu \in Client \cup {None}
    BY Zenon DEF Shapes, IrqType
  <2>2. irq' \in IrqType
    BY <1>9, <2>1, NextIrqType, Zenon DEF IrqDone
  <2>3. QED
    BY <1>9, <2>2, Zenon DEF IrqDone, Shapes
<1>10. ASSUME NEW e \in BOOLEAN, rpmh_rsc_mode_solver_set(e)
       PROVE  Shapes'
  BY <1>10, Zenon DEF rpmh_rsc_mode_solver_set, Shapes
<1>11. CASE Halted \/ UNCHANGED vars
  BY <1>11, Zenon DEF Halted, vars, Shapes
<1>12. QED
  BY <1>1, <1>2, <1>3, <1>4, <1>5, <1>6, <1>7, <1>8, <1>9, <1>10, <1>11, Zenon
     DEF Next, IrqStep

(***************************************************************************)
(* Known and Unsent.                                                       *)
(***************************************************************************)
\* A new call has a new number.
LEMMA NewCall ==
    ASSUME Shapes, Known, NEW c \in Client, NEW a \in Addr, NEW k \in Calls[c],
           rpmh_write(c, k, a)
    PROVE  /\ \A d \in Client : d # c => call'[d] = call[d] /\ Req(d)' = Req(d)
           /\ Req(c)' \notin served /\ irq.req # Req(c)'
           /\ \A t \in Tcs : xfer[t] # Req(c)' /\ req[t] # Req(c)'
           /\ Known'
<1>1. call' = [call EXCEPT ![c] = [n |-> call[c].n + 1, kind |-> k,
                                   addr |-> a]]
      /\ UNCHANGED <<served, irq, xfer, req>>
  BY Zenon DEF rpmh_write, lockvars
<1>2. /\ \A d \in Client : d # c => call'[d] = call[d]
      /\ call'[c].n = call[c].n + 1 /\ call[c].n \in Nat
  BY <1>1, Zenon DEF Shapes
<1>3. \A r \in Request \cup {None} : OfCall(r) => r # Req(c)' /\ OfCall(r)'
  BY <1>2, RscAssumption DEF OfCall, Req, Request, Shapes
<1>4. irq.req \in Request \cup {None}
  BY Zenon DEF Shapes, IrqType
<1>5. \A d \in Client : d # c => Req(d)' = Req(d)
  BY <1>2, Zenon DEF Req
<1>6. Known'
  BY <1>1, <1>3, <1>4, Zenon DEF Known, Shapes
<1>7. QED
  BY <1>2, <1>3, <1>4, <1>5, <1>6, Zenon DEF Known, Shapes

\* No TCS, handler or history ever knows a request of a call to come.
LEMMA KnownNext == Shapes /\ Known /\ [Next]_vars => Known'
<1> SUFFICES ASSUME Shapes, Known, [Next]_vars PROVE Known'
  BY Zenon
<1> USE DEF lockvars, pmvars, conf
<1>1. ASSUME NEW c \in Client, NEW a \in Addr, NEW k \in Calls[c],
             rpmh_write(c, k, a)
      PROVE  Known'
  BY <1>1, NewCall, Zenon
<1>2. ASSUME UNCHANGED call
      PROVE  \A r : OfCall(r)' <=> OfCall(r)
  BY <1>2, Zenon DEF OfCall
<1>3. ASSUME NEW c \in Client, rpmh_rsc_send_data(c)
      PROVE  Known'
  <2>1. UNCHANGED <<call, irq, served>>
    BY <1>3, Zenon DEF rpmh_rsc_send_data
  <2>2. OfCall(Req(c))
    BY ReqFacts DEF OfCall, Shapes
  <2>3. CASE UNCHANGED lockvars
    BY <1>2, <2>1, <2>3, Zenon DEF Known
  <2>4. ASSUME NEW t \in claim_tcs_for_req(c), Claim(c, t)
        PROVE  Known'
    <3>1. /\ req' = [req EXCEPT ![t] = Req(c)]
          /\ xfer' = [xfer EXCEPT ![t] = Req(c)]
      BY <2>4, Zenon DEF Claim
    <3>2. \A u \in Tcs : /\ req'[u] = req[u] \/ req'[u] = Req(c)
                         /\ xfer'[u] = xfer[u] \/ xfer'[u] = Req(c)
      BY <3>1, Zenon DEF Shapes
    <3>3. QED
      BY <1>2, <2>1, <2>2, <3>2, Zenon DEF Known
  <2>5. QED
    BY <1>3, <2>3, <2>4, Zenon DEF rpmh_rsc_send_data
<1>4. ASSUME NEW c \in Client,
             \/ Return(c) \/ Timeout(c)
             \/ CpuPmEnter(c) \/ CpuPmLast(c) \/ CpuPmExit(c)
      PROVE  Known'
  <2>1. UNCHANGED <<call, irq, served, xfer, req>>
    BY <1>4, Zenon DEF Return, Timeout, CpuPmEnter, CpuPmLast, CpuPmExit
  <2>2. QED
    BY <1>2, <2>1, Zenon DEF Known
<1>5. ASSUME NEW c \in Client, IrqEnter(c)
      PROVE  Known'
  <2>1. UNCHANGED <<call, served, xfer, req>> /\ irq' = NextIrq(Raised, c)
    BY <1>5, Zenon DEF IrqEnter
  <2>2. Raised \in SUBSET Tcs /\ c \in Client \cup {None}
    BY Zenon DEF Raised
  <2>3. \/ NextIrq(Raised, c).req = None
        \/ \E t \in Tcs : NextIrq(Raised, c).req = req[t]
    BY <2>2, NextIrqType, Zenon
  <2>4. OfCall(None)
    BY Zenon DEF OfCall
  <2>5. QED
    BY <1>2, <2>1, <2>3, <2>4, Zenon DEF Known
<1>6. ASSUME NEW t \in Tcs, HwDone(t)
      PROVE  Known'
  <2>1. /\ xfer' = [xfer EXCEPT ![t] = None]
        /\ served' = served \cup {xfer[t]} /\ UNCHANGED <<req, call, irq>>
    BY <1>6, Zenon DEF HwDone
  <2>2. \A u \in Tcs : xfer'[u] = xfer[u] \/ xfer'[u] = None
    BY <2>1, Zenon DEF Shapes
  <2>3. OfCall(None)
    BY Zenon DEF OfCall
  <2>4. QED
    BY <1>2, <2>1, <2>2, <2>3, Zenon DEF Known
<1>7. CASE IrqReclaim \/ IrqRelease
  <2>1. irq'.req = irq.req
    BY <1>7, Zenon DEF IrqReclaim, IrqRelease, Shapes, IrqType
  <2>2. UNCHANGED <<call, served, xfer, req>>
    BY <1>7, Zenon DEF IrqReclaim, IrqRelease
  <2>3. QED
    BY <1>2, <2>1, <2>2, Zenon DEF Known
<1>8. CASE IrqDone
  <2>1. /\ UNCHANGED <<call, served, xfer, req>>
        /\ irq' = NextIrq(irq.todo, irq.cpu)
    BY <1>8, Zenon DEF IrqDone
  <2>2. irq.todo \in SUBSET Tcs /\ irq.cpu \in Client \cup {None}
    BY Zenon DEF Shapes, IrqType
  <2>3. \/ NextIrq(irq.todo, irq.cpu).req = None
        \/ \E t \in Tcs : NextIrq(irq.todo, irq.cpu).req = req[t]
    BY <2>2, NextIrqType, Zenon
  <2>4. OfCall(None)
    BY Zenon DEF OfCall
  <2>5. QED
    BY <1>2, <2>1, <2>3, <2>4, Zenon DEF Known
<1>9. ASSUME NEW e \in BOOLEAN, rpmh_rsc_mode_solver_set(e)
      PROVE  Known'
  BY <1>2, <1>9, Zenon DEF rpmh_rsc_mode_solver_set, Known
<1>10. CASE Halted \/ UNCHANGED vars
  BY <1>2, <1>10, Zenon DEF Halted, vars, Known
<1>11. QED
  BY <1>1, <1>3, <1>4, <1>5, <1>6, <1>7, <1>8, <1>9, <1>10, Zenon
     DEF Next, IrqStep

Sending(c) == pc[c] \in {"send", "asleep", "woken"}

\* A step without a new call or a new transfer: what becomes known was known.
LEMMA UnsentKept ==
    ASSUME Unsent, UNCHANGED call,
           \A c \in Client : Sending(c)' => Sending(c),
           \A r \in served' : r \in served \/ \E t \in Tcs : r = xfer[t],
           \A t \in Tcs : (xfer'[t] = xfer[t] \/ xfer'[t] = None),
           UNCHANGED req,
           \/ irq'.req = irq.req \/ irq'.req = None
           \/ \E t \in Tcs : irq'.req = req[t],
           Shapes
    PROVE  Unsent'
<1>1. \A c \in Client : Req(c)' = Req(c) /\ Req(c) # None
  BY ReqFacts, Zenon DEF Req
<1>2. SUFFICES ASSUME NEW c \in Client, Sending(c)'
               PROVE  /\ Req(c) \notin served' /\ irq'.req # Req(c)
                      /\ \A t \in Tcs : xfer'[t] # Req(c) /\ req'[t] # Req(c)
  BY <1>1 DEF Unsent, Sending
<1>3. /\ Req(c) \notin served /\ irq.req # Req(c) /\ Req(c) # None
      /\ \A t \in Tcs : xfer[t] # Req(c) /\ req[t] # Req(c)
  BY <1>1, <1>2, Zenon DEF Unsent, Sending
<1>4. Req(c) \notin served'
  BY <1>3, Zenon
<1>5. irq'.req # Req(c)
  BY <1>3, Zenon
<1>6. \A t \in Tcs : xfer'[t] # Req(c) /\ req'[t] # Req(c)
  BY <1>3
<1>7. QED
  BY <1>4, <1>5, <1>6, Zenon

\* A request is unknown to everybody until its client claims a TCS.
LEMMA UnsentNext == Shapes /\ Known /\ Unsent /\ [Next]_vars => Unsent'
<1> SUFFICES ASSUME Shapes, Known, Unsent, [Next]_vars PROVE Unsent'
  BY Zenon
<1> USE DEF lockvars, pmvars, conf
<1>1. ASSUME NEW c \in Client, NEW a \in Addr, NEW k \in Calls[c],
             rpmh_write(c, k, a)
      PROVE  Unsent'
  <2>1. pc' = [pc EXCEPT ![c] = "send"] /\ UNCHANGED <<served, irq, xfer, req>>
    BY <1>1, Zenon DEF rpmh_write
  <2>2. \A d \in Client : d # c => pc'[d] = pc[d]
    BY <2>1, Zenon DEF Shapes
  <2>3. /\ \A d \in Client : d # c => Req(d)' = Req(d)
        /\ Req(c)' \notin served /\ irq.req # Req(c)'
        /\ \A t \in Tcs : xfer[t] # Req(c)' /\ req[t] # Req(c)'
    BY <1>1, NewCall, Zenon
  <2>4. QED
    BY <2>1, <2>2, <2>3, ZenonT(30) DEF Unsent
<1>2. ASSUME NEW c \in Client, rpmh_rsc_send_data(c)
      PROVE  Unsent'
  <2>1. UNCHANGED <<call, irq, served>>
    BY <1>2, Zenon DEF rpmh_rsc_send_data
  <2>2. \A d \in Client : Req(d)' = Req(d)
    BY <2>1, Zenon DEF Req
  <2>3. Sending(c)
    BY <1>2, Zenon DEF rpmh_rsc_send_data, Sending
  <2>4. \A d \in Client : Sending(d)' => Sending(d)
    <3>1. \/ \E v \in {"idle", "asleep", "sent"} : pc' = [pc EXCEPT ![c] = v]
          \/ pc' = [wake_up(pc) EXCEPT ![c] = "idle"]
      BY <1>2, Zenon DEF rpmh_rsc_send_data
    <3>2. CASE \E v \in {"idle", "asleep", "sent"} : pc' = [pc EXCEPT ![c] = v]
      <4>1. \A d \in Client \ {c} : pc'[d] = pc[d]
        BY <3>2, Zenon DEF Shapes
      <4>2. QED
        BY <2>3, <4>1, Zenon DEF Sending
    <3>3. CASE pc' = [wake_up(pc) EXCEPT ![c] = "idle"]
      <4>1. \A d \in Client \ {c} : pc'[d] = wake_up(pc)[d]
        BY <3>3, Zenon DEF Shapes, wake_up
      <4>2. \A d \in Client \ {c} : pc'[d] = pc[d] \/ pc[d] = "asleep"
        BY <4>1, Zenon DEF wake_up
      <4>3. QED
        BY <2>3, <4>2, Zenon DEF Sending
    <3>4. QED
      BY <3>1, <3>2, <3>3, Zenon
  <2>5. CASE UNCHANGED lockvars
    BY <2>1, <2>2, <2>4, <2>5, Zenon DEF Unsent, Sending
  <2>6. ASSUME NEW t \in claim_tcs_for_req(c), Claim(c, t),
               pc' = IF Waits(c) THEN [pc EXCEPT ![c] = "sent"]
                     ELSE [wake_up(pc) EXCEPT ![c] = "idle"]
        PROVE  Unsent'
    <3>1. ~Sending(c)'
      BY <2>6, Zenon DEF Sending, Shapes, wake_up
    <3>2. /\ req' = [req EXCEPT ![t] = Req(c)]
          /\ xfer' = [xfer EXCEPT ![t] = Req(c)]
      BY <2>6, Zenon DEF Claim
    <3>3. \A u \in Tcs : /\ req'[u] = req[u] \/ req'[u] = Req(c)
                         /\ xfer'[u] = xfer[u] \/ xfer'[u] = Req(c)
      BY <3>2, Zenon DEF Shapes
    <3>4. \A d \in Client : d # c => Req(d) # Req(c)
      BY ReqFacts, Zenon
    <3>5. QED
      BY <2>1, <2>2, <2>4, <3>1, <3>3, <3>4, Zenon DEF Unsent, Sending
  <2>7. QED
    BY <1>2, <2>5, <2>6, Zenon DEF rpmh_rsc_send_data
<1>3. ASSUME NEW c \in Client,
             \/ Return(c) \/ Timeout(c)
             \/ CpuPmEnter(c) \/ CpuPmLast(c) \/ CpuPmExit(c)
      PROVE  Unsent'
  <2>1. UNCHANGED <<call, irq, served, xfer, req>>
    BY <1>3, Zenon DEF Return, Timeout, CpuPmEnter, CpuPmLast, CpuPmExit
  <2>2. pc' = pc \/ pc' = [pc EXCEPT ![c] = "idle"]
    BY <1>3, Zenon DEF Return, Timeout, CpuPmEnter, CpuPmLast, CpuPmExit
  <2>3. \A d \in Client : Sending(d)' => Sending(d)
    BY <2>2, Zenon DEF Sending, Shapes
  <2>4. QED
    BY <2>1, <2>3, UnsentKept, Zenon
<1>4. ASSUME NEW c \in Client, IrqEnter(c)
      PROVE  Unsent'
  <2>1. UNCHANGED <<call, served, xfer, req, pc>> /\ irq' = NextIrq(Raised, c)
    BY <1>4, Zenon DEF IrqEnter
  <2>2. Raised \in SUBSET Tcs /\ c \in Client \cup {None}
    BY Zenon DEF Raised
  <2>3. \/ NextIrq(Raised, c).req = None
        \/ \E t \in Tcs : NextIrq(Raised, c).req = req[t]
    BY <2>2, NextIrqType, Zenon
  <2>4. irq'.req = None \/ \E t \in Tcs : irq'.req = req[t]
    BY <2>1, <2>3, Zenon
  <2>5. \A d \in Client : Sending(d)' => Sending(d)
    BY <2>1, Zenon DEF Sending
  <2>6. QED
    BY <2>1, <2>4, <2>5, UnsentKept, Zenon
<1>5. ASSUME NEW t \in Tcs, HwDone(t)
      PROVE  Unsent'
  <2>1. /\ xfer' = [xfer EXCEPT ![t] = None]
        /\ served' = served \cup {xfer[t]} /\ UNCHANGED <<req, call, irq, pc>>
    BY <1>5, Zenon DEF HwDone
  <2>2. \A u \in Tcs : xfer'[u] = xfer[u] \/ xfer'[u] = None
    BY <2>1, Zenon DEF Shapes
  <2>3. \A d \in Client : Sending(d)' => Sending(d)
    BY <2>1, Zenon DEF Sending
  <2>4. \A r \in served' : r \in served \/ \E u \in Tcs : r = xfer[u]
    BY <2>1, Zenon
  <2>5. QED
    BY <2>1, <2>2, <2>3, <2>4, UnsentKept, Zenon
<1>6. CASE IrqReclaim \/ IrqRelease
  <2>1. irq'.req = irq.req
    BY <1>6, Zenon DEF IrqReclaim, IrqRelease, Shapes, IrqType
  <2>2. UNCHANGED <<call, served, xfer, req>>
    BY <1>6, Zenon DEF IrqReclaim, IrqRelease
  <2>3. pc' = pc \/ pc' = wake_up(pc)
    BY <1>6, Zenon DEF IrqReclaim, IrqRelease
  <2>4. \A d \in Client : Sending(d)' => Sending(d)
    BY <2>3, Zenon DEF Sending, wake_up
  <2>5. QED
    BY <2>1, <2>2, <2>4, UnsentKept, Zenon
<1>7. CASE IrqDone
  <2>1. /\ UNCHANGED <<call, served, xfer, req, pc>>
        /\ irq' = NextIrq(irq.todo, irq.cpu)
    BY <1>7, Zenon DEF IrqDone
  <2>2. irq.todo \in SUBSET Tcs /\ irq.cpu \in Client \cup {None}
    BY Zenon DEF Shapes, IrqType
  <2>3. \/ NextIrq(irq.todo, irq.cpu).req = None
        \/ \E t \in Tcs : NextIrq(irq.todo, irq.cpu).req = req[t]
    BY <2>2, NextIrqType, Zenon
  <2>4. irq'.req = None \/ \E t \in Tcs : irq'.req = req[t]
    BY <2>1, <2>3, Zenon
  <2>5. \A d \in Client : Sending(d)' => Sending(d)
    BY <2>1, Zenon DEF Sending
  <2>6. QED
    BY <2>1, <2>4, <2>5, UnsentKept, Zenon
<1>8. ASSUME NEW e \in BOOLEAN, rpmh_rsc_mode_solver_set(e)
      PROVE  Unsent'
  BY <1>8, Zenon DEF rpmh_rsc_mode_solver_set, Unsent, Req
<1>9. CASE Halted \/ UNCHANGED vars
  BY <1>9, Zenon DEF Halted, vars, Unsent, Req
<1>10. QED
  BY <1>1, <1>2, <1>3, <1>4, <1>5, <1>6, <1>7, <1>8, <1>9, Zenon
     DEF Next, IrqStep

(***************************************************************************)
(* TcsInv, action by action.                                               *)
(***************************************************************************)
\* A new call: its request is in no TCS.
LEMMA TcsWrite ==
    ASSUME Types, Known, TcsInv, NEW c \in Client, NEW a \in Addr,
           NEW k \in Calls[c], rpmh_write(c, k, a)
    PROVE  TcsInv'
<1>1. /\ UNCHANGED <<in_use, req, enabled, irq_enable, irq_status, xfer, irq,
                     served>>
      /\ pc[c] = "idle" /\ pc' = [pc EXCEPT ![c] = "send"]
      /\ completed' = [completed EXCEPT ![c] = FALSE]
  BY Zenon DEF rpmh_write, lockvars
<1>2. /\ \A d \in Client : d # c => pc'[d] = pc[d]
      /\ \A d \in Client : d # c => completed'[d] = completed[d]
      /\ ~completed'[c]
  BY <1>1, Zenon DEF Types, Flags, Shapes
<1>3. /\ \A d \in Client : d # c => call'[d] = call[d] /\ Req(d)' = Req(d)
      /\ \A t \in Tcs : xfer[t] # Req(c)'
  BY NewCall, Zenon DEF Types
<1>4. \A d \in Client : d # c => Waits(d)' = Waits(d)
  BY <1>3, Zenon DEF Waits
<1>5. InUse'
  <2>1. SUFFICES ASSUME NEW t \in in_use
                 PROVE  \E d \in Client :
                          /\ req[t] = Req(d)' /\ Waits(d)' /\ pc'[d] = "sent"
                          /\ ~completed'[d]
                          /\ xfer[t] # Req(d)' =>
                                xfer[t] = None /\ Req(d)' \in served
    BY <1>1, Zenon DEF InUse
  <2>2. PICK d \in Client :
               /\ req[t] = Req(d) /\ Waits(d) /\ pc[d] = "sent" /\ ~completed[d]
               /\ xfer[t] # Req(d) => xfer[t] = None /\ Req(d) \in served
    BY Zenon DEF InUse, TcsInv
  <2>3. d # c
    BY <1>1, <2>2, Zenon
  <2>4. QED
    BY <1>2, <1>3, <1>4, <2>2, <2>3, Zenon
<1>6. Flight'
  BY <1>1, <1>3, <1>4, ZenonT(30) DEF Flight, TcsInv
<1>7. Distinct' /\ Raises' /\ Status' /\ Handler'
  BY <1>1, Zenon DEF Distinct, Raises, Status, Handler, TcsInv
<1>8. Done'
  BY <1>1, <1>2, <1>3, Zenon DEF Done, TcsInv
<1>9. OneAddress'
  <2>1. SUFFICES ASSUME NEW t \in Tcs, NEW u \in Tcs,
                        NEW d \in Client, NEW e \in Client,
                        xfer[t] = Req(d)', xfer[u] = Req(e)',
                        Waits(d)', Waits(e)', call'[d].addr = call'[e].addr
                 PROVE  t = u
    BY <1>1, Zenon DEF OneAddress
  <2>2. d # c /\ e # c
    BY <1>3, <2>1, Zenon
  <2>3. /\ xfer[t] = Req(d) /\ xfer[u] = Req(e) /\ Waits(d) /\ Waits(e)
        /\ call[d].addr = call[e].addr
    BY <1>3, <1>4, <2>1, <2>2, Zenon
  <2>4. QED
    BY <2>3, Zenon DEF OneAddress, TcsInv
<1>10. QED
  BY <1>5, <1>6, <1>7, <1>8, <1>9, Zenon DEF TcsInv

\* Two waited transfers to one address: kept while neither the transfers nor
\* the calls change.
LEMMA OneAddressKept ==
    ASSUME OneAddress, UNCHANGED <<xfer, call>>
    PROVE  OneAddress'
<1>1. \A d \in Client : Req(d)' = Req(d) /\ Waits(d)' = Waits(d)
  BY Zenon DEF Req, Waits
<1>2. SUFFICES ASSUME NEW t \in Tcs, NEW u \in Tcs,
                      NEW d \in Client, NEW e \in Client,
                      xfer[t] = Req(d)', xfer[u] = Req(e)',
                      Waits(d)', Waits(e)', call[d].addr = call[e].addr
               PROVE  t = u
  BY Zenon DEF OneAddress
<1>3. QED
  BY <1>1, <1>2, Zenon DEF OneAddress

\* Steps that change neither the TCSes nor the clients' requests, and end
\* only calls whose request no TCS in use has.
LEMMA TcsKept ==
    ASSUME TcsInv, UNCHANGED <<in_use, req, enabled, irq_enable, irq_status,
                               xfer, irq, served, call, completed>>,
           \A d \in Client : pc[d] = "sent" =>
              pc'[d] = "sent" \/ \A t \in in_use : req[t] # Req(d)
    PROVE  TcsInv'
<1>1. \A d \in Client : Req(d)' = Req(d) /\ Waits(d)' = Waits(d)
  BY Zenon DEF Req, Waits
<1>2. InUse'
  BY <1>1, Zenon DEF InUse, TcsInv
<1>3. Flight' /\ OneAddress'
  BY <1>1, OneAddressKept, Zenon DEF Flight, TcsInv
<1>4. Distinct' /\ Raises' /\ Status' /\ Handler'
  BY Zenon DEF Distinct, Raises, Status, Handler, TcsInv
<1>5. Done'
  BY <1>1, Zenon DEF Done, TcsInv
<1>6. QED
  BY <1>2, <1>3, <1>4, <1>5, Zenon DEF TcsInv

\* A call returns with its completion, or times out while no TCS is in use.
LEMMA TcsEnd ==
    ASSUME Types, TcsInv, NEW c \in Client, Return(c) \/ Timeout(c)
    PROVE  TcsInv'
<1>1. UNCHANGED <<in_use, req, enabled, irq_enable, irq_status, xfer, irq,
                  served, call, completed>>
  BY Zenon DEF Return, Timeout, lockvars
<1>2. \/ UNCHANGED pc
      \/ pc' = [pc EXCEPT ![c] = "idle"] /\ (completed[c] \/ in_use = {})
  BY Zenon DEF Return, Timeout, BugOnTimeout
<1>3. \A d \in Client : d # c => pc'[d] = pc[d]
  BY <1>2, Zenon DEF Types, Shapes
<1>4. completed[c] => \A t \in in_use : req[t] # Req(c)
  <2>1. SUFFICES ASSUME completed[c], NEW t \in in_use, req[t] = Req(c)
                 PROVE  FALSE
    BY Zenon
  <2>2. PICK d \in Client : req[t] = Req(d) /\ ~completed[d]
    BY Zenon DEF TcsInv, InUse
  <2>3. d = c
    BY <2>1, <2>2, ReqFacts, ZenonT(30) DEF Types
  <2>4. QED
    BY <2>1, <2>2, <2>3, Zenon
<1>5. \A d \in Client : pc[d] = "sent" =>
              pc'[d] = "sent" \/ \A t \in in_use : req[t] # Req(d)
  BY <1>2, <1>3, <1>4, Zenon
<1>6. QED
  BY <1>1, <1>5, TcsKept, Zenon

\* A client that claims a TCS: the request is new to everybody, the TCS is
\* free and idle, and nobody waits for a transfer to the same address.
LEMMA TcsClaim ==
    ASSUME Types, Unsent, TcsInv, ~Mixed', NEW c \in Client,
           rpmh_rsc_send_data(c), NEW t \in claim_tcs_for_req(c), Claim(c, t),
           pc[c] \in {"send", "woken"},
           pc' = IF Waits(c) THEN [pc EXCEPT ![c] = "sent"]
                 ELSE [wake_up(pc) EXCEPT ![c] = "idle"],
           async' = (async \/ ~Waits(c))
    PROVE  TcsInv'
<1>1. UNCHANGED <<borrowed, irq_status, call, completed, irq, served>>
  BY Zenon DEF rpmh_rsc_send_data, conf
<1>2. /\ t \in Tcs /\ t \notin in_use /\ xfer[t] = None
      /\ \A u \in in_use : call[c].addr \notin enabled[u]
  BY Zenon DEF claim_tcs_for_req, find_free_tcs, Free, NotInflight
<1>3. /\ Req(c) \notin served /\ irq.req # Req(c)
      /\ \A u \in Tcs : xfer[u] # Req(c) /\ req[u] # Req(c)
  BY Zenon DEF Unsent
<1>4. /\ \A d \in Client : Req(d)' = Req(d) /\ Waits(d)' = Waits(d)
      /\ \A d \in Client : Req(d) # None
      /\ \A d \in Client : Req(d) = Req(c) => d = c
  <2>1. \A d \in Client : Req(d)' = Req(d) /\ Waits(d)' = Waits(d)
    BY <1>1, Zenon DEF Req, Waits
  <2>2. QED
    BY <2>1, ReqFacts, Zenon DEF Types
<1>5. /\ xfer'[t] = Req(c) /\ \A u \in Tcs : u # t => xfer'[u] = xfer[u]
      /\ req'[t] = Req(c) /\ \A u \in Tcs : u # t => req'[u] = req[u]
      /\ enabled'[t] = {call[c].addr}
      /\ \A u \in Tcs : u # t => enabled'[u] = enabled[u]
      /\ \A u \in Tcs : u # t => irq_enable'[u] = irq_enable[u]
  BY <1>2, Zenon DEF Claim, Types, Flags, Shapes
<1>6. irq_enable'[t] => Waits(c)
  <2>1. Waits(c) \/ ~borrowed
    BY <1>1, Zenon DEF Mixed
  <2>2. irq_enable'[t] = (Waits(c) \/ borrowed)
    BY <1>2, Zenon DEF Claim, Types, Flags
  <2>3. QED
    BY <2>1, <2>2, Zenon
<1>7. /\ Waits(c) => in_use' = in_use \cup {t}
      /\ ~Waits(c) => in_use' = in_use
  BY Zenon DEF Claim
<1>8. /\ \A d \in Client : pc[d] = "sent" => pc'[d] = "sent"
      /\ Waits(c) => pc'[c] = "sent"
  <2>1. CASE Waits(c)
    <3>1. pc' = [pc EXCEPT ![c] = "sent"]
      BY <2>1, Zenon
    <3>2. QED
      BY <3>1, Zenon DEF Types, Shapes
  <2>2. CASE ~Waits(c)
    <3>1. pc' = [wake_up(pc) EXCEPT ![c] = "idle"]
      BY <2>2, Zenon
    <3>2. \A d \in Client : d # c => pc'[d] = wake_up(pc)[d]
      BY <3>1, Zenon DEF wake_up
    <3>3. \A d \in Client : pc[d] = "sent" => wake_up(pc)[d] = "sent"
      BY Zenon DEF wake_up
    <3>4. pc[c] # "sent"
      BY Zenon
    <3>5. QED
      BY <2>2, <3>2, <3>3, <3>4, Zenon
  <2>3. QED
    BY <2>1, <2>2, Zenon
<1>9. in_use \subseteq Tcs /\ in_use \subseteq in_use' /\ in_use' \subseteq in_use \cup {t}
  BY <1>7, Zenon DEF Types, Shapes
<1>10. InUse'
  <2>1. SUFFICES ASSUME NEW u \in in_use'
                 PROVE  \E d \in Client :
                          /\ req'[u] = Req(d)' /\ Waits(d)' /\ pc'[d] = "sent"
                          /\ ~completed'[d]
                          /\ xfer'[u] # Req(d)' =>
                                xfer'[u] = None /\ Req(d)' \in served'
    BY Zenon DEF InUse
  <2>2. CASE u \in in_use
    <3>1. PICK d \in Client :
                 /\ req[u] = Req(d) /\ Waits(d) /\ pc[d] = "sent" /\ ~completed[d]
                 /\ xfer[u] # Req(d) => xfer[u] = None /\ Req(d) \in served
      BY <2>2, Zenon DEF InUse, TcsInv
    <3>2. u # t /\ u \in Tcs
      BY <1>2, <1>9, <2>2, Zenon
    <3>3. QED
      BY <1>1, <1>4, <1>5, <1>8, <3>1, <3>2, Zenon
  <2>3. CASE u \notin in_use
    <3>1. u = t /\ Waits(c)
      BY <1>7, <1>9, <2>1, <2>3, Zenon
    <3>2. ~completed[c]
      BY <1>3, Zenon DEF Done, TcsInv
    <3>3. /\ req'[u] = Req(c)' /\ Waits(c)' /\ pc'[c] = "sent"
          /\ ~completed'[c] /\ xfer'[u] = Req(c)'
      BY <1>1, <1>4, <1>5, <1>8, <3>1, <3>2, Zenon
    <3>4. QED
      BY <3>3, Zenon
  <2>4. QED
    BY <2>2, <2>3, Zenon
<1>11. Distinct'
  <2>1. \A u \in in_use : u \in Tcs /\ u # t /\ req'[u] = req[u] /\ req[u] # Req(c)
    BY <1>2, <1>3, <1>5, <1>9, Zenon
  <2>2. SUFFICES ASSUME NEW u \in in_use', NEW v \in in_use', req'[u] = req'[v]
                 PROVE  u = v
    BY Zenon DEF Distinct
  <2>3. /\ u = t \/ u \in in_use
        /\ v = t \/ v \in in_use
    BY <1>9, Zenon
  <2>4. CASE u \in in_use /\ v \in in_use
    BY <2>1, <2>2, <2>4, Zenon DEF Distinct, TcsInv
  <2>5. CASE u = t /\ v \in in_use
    BY <1>5, <2>1, <2>2, <2>5, Zenon
  <2>6. CASE u \in in_use /\ v = t
    BY <1>5, <2>1, <2>2, <2>6, Zenon
  <2>7. QED
    BY <2>3, <2>4, <2>5, <2>6, Zenon
<1>12. Flight'
  <2>1. SUFFICES ASSUME NEW u \in Tcs, NEW d \in Client,
                        xfer'[u] = Req(d)', Waits(d)'
                 PROVE  /\ u \in in_use' /\ req'[u] = Req(d)'
                        /\ enabled'[u] = {call'[d].addr}
    BY Zenon DEF Flight
  <2>2. CASE u = t
    <3>1. d = c
      <4>1. Req(d)' = Req(c)
        BY <1>5, <2>1, <2>2, Zenon
      <4>2. QED
        BY <1>4, <4>1, Zenon
    <3>2. t \in in_use'
      BY <1>4, <1>7, <2>1, <3>1, Zenon
    <3>3. QED
      BY <1>1, <1>4, <1>5, <2>2, <3>1, <3>2, Zenon
  <2>3. CASE u # t
    <3>1. xfer[u] = Req(d) /\ Waits(d)
      BY <1>4, <1>5, <2>1, <2>3, Zenon
    <3>2. u \in in_use /\ req[u] = Req(d) /\ enabled[u] = {call[d].addr}
      BY <3>1, Zenon DEF Flight, TcsInv
    <3>3. QED
      BY <1>1, <1>4, <1>5, <1>9, <2>3, <3>2, Zenon
  <2>4. QED
    BY <2>2, <2>3, Zenon
<1>13. Raises'
  BY <1>5, <1>6, <1>7, <1>9, Zenon DEF Raises, TcsInv
<1>14. Status'
  BY <1>1, <1>2, <1>5, <1>9, Zenon DEF Status, TcsInv
<1>15. Handler'
  <2>1. \A u \in in_use : u \in Tcs /\ u # t /\ req'[u] = req[u] /\ xfer'[u] = xfer[u]
    BY <1>2, <1>5, <1>9, Zenon
  <2>2. \A u \in in_use' : req'[u] = irq.req => u \in in_use
    BY <1>3, <1>5, <1>9, Zenon
  <2>3. QED
    BY <1>1, <1>9, <2>1, <2>2, Zenon DEF Handler, TcsInv
<1>16. Done'
  BY <1>1, <1>4, Zenon DEF Done, TcsInv
<1>17. OneAddress'
  <2>1. \A u \in Tcs, d \in Client :
           xfer[u] = Req(d) /\ Waits(d) => call[d].addr # call[c].addr
    BY <1>2, Zenon DEF Flight, TcsInv
  <2>2. SUFFICES ASSUME NEW u \in Tcs, NEW v \in Tcs,
                        NEW d \in Client, NEW e \in Client,
                        xfer'[u] = Req(d)', xfer'[v] = Req(e)',
                        Waits(d)', Waits(e)', call'[d].addr = call'[e].addr
                 PROVE  u = v
    BY Zenon DEF OneAddress
  <2>3. /\ u = t => d = c
        /\ v = t => e = c
        /\ u # t => xfer[u] = Req(d)
        /\ v # t => xfer[v] = Req(e)
        /\ Waits(d) /\ Waits(e) /\ call[d].addr = call[e].addr
    <3>1. xfer'[u] = Req(d) /\ xfer'[v] = Req(e)
      BY <1>4, <2>2, Zenon
    <3>2. Waits(d) /\ Waits(e) /\ call[d].addr = call[e].addr
      BY <1>1, <1>4, <2>2, Zenon
    <3>3. (u = t => d = c) /\ (u # t => xfer[u] = Req(d))
      BY <1>4, <1>5, <3>1, Zenon
    <3>4. (v = t => e = c) /\ (v # t => xfer[v] = Req(e))
      BY <1>4, <1>5, <3>1, Zenon
    <3>5. QED
      BY <3>2, <3>3, <3>4, Zenon
  <2>4. (u = t /\ v = t) \/ (u # t /\ v # t)
    BY <2>1, <2>3, Zenon
  <2>5. QED
    BY <2>3, <2>4, Zenon DEF OneAddress, TcsInv
<1>18. QED
  BY <1>10, <1>11, <1>12, <1>13, <1>14, <1>15, <1>16, <1>17, Zenon DEF TcsInv

\* rpmh_rsc_send_data: refused, put to sleep, or a TCS is claimed.
LEMMA TcsSend ==
    ASSUME Types, Unsent, TcsInv, ~Mixed', NEW c \in Client,
           rpmh_rsc_send_data(c)
    PROVE  TcsInv'
<1>1. UNCHANGED <<irq_status, irq, served, call, completed>>
  BY Zenon DEF rpmh_rsc_send_data
<1>2. pc[c] \in {"send", "woken"}
  BY Zenon DEF rpmh_rsc_send_data
<1>3. CASE UNCHANGED lockvars /\ \E v : pc' = [pc EXCEPT ![c] = v]
  <2>1. \A d \in Client : d # c => pc'[d] = pc[d]
    BY <1>3, Zenon DEF Types, Shapes
  <2>2. UNCHANGED <<in_use, req, enabled, irq_enable, xfer>>
    BY <1>3, Zenon DEF lockvars
  <2>3. pc[c] # "sent"
    BY <1>2, Zenon
  <2>4. \A d \in Client : pc[d] = "sent" =>
              pc'[d] = "sent" \/ \A u \in in_use : req[u] # Req(d)
    BY <2>1, <2>3, Zenon
  <2>5. QED
    BY <1>1, <2>2, <2>4, TcsKept, Zenon
<1>4. CASE /\ \E t \in claim_tcs_for_req(c) : Claim(c, t)
           /\ pc' = IF Waits(c) THEN [pc EXCEPT ![c] = "sent"]
                   ELSE [wake_up(pc) EXCEPT ![c] = "idle"]
           /\ async' = (async \/ ~Waits(c))
  <2>1. PICK t \in claim_tcs_for_req(c) : Claim(c, t)
    BY <1>4, Zenon
  <2>2. QED
    BY <1>2, <1>4, <2>1, TcsClaim, Zenon
<1>5. QED
  BY <1>3, <1>4, Zenon DEF rpmh_rsc_send_data

\* The hardware ends the transfer of t.
LEMMA TcsHwDone ==
    ASSUME Types, TcsInv, NEW t \in Tcs, HwDone(t)
    PROVE  TcsInv'
<1>1. /\ UNCHANGED <<in_use, req, enabled, irq_enable, irq, call, completed, pc>>
      /\ served' = served \cup {xfer[t]} /\ xfer[t] # None
  BY Zenon DEF HwDone
<1>2. \A d \in Client : Req(d)' = Req(d) /\ Waits(d)' = Waits(d) /\ Req(d) # None
  <2>1. \A d \in Client : Req(d)' = Req(d) /\ Waits(d)' = Waits(d)
    BY <1>1, Zenon DEF Req, Waits
  <2>2. QED
    BY <2>1, ReqFacts, Zenon DEF Types
<1>3. xfer'[t] = None /\ \A u \in Tcs : u # t => xfer'[u] = xfer[u]
  BY Zenon DEF HwDone, Types, Shapes
<1>4. /\ irq_status'[t] = (irq_status[t] \/ irq_enable[t])
      /\ \A u \in Tcs : u # t => irq_status'[u] = irq_status[u]
  BY Zenon DEF HwDone, Types, Flags
<1>5. in_use \subseteq Tcs
  BY Zenon DEF Types, Shapes
<1>6. \A u \in Tcs, d \in Client : xfer'[u] = Req(d) => xfer[u] = Req(d)
  BY <1>2, <1>3, Zenon
<1>7. InUse'
  <2>1. SUFFICES ASSUME NEW u \in in_use
                 PROVE  \E d \in Client :
                          /\ req[u] = Req(d) /\ Waits(d) /\ pc[d] = "sent"
                          /\ ~completed[d]
                          /\ xfer'[u] # Req(d) =>
                                xfer'[u] = None /\ Req(d) \in served'
    BY <1>1, <1>2, Zenon DEF InUse
  <2>2. PICK d \in Client :
               /\ req[u] = Req(d) /\ Waits(d) /\ pc[d] = "sent" /\ ~completed[d]
               /\ xfer[u] # Req(d) => xfer[u] = None /\ Req(d) \in served
    BY Zenon DEF InUse, TcsInv
  <2>3. u \in Tcs
    BY <1>5, Zenon
  <2>4. CASE u = t
    BY <1>1, <1>3, <2>2, <2>4, Zenon
  <2>5. CASE u # t
    BY <1>1, <1>3, <2>2, <2>3, <2>5, Zenon
  <2>6. QED
    BY <2>4, <2>5, Zenon
<1>8. Flight'
  <2>1. SUFFICES ASSUME NEW u \in Tcs, NEW d \in Client, xfer'[u] = Req(d),
                        Waits(d)
                 PROVE  /\ u \in in_use /\ req[u] = Req(d)
                        /\ enabled[u] = {call[d].addr}
    BY <1>1, <1>2, ZenonT(30) DEF Flight
  <2>2. QED
    BY <1>6, <2>1, Zenon DEF Flight, TcsInv
<1>9. Distinct'
  BY <1>1, Zenon DEF Distinct, TcsInv
<1>10. Raises'
  BY <1>1, <1>3, Zenon DEF Raises, TcsInv
<1>11. Status'
  BY <1>1, <1>3, <1>4, Zenon DEF Status, Raises, TcsInv
<1>12. Handler'
  <2>1. \A u \in Tcs : xfer[u] = None => xfer'[u] = None /\ u # t
    BY <1>1, <1>3, Zenon
  <2>2. \A u \in Tcs : irq_status[u] => irq_status'[u]
    BY <1>4, Zenon
  <2>3. irq.todo \subseteq Tcs
    BY Zenon DEF Types, Shapes, IrqType
  <2>4. QED
    BY <1>1, <1>4, <1>5, <2>1, <2>2, <2>3, Zenon DEF Handler, TcsInv
<1>13. Done'
  BY <1>1, <1>2, Zenon DEF Done, TcsInv
<1>14. OneAddress'
  <2>1. SUFFICES ASSUME NEW u \in Tcs, NEW v \in Tcs,
                        NEW d \in Client, NEW e \in Client,
                        xfer'[u] = Req(d), xfer'[v] = Req(e),
                        Waits(d), Waits(e), call[d].addr = call[e].addr
                 PROVE  u = v
    BY <1>1, <1>2, Zenon DEF OneAddress
  <2>2. xfer[u] = Req(d) /\ xfer[v] = Req(e)
    BY <1>6, <2>1, Zenon
  <2>3. QED
    BY <2>1, <2>2, Zenon DEF OneAddress, TcsInv
<1>15. QED
  BY <1>7, <1>8, <1>9, <1>10, <1>11, <1>12, <1>13, <1>14, Zenon DEF TcsInv

\* The handler turns to a TCS that has raised its interrupt.
LEMMA HandlerNext ==
    ASSUME Types, Status, NEW S \in SUBSET Tcs, \A u \in S : irq_status[u],
           NEW c \in Client \cup {None}, irq' = NextIrq(S, c),
           UNCHANGED <<in_use, xfer, req, irq_status>>
    PROVE  Handler'
<1>1. /\ S # {} => /\ irq'.tcs \in S /\ irq'.pc = "reclaim"
                   /\ irq'.todo = S \ {irq'.tcs}
                   /\ irq'.req = req[irq'.tcs]
      /\ S = {} => irq' = NoIrq
  BY NextIrqType, ZenonT(30) DEF Types
<1>2. CASE S = {}
  <2>1. irq'.pc = "idle"
    BY <1>1, <1>2 DEF NoIrq
  <2>2. QED
    BY <2>1, Zenon DEF Handler
<1>3. CASE S # {}
  <2>1. irq'.tcs \in in_use /\ xfer[irq'.tcs] = None
    BY <1>1, <1>3, Zenon DEF Status
  <2>2. irq'.pc # "release" /\ irq'.pc # "done"
    BY <1>1, <1>3, Zenon
  <2>3. \A u \in irq'.todo : irq_status[u] /\ u # irq'.tcs
    BY <1>1, <1>3, Zenon
  <2>4. QED
    BY <1>1, <1>3, <2>1, <2>2, <2>3, Zenon DEF Handler
<1>4. QED
  BY <1>2, <1>3, Zenon

\* tcs_tx_done reads IRQ_STATUS.
LEMMA TcsEnter ==
    ASSUME Types, TcsInv, NEW c \in Client, IrqEnter(c)
    PROVE  TcsInv'
<1>1. /\ UNCHANGED <<in_use, req, enabled, irq_enable, irq_status, xfer, pc,
                     call, completed, served>>
      /\ irq' = NextIrq(Raised, c)
  BY Zenon DEF IrqEnter, lockvars
<1>2. Raised \in SUBSET Tcs /\ \A u \in Raised : irq_status[u]
  BY Zenon DEF Raised
<1>3. Status /\ c \in Client \cup {None}
  BY Zenon DEF TcsInv
<1>4. Handler'
  BY <1>1, <1>2, <1>3, HandlerNext, Zenon
<1>5. \A d \in Client : Req(d)' = Req(d) /\ Waits(d)' = Waits(d)
  BY <1>1, Zenon DEF Req, Waits
<1>6. InUse' /\ Distinct' /\ Raises' /\ Status'
  BY <1>1, <1>5, Zenon DEF InUse, Distinct, Raises, Status, TcsInv
<1>7. Flight' /\ Done'
  BY <1>1, <1>5, Zenon DEF Flight, Done, TcsInv
<1>8. OneAddress'
  BY <1>1, OneAddressKept, Zenon DEF TcsInv
<1>9. QED
  BY <1>4, <1>6, <1>7, <1>8, Zenon DEF TcsInv

\* The commands of the TCS are disabled and its interrupt cleared.
LEMMA TcsReclaim ==
    ASSUME Types, TcsInv, IrqReclaim
    PROVE  TcsInv'
<1>1. /\ UNCHANGED <<in_use, req, irq_enable, xfer, pc, call, completed, served>>
      /\ irq.pc = "reclaim"
  BY Zenon DEF IrqReclaim
<1>2. /\ irq'.pc = "release" /\ irq'.tcs = irq.tcs /\ irq'.todo = irq.todo
      /\ irq'.req = irq.req
  BY Zenon DEF IrqReclaim, Types, Shapes, IrqType
<1>3. /\ irq.tcs \in in_use /\ irq.tcs \in Tcs /\ xfer[irq.tcs] = None
      /\ irq.req = req[irq.tcs]
      /\ \A u \in irq.todo : irq_status[u] /\ u # irq.tcs
  <2>1. irq.pc \in {"reclaim", "release"} /\ irq.pc # "idle"
    BY <1>1, Zenon
  <2>2. QED
    BY <2>1, Zenon DEF TcsInv, Handler, Types, Shapes
<1>4. \A u \in Tcs : u # irq.tcs => enabled'[u] = enabled[u]
  BY Zenon DEF IrqReclaim, Types, Shapes
<1>5. /\ ~irq_status'[irq.tcs]
      /\ \A u \in Tcs : u # irq.tcs => irq_status'[u] = irq_status[u]
  BY <1>3, Zenon DEF IrqReclaim, Types, Flags
<1>6. /\ \A d \in Client : Req(d)' = Req(d) /\ Waits(d)' = Waits(d)
      /\ \A d \in Client : Req(d) # None
  <2>1. \A d \in Client : Req(d)' = Req(d) /\ Waits(d)' = Waits(d)
    BY <1>1, Zenon DEF Req, Waits
  <2>2. QED
    BY <2>1, ReqFacts, Zenon DEF Types
<1>7. InUse' /\ Distinct' /\ Raises'
  <2>1. InUse'
    BY <1>1, <1>6, Zenon DEF InUse, TcsInv
  <2>2. QED
    BY <1>1, <2>1, Zenon DEF Distinct, Raises, TcsInv
<1>8. Flight'
  <2>1. SUFFICES ASSUME NEW u \in Tcs, NEW d \in Client, xfer[u] = Req(d),
                        Waits(d)
                 PROVE  /\ u \in in_use /\ req[u] = Req(d)
                        /\ enabled'[u] = {call[d].addr}
    BY <1>1, <1>6, Zenon DEF Flight
  <2>2. u # irq.tcs
    BY <1>3, <1>6, <2>1, Zenon
  <2>3. QED
    BY <1>4, <2>1, <2>2, Zenon DEF Flight, TcsInv
<1>9. Status'
  BY <1>1, <1>5, Zenon DEF Status, TcsInv
<1>10. Handler'
  <2>1. irq'.pc # "done" /\ irq.todo \subseteq Tcs
    BY <1>2, Zenon DEF Types, Shapes, IrqType
  <2>2. \A u \in irq.todo : irq_status'[u] /\ u # irq.tcs
    BY <1>3, <1>5, <2>1, Zenon
  <2>3. QED
    BY <1>1, <1>2, <1>3, <1>5, <2>1, <2>2, Zenon DEF Handler
<1>11. Done'
  BY <1>1, <1>6, Zenon DEF Done, TcsInv
<1>12. OneAddress'
  BY <1>1, OneAddressKept, Zenon DEF TcsInv
<1>13. QED
  BY <1>7, <1>8, <1>9, <1>10, <1>11, <1>12, Zenon DEF TcsInv

\* The TCS is given back: its transfer has been served, and no other TCS in
\* use has the same request.
LEMMA TcsRelease ==
    ASSUME Types, TcsInv, IrqRelease
    PROVE  TcsInv'
<1>1. /\ UNCHANGED <<req, enabled, irq_status, xfer, call, completed, served>>
      /\ irq.pc = "release" /\ in_use' = in_use \ {irq.tcs} /\ pc' = wake_up(pc)
  BY Zenon DEF IrqRelease
<1>2. /\ irq'.pc = "done" /\ irq'.tcs = irq.tcs /\ irq'.todo = irq.todo
      /\ irq'.req = irq.req
  BY Zenon DEF IrqRelease, Types, Shapes, IrqType
<1>3. /\ irq.tcs \in in_use /\ irq.tcs \in Tcs /\ xfer[irq.tcs] = None
      /\ irq.req = req[irq.tcs] /\ ~irq_status[irq.tcs]
      /\ \A u \in irq.todo : irq_status[u] /\ u # irq.tcs
  <2>1. irq.pc \in {"reclaim", "release"} /\ irq.pc # "idle"
    BY <1>1, Zenon
  <2>2. QED
    BY <1>1, <2>1, Zenon DEF TcsInv, Handler, Types, Shapes
<1>4. \A u \in Tcs : u # irq.tcs => irq_enable'[u] = irq_enable[u]
  BY Zenon DEF IrqRelease, Types, Flags
<1>5. \A d \in Client : pc[d] = "sent" => pc'[d] = "sent"
  BY <1>1, Zenon DEF wake_up
<1>6. /\ \A d \in Client : Req(d)' = Req(d) /\ Waits(d)' = Waits(d)
      /\ \A d \in Client : Req(d) # None
  <2>1. \A d \in Client : Req(d)' = Req(d) /\ Waits(d)' = Waits(d)
    BY <1>1, Zenon DEF Req, Waits
  <2>2. QED
    BY <2>1, ReqFacts, Zenon DEF Types
<1>7. InUse'
  <2>1. SUFFICES ASSUME NEW u \in in_use
                 PROVE  \E d \in Client :
                          /\ req[u] = Req(d) /\ Waits(d) /\ pc'[d] = "sent"
                          /\ ~completed[d]
                          /\ xfer[u] # Req(d) =>
                                xfer[u] = None /\ Req(d) \in served
    <3>1. /\ UNCHANGED <<req, xfer, completed, served>>
          /\ in_use' \subseteq in_use
      BY <1>1, ZenonT(30)
    <3>2. QED
      BY <1>6, <3>1, Zenon DEF InUse
  <2>2. PICK d \in Client :
               /\ req[u] = Req(d) /\ Waits(d) /\ pc[d] = "sent" /\ ~completed[d]
               /\ xfer[u] # Req(d) => xfer[u] = None /\ Req(d) \in served
    BY Zenon DEF InUse, TcsInv
  <2>3. QED
    BY <1>5, <2>2, Zenon
<1>8. Distinct'
  BY <1>1, Zenon DEF Distinct, TcsInv
<1>9. Flight'
  <2>1. SUFFICES ASSUME NEW u \in Tcs, NEW d \in Client, xfer[u] = Req(d),
                        Waits(d)
                 PROVE  /\ u \in in_use' /\ req[u] = Req(d)
                        /\ enabled[u] = {call[d].addr}
    <3>1. UNCHANGED <<xfer, req, enabled, call>>
      BY <1>1, Zenon
    <3>2. QED
      BY <1>6, <3>1, Zenon DEF Flight
  <2>2. u # irq.tcs
    BY <1>3, <1>6, <2>1, Zenon
  <2>3. QED
    BY <1>1, <2>1, <2>2, Zenon DEF Flight, TcsInv
<1>10. Raises'
  BY <1>1, <1>3, <1>4, Zenon DEF Raises, TcsInv
<1>11. Status'
  BY <1>1, <1>3, Zenon DEF Status, TcsInv
<1>12. Handler'
  <2>1. irq'.pc \notin {"reclaim", "release"} /\ irq'.pc # "release"
    BY <1>2, Zenon
  <2>2. irq.req \in served
    <3>1. PICK d \in Client :
                 /\ req[irq.tcs] = Req(d)
                 /\ xfer[irq.tcs] # Req(d) =>
                       xfer[irq.tcs] = None /\ Req(d) \in served
      BY <1>3, Zenon DEF InUse, TcsInv
    <3>2. QED
      BY <1>3, <1>6, <3>1, Zenon
  <2>3. \A u \in in_use' : req[u] # irq.req
    BY <1>1, <1>3, Zenon DEF Distinct, TcsInv
  <2>4. QED
    BY <1>1, <1>2, <1>3, <2>1, <2>2, <2>3, Zenon DEF Handler
<1>13. Done'
  BY <1>1, <1>6, Zenon DEF Done, TcsInv
<1>14. OneAddress'
  BY <1>1, OneAddressKept, Zenon DEF TcsInv
<1>15. QED
  BY <1>7, <1>8, <1>9, <1>10, <1>11, <1>12, <1>13, <1>14, Zenon DEF TcsInv

\* The request is completed; it has been served, and no TCS in use has it.
LEMMA TcsIrqDone ==
    ASSUME Types, TcsInv, IrqDone
    PROVE  TcsInv'
<1>1. /\ UNCHANGED <<in_use, req, enabled, irq_enable, irq_status, xfer, pc,
                     call, served>>
      /\ irq.pc = "done" /\ irq' = NextIrq(irq.todo, irq.cpu)
  BY Zenon DEF IrqDone, lockvars
<1>2. \A d \in Client : completed'[d] => completed[d] \/ irq.req = Req(d)
  BY Zenon DEF IrqDone, StashedRequest
<1>3. /\ irq.req \in served /\ \A u \in in_use : req[u] # irq.req
      /\ \A u \in irq.todo : irq_status[u]
  <2>1. irq.pc # "idle"
    BY <1>1, Zenon
  <2>2. QED
    BY <1>1, <2>1, Zenon DEF Handler, TcsInv
<1>4. \A d \in Client : Req(d)' = Req(d) /\ Waits(d)' = Waits(d)
  BY <1>1, Zenon DEF Req, Waits
<1>5. InUse'
  <2>1. SUFFICES ASSUME NEW u \in in_use
                 PROVE  \E d \in Client :
                          /\ req[u] = Req(d) /\ Waits(d) /\ pc[d] = "sent"
                          /\ ~completed'[d]
                          /\ xfer[u] # Req(d) =>
                                xfer[u] = None /\ Req(d) \in served
    BY <1>1, <1>4, Zenon DEF InUse
  <2>2. PICK d \in Client :
               /\ req[u] = Req(d) /\ Waits(d) /\ pc[d] = "sent" /\ ~completed[d]
               /\ xfer[u] # Req(d) => xfer[u] = None /\ Req(d) \in served
    BY Zenon DEF InUse, TcsInv
  <2>3. ~completed'[d]
    BY <1>2, <1>3, <2>2, Zenon
  <2>4. QED
    BY <2>2, <2>3, Zenon
<1>6. Handler'
  <2>1. irq.todo \in SUBSET Tcs /\ irq.cpu \in Client \cup {None}
    BY Zenon DEF Types, Shapes, IrqType
  <2>2. Status
    BY Zenon DEF TcsInv
  <2>3. QED
    BY <1>1, <1>3, <2>1, <2>2, HandlerNext, Zenon
<1>7. Distinct' /\ Raises' /\ Status'
  BY <1>1, Zenon DEF Distinct, Raises, Status, TcsInv
<1>8. Flight'
  BY <1>1, <1>4, Zenon DEF Flight, TcsInv
<1>9. Done'
  BY <1>1, <1>2, <1>3, <1>4, Zenon DEF Done, TcsInv
<1>10. OneAddress'
  BY <1>1, OneAddressKept, Zenon DEF TcsInv
<1>11. QED
  BY <1>5, <1>6, <1>7, <1>8, <1>9, <1>10, Zenon DEF TcsInv

\* The CPU notifier flushes only while no TCS is in use.
LEMMA TcsPmLast ==
    ASSUME Types, TcsInv, NEW c \in Client, CpuPmLast(c)
    PROVE  TcsInv'
<1>1. UNCHANGED <<in_use, req, irq_enable, xfer, irq_status, pc, call,
                  completed, irq, served>>
  BY Zenon DEF CpuPmLast
<1>2. enabled' = enabled \/ in_use = {}
  BY Zenon DEF CpuPmLast, rpmh_rsc_ctrlr_is_busy
<1>3. CASE enabled' = enabled
  BY <1>1, <1>3, TcsKept, Zenon
<1>4. CASE in_use = {}
  <2>1. \A d \in Client : Req(d)' = Req(d) /\ Waits(d)' = Waits(d)
    BY <1>1, Zenon DEF Req, Waits
  <2>2. Flight'
    BY <1>1, <1>4, <2>1, Zenon DEF Flight, TcsInv
  <2>3. InUse' /\ Distinct'
    BY <1>1, <1>4, Zenon DEF InUse, Distinct
  <2>4. Raises' /\ Status' /\ Handler'
    BY <1>1, Zenon DEF Raises, Status, Handler, TcsInv
  <2>5. Done'
    BY <1>1, <2>1, Zenon DEF Done, TcsInv
  <2>6. OneAddress'
    BY <1>1, OneAddressKept, Zenon DEF TcsInv
  <2>7. QED
    BY <2>2, <2>3, <2>4, <2>5, <2>6, Zenon DEF TcsInv
<1>5. QED
  BY <1>2, <1>3, <1>4, Zenon

\* TcsInv is kept by every step that leaves the controller unmixed.
LEMMA TcsNext ==
    ASSUME Types, Known, Unsent, ~Mixed => TcsInv, [Next]_vars
    PROVE  ~Mixed' => TcsInv'
<1> SUFFICES ASSUME ~Mixed'
             PROVE  TcsInv'
  BY Zenon
<1>1. borrowed' = borrowed /\ (async => async')
  <2>1. /\ borrowed' = borrowed
        /\ async' = async \/ \E c \in Client : async' = (async \/ ~Waits(c))
    BY Zenon
       DEF Next, rpmh_write, rpmh_rsc_send_data, Return, Timeout, IrqEnter,
         CpuPmEnter, CpuPmLast, CpuPmExit, HwDone, IrqStep, IrqReclaim,
         IrqRelease, IrqDone, rpmh_rsc_mode_solver_set, Halted, conf, vars
  <2>2. QED
    BY <2>1, Zenon DEF Types, Flags
<1>2. TcsInv
  BY <1>1, Zenon DEF Mixed
<1>3. ASSUME NEW c \in Client, NEW a \in Addr, NEW k \in Calls[c],
             rpmh_write(c, k, a)
      PROVE  TcsInv'
  BY <1>2, <1>3, TcsWrite, Zenon
<1>4. ASSUME NEW c \in Client, rpmh_rsc_send_data(c)
      PROVE  TcsInv'
  BY <1>2, <1>4, TcsSend, Zenon
<1>5. ASSUME NEW c \in Client, Return(c) \/ Timeout(c)
      PROVE  TcsInv'
  BY <1>2, <1>5, TcsEnd, Zenon
<1>6. ASSUME NEW c \in Client, IrqEnter(c)
      PROVE  TcsInv'
  BY <1>2, <1>6, TcsEnter, Zenon
<1>7. ASSUME NEW c \in Client, CpuPmLast(c)
      PROVE  TcsInv'
  BY <1>2, <1>7, TcsPmLast, Zenon
<1>8. ASSUME NEW t \in Tcs, HwDone(t)
      PROVE  TcsInv'
  BY <1>2, <1>8, TcsHwDone, Zenon
<1>9. CASE IrqStep
  BY <1>2, <1>9, TcsReclaim, TcsRelease, TcsIrqDone, Zenon DEF IrqStep
<1>10. ASSUME \/ \E c \in Client : CpuPmEnter(c) \/ CpuPmExit(c)
              \/ \E e \in BOOLEAN : rpmh_rsc_mode_solver_set(e)
              \/ Halted
              \/ UNCHANGED vars
       PROVE  TcsInv'
  <2>1. UNCHANGED <<in_use, req, enabled, irq_enable, irq_status, xfer, irq,
                    served, call, completed, pc>>
    BY <1>10, Zenon
       DEF CpuPmEnter, CpuPmExit, rpmh_rsc_mode_solver_set, Halted, lockvars,
         vars
  <2>2. QED
    BY <1>2, <2>1, TcsKept, Zenon
<1>11. QED
  BY <1>3, <1>4, <1>5, <1>6, <1>7, <1>8, <1>9, <1>10, Zenon DEF Next

\* Initially nothing is in flight and nobody has called.
LEMMA InvInit == Init => Inv
<1> SUFFICES ASSUME Init
             PROVE  Inv
  BY Zenon
<1>1. Types
  BY TypesInit, Zenon
<1>2. irq.req = None /\ irq.pc = "idle"
  BY Zenon DEF Init, NoIrq
<1>3. /\ in_use = {} /\ served = {}
      /\ \A t \in Tcs : xfer[t] = None /\ req[t] = None /\ ~irq_status[t]
      /\ \A c \in Client : pc[c] = "idle" /\ ~completed[c]
  BY Zenon DEF Init
<1>4. \A c \in Client : Req(c) # None
  BY <1>1, ReqFacts, Zenon DEF Types
<1>5. Known
  BY <1>2, <1>3, Zenon DEF Known, OfCall
<1>6. Unsent
  BY <1>3, Zenon DEF Unsent
<1>7. InUse /\ Distinct /\ Flight /\ Raises /\ Status /\ Done
  BY <1>3, <1>4, Zenon DEF InUse, Distinct, Flight, Raises, Status, Done
<1>8. OneAddress
  BY <1>3, <1>4, Zenon DEF OneAddress
<1>9. Handler
  BY <1>2, Zenon DEF Handler
<1>10. QED
  BY <1>1, <1>5, <1>6, <1>7, <1>8, <1>9, Zenon DEF Inv, TcsInv

\* Inv is inductive: whatever the clients, the hardware, the interrupt handler
\* and the CPU notifier do.
THEOREM Invariance == Spec => []Inv
<1>1. Inv /\ [Next]_vars => Inv'
  <2> SUFFICES ASSUME Inv, [Next]_vars
               PROVE  Inv'
    BY Zenon
  <2>1. Types /\ Known /\ Unsent /\ (~Mixed => TcsInv)
    BY Zenon DEF Inv
  <2>2. Types'
    BY <2>1, FlagsNext, ShapesNext, Zenon DEF Types
  <2>3. Known'
    BY <2>1, KnownNext, Zenon DEF Types
  <2>4. Unsent'
    BY <2>1, UnsentNext, Zenon DEF Types
  <2>5. ~Mixed' => TcsInv'
    BY <2>1, TcsNext, Zenon
  <2>6. QED
    BY <2>2, <2>3, <2>4, <2>5, Zenon DEF Inv
<1>2. QED
  BY <1>1, InvInit, PTL DEF Spec

\* No flush and no reclaiming interrupt handler changes the commands of a
\* transfer somebody waits for.
THEOREM TransferSafe == Spec => []TransferIntact
<1>1. Inv => TransferIntact
  BY Zenon DEF Inv, TcsInv, Flight, TransferIntact
<1>2. QED
  BY <1>1, Invariance, PTL

\* Two votes somebody waits for are never in flight to the same address.
THEOREM AddressSafe == Spec => []WaitedOnePerAddress
<1>1. Inv => WaitedOnePerAddress
  <2> SUFFICES ASSUME Inv, ~Mixed, NEW c \in Client, NEW d \in Client,
                      NEW t \in Tcs, NEW u \in Tcs,
                      xfer[t] = Req(c), xfer[u] = Req(d), Waits(c), Waits(d),
                      call[c].addr = call[d].addr
               PROVE  t = u
    BY Zenon DEF WaitedOnePerAddress
  <2>1. QED
    BY Zenon DEF Inv, TcsInv, OneAddress
<1>2. QED
  BY <1>1, Invariance, PTL

\* A call that is told of its completion has been executed by the hardware.
THEOREM CompletionSafe == Spec => []CompletedIsServed
<1>1. Inv => CompletedIsServed
  BY Zenon DEF Inv, TcsInv, Done, CompletedIsServed
<1>2. QED
  BY <1>1, Invariance, PTL

\* The request of a TCS in use, and the one the handler holds until it has
\* released the TCS, lie on the stack of a client that still waits.
THEOREM RequestSafe == Spec => []RequestIsLive
<1>1. Inv => RequestIsLive
  <2> SUFFICES ASSUME Inv, ~Mixed
               PROVE  /\ \A t \in in_use : Live(req[t])
                      /\ irq.pc \in {"reclaim", "release"} => Live(irq.req)
    BY Zenon DEF RequestIsLive
  <2>1. ASSUME NEW t \in in_use
        PROVE  Live(req[t])
    <3>1. PICK c \in Client : req[t] = Req(c) /\ pc[c] = "sent"
      BY Zenon DEF Inv, TcsInv, InUse
    <3>2. Req(c) # None
      BY ReqFacts, Zenon DEF Inv, Types
    <3>3. Req(c)[1] = c
      BY Zenon DEF Req
    <3>4. QED
      BY <3>1, <3>2, <3>3, Zenon DEF Live
  <2>2. QED
    BY <2>1, Zenon DEF Inv, TcsInv, Handler
<1>2. QED
  BY <1>1, Invariance, PTL

\* rpmh_rsc_mode_solver_set enters solver mode only with nothing in flight
\* that somebody waits for.
THEOREM SolverSafe == Spec => SolverFindsIdle
<1>1. Inv /\ [Next]_vars =>
         [~Mixed /\ ~solver /\ solver' =>
            \A t \in Tcs, c \in Client : ~(xfer[t] = Req(c) /\ Waits(c))]_vars
  <2> SUFFICES ASSUME Inv, Next, ~Mixed, ~solver, solver',
                      NEW t \in Tcs, NEW c \in Client, xfer[t] = Req(c), Waits(c)
               PROVE  FALSE
    BY Zenon
  <2>1. t \in in_use
    BY Zenon DEF Inv, TcsInv, Flight
  <2>2. solver' # solver
    BY Zenon
  <2>3. PICK e \in BOOLEAN : rpmh_rsc_mode_solver_set(e)
    BY <2>2, Zenon DEF Next, rpmh_write, rpmh_rsc_send_data, Return, Timeout,
       IrqEnter, CpuPmEnter, CpuPmLast, CpuPmExit, HwDone, IrqStep, IrqReclaim,
       IrqRelease, IrqDone, Halted, vars
  <2>4. e
    BY <2>3, Zenon DEF rpmh_rsc_mode_solver_set
  <2>5. QED
    BY <2>1, <2>3, <2>4, Zenon DEF rpmh_rsc_mode_solver_set,
       rpmh_rsc_ctrlr_is_busy
<1>2. QED
  BY <1>1, Invariance, PTL DEF Spec, SolverFindsIdle

(***************************************************************************)
(* The count of CPUs.  cpus_in_pm is the number of CPUs that are not up,   *)
(* so a CPU that goes down without being "last" leaves another one up.     *)
(***************************************************************************)
Lowered == {c \in Client : cpu[c] # "up"}

Counted == cpus_in_pm = Cardinality(Lowered)

PmInv == Counted /\ AllDownIsFlushed

\* What the CPU notifier does to the count.
LEMMA CountedNext ==
    ASSUME Types, Counted, [Next]_vars
    PROVE  Counted'
<1>1. IsFiniteSet(Lowered) /\ Cardinality(Lowered) \in Nat
  BY RscAssumption, FS_Subset, FS_CardinalityType, Zenon DEF Lowered
<1>2. CASE UNCHANGED <<cpu, cpus_in_pm>>
  BY <1>2, Zenon DEF Counted, Lowered
<1>3. ASSUME NEW c \in Client, CpuPmEnter(c)
      PROVE  Counted'
  <2>1. c \notin Lowered /\ Lowered' = Lowered \cup {c}
    BY <1>3, Zenon DEF CpuPmEnter, Lowered, Types, Shapes
  <2>2. cpus_in_pm' = cpus_in_pm + 1
    BY <1>3, Zenon DEF CpuPmEnter
  <2>3. QED
    BY <1>1, <2>1, <2>2, FS_AddElement, Zenon DEF Counted
<1>4. ASSUME NEW c \in Client, CpuPmExit(c)
      PROVE  Counted'
  <2>1. c \in Lowered /\ Lowered' = Lowered \ {c}
    BY <1>4, Zenon DEF CpuPmExit, Lowered, Types, Shapes
  <2>2. cpus_in_pm' = cpus_in_pm - 1
    BY <1>4, Zenon DEF CpuPmExit
  <2>3. QED
    BY <1>1, <2>1, <2>2, FS_RemoveElement, Zenon DEF Counted
<1>5. ASSUME NEW c \in Client, CpuPmLast(c)
      PROVE  Counted'
  <2>1. cpu[c] = "last" /\ c \in Lowered
    BY <1>5, Zenon DEF CpuPmLast, Lowered
  <2>2. \/ cpu' = [cpu EXCEPT ![c] = "down"] /\ cpus_in_pm' = cpus_in_pm
        \/ cpu' = [cpu EXCEPT ![c] = "up"] /\ cpus_in_pm' = cpus_in_pm - 1
    BY <1>5, Zenon DEF CpuPmLast, NotCounted
  <2>3. CASE cpu' = [cpu EXCEPT ![c] = "down"] /\ cpus_in_pm' = cpus_in_pm
    <3>1. Lowered' = Lowered
      BY <2>1, <2>3, Zenon DEF Lowered, Types, Shapes
    <3>2. QED
      BY <2>3, <3>1, Zenon DEF Counted
  <2>4. CASE cpu' = [cpu EXCEPT ![c] = "up"] /\ cpus_in_pm' = cpus_in_pm - 1
    <3>1. Lowered' = Lowered \ {c}
      BY <2>1, <2>4, Zenon DEF Lowered, Types, Shapes
    <3>2. QED
      BY <1>1, <2>1, <2>4, <3>1, FS_RemoveElement, Zenon DEF Counted
  <2>5. QED
    BY <2>2, <2>3, <2>4, Zenon
<1>6. \/ UNCHANGED <<cpu, cpus_in_pm>>
      \/ \E c \in Client : CpuPmEnter(c) \/ CpuPmExit(c) \/ CpuPmLast(c)
  BY Zenon DEF Next, rpmh_write, rpmh_rsc_send_data, Return, Timeout, IrqEnter,
     HwDone, IrqStep, IrqReclaim, IrqRelease, IrqDone,
     rpmh_rsc_mode_solver_set, Halted, pmvars, vars
<1>7. QED
  BY <1>2, <1>3, <1>4, <1>5, <1>6, Zenon

\* A step after which every CPU is down: no CPU that was up takes part in
\* it, except one that goes down.
LEMMA FlushedNext ==
    ASSUME Types, Counted, AllDownIsFlushed, [Next]_vars
    PROVE  AllDownIsFlushed'
<1> SUFFICES ASSUME \A d \in Client : cpu'[d] = "down"
             PROVE  clean' /\ in_use' = {}
  BY Zenon DEF AllDownIsFlushed
<1>1. ASSUME cpu' = cpu, clean' = clean, in_use' \subseteq in_use
      PROVE  clean' /\ in_use' = {}
  <2>1. clean /\ in_use = {}
    BY <1>1, Zenon DEF AllDownIsFlushed
  <2>2. QED
    BY <1>1, <2>1, Zenon
<1>2. ASSUME NEW c \in Client, cpu[c] = "up", cpu' = cpu
      PROVE  FALSE
  <2>1. cpu[c] = "down"
    BY <1>2, Zenon
  <2>2. QED
    BY <1>2, <2>1, Zenon
<1>3. ASSUME NEW c \in Client, CpuPmEnter(c)
      PROVE  FALSE
  <2>1. /\ cpu[c] = "up" /\ cpus_in_pm' = cpus_in_pm + 1
        /\ cpu' = [cpu EXCEPT ![c] = IF cpus_in_pm + 1 < Cardinality(Client)
                                     THEN "down" ELSE "last"]
    BY <1>3, Zenon DEF CpuPmEnter
  <2>2. cpus_in_pm + 1 < Cardinality(Client)
    BY <2>1, Zenon DEF Types, Shapes
  <2>3. Counted'
    BY CountedNext, Zenon
  <2>4. Lowered' = Client
    BY Zenon DEF Lowered
  <2>5. cpus_in_pm' = Cardinality(Client)
    BY <2>3, <2>4, Zenon DEF Counted
  <2>6. Cardinality(Client) \in Nat
    BY RscAssumption, FS_CardinalityType, Zenon
  <2>7. QED
    BY <2>1, <2>2, <2>5, <2>6
<1>4. ASSUME NEW c \in Client, CpuPmExit(c)
      PROVE  FALSE
  <2>1. cpu'[c] = "up"
    BY <1>4, Zenon DEF CpuPmExit, Types, Shapes
  <2>2. QED
    BY <2>1, Zenon
<1>5. ASSUME NEW c \in Client, CpuPmLast(c)
      PROVE  clean' /\ in_use' = {}
  <2>1. in_use' = in_use
    BY <1>5, Zenon DEF CpuPmLast
  <2>2. CASE /\ \E d \in Client \ {c} : LockHeldBy(d)
             /\ cpu' = [cpu EXCEPT ![c] = "down"]
    <3>1. PICK d \in Client \ {c} : cpu[d] = "up"
      BY <2>2, Zenon DEF LockHeldBy
    <3>2. cpu'[d] = "up"
      BY <2>2, <3>1, Zenon DEF Types, Shapes
    <3>3. QED
      BY <3>1, <3>2, Zenon
  <2>3. CASE cpu' = [cpu EXCEPT ![c] = "up"]
    <3>1. cpu'[c] = "up"
      BY <2>3, Zenon DEF Types, Shapes
    <3>2. QED
      BY <3>1, Zenon
  <2>4. CASE ~rpmh_rsc_ctrlr_is_busy /\ clean' = TRUE
    BY <2>1, <2>4, Zenon DEF rpmh_rsc_ctrlr_is_busy
  <2>5. QED
    BY <1>5, <2>2, <2>3, <2>4, Zenon DEF CpuPmLast
<1>6. \/ cpu' = cpu /\ clean' = clean /\ in_use' \subseteq in_use
      \/ \E c \in Client : cpu[c] = "up" /\ cpu' = cpu
      \/ \E c \in Client : CpuPmEnter(c) \/ CpuPmExit(c) \/ CpuPmLast(c)
  <2>1. CASE \E c \in Client, a \in Addr : \E k \in Calls[c] : rpmh_write(c, k, a)
    BY <2>1, Zenon DEF rpmh_write, pmvars
  <2>2. CASE \E c \in Client : rpmh_rsc_send_data(c)
    BY <2>2, Zenon DEF rpmh_rsc_send_data, pmvars
  <2>3. CASE \E c \in Client : Return(c) \/ Timeout(c) \/ IrqEnter(c)
    BY <2>3, Zenon DEF Return, Timeout, IrqEnter, pmvars
  <2>4. CASE \E t \in Tcs : HwDone(t)
    BY <2>4, Zenon DEF HwDone, pmvars
  <2>5. CASE IrqStep
    BY <2>5, Zenon
       DEF IrqStep, IrqReclaim, IrqRelease, IrqDone, lockvars, pmvars
  <2>6. CASE \E e \in BOOLEAN : rpmh_rsc_mode_solver_set(e)
    BY <2>6, Zenon DEF rpmh_rsc_mode_solver_set, lockvars, pmvars
  <2>7. CASE Halted \/ UNCHANGED vars
    BY <2>7, Zenon DEF Halted, vars
  <2>8. QED
    BY <2>1, <2>2, <2>3, <2>4, <2>5, <2>6, <2>7, Zenon DEF Next
<1>7. QED
  BY <1>1, <1>2, <1>3, <1>4, <1>5, <1>6, Zenon

\* When every CPU is down, all votes have been flushed and no TCS with a
\* waiting client is in use; and the count of CPUs is right.
THEOREM PowerSafe == Spec => []PmInv
<1>1. Init => PmInv
  <2> SUFFICES ASSUME Init
               PROVE  PmInv
    BY Zenon
  <2>1. Lowered = {}
    BY Zenon DEF Init, Lowered
  <2>2. Counted
    BY <2>1, FS_EmptySet, Zenon DEF Init, Counted
  <2>3. AllDownIsFlushed
    BY Zenon DEF Init, AllDownIsFlushed
  <2>4. QED
    BY <2>2, <2>3, Zenon DEF PmInv
<1>2. Inv /\ PmInv /\ [Next]_vars => PmInv'
  BY CountedNext, FlushedNext, Zenon DEF Inv, PmInv
<1>3. QED
  BY <1>1, <1>2, Invariance, PTL DEF Spec

\* AllDownIsFlushed, as the runs check it.
THEOREM FlushSafe == Spec => []AllDownIsFlushed
<1>1. PmInv => AllDownIsFlushed
  BY Zenon DEF PmInv
<1>2. QED
  BY <1>1, PowerSafe, PTL

\* Every variable keeps its type; cpus_in_pm stays within the number of CPUs.
THEOREM TypeSafe == Spec => []TypeOK
<1>1. Inv /\ PmInv => TypeOK
  <2> SUFFICES ASSUME Inv, PmInv
               PROVE  TypeOK
    BY Zenon
  <2>1. cpus_in_pm \in 0 .. Cardinality(Client)
    <3>1. Cardinality(Lowered) \in Nat /\ Cardinality(Lowered) <= Cardinality(Client)
      BY RscAssumption, FS_Subset, FS_CardinalityType, Zenon DEF Lowered
    <3>2. Cardinality(Client) \in Nat
      BY RscAssumption, FS_CardinalityType, Zenon
    <3>3. QED
      BY <3>1, <3>2 DEF PmInv, Counted
  <2>2. irq.pc \in {"idle", "reclaim", "release", "done"}
    BY Zenon DEF Inv, Types, Shapes, IrqType
  <2>3. in_use \subseteq Tcs /\ served \subseteq Request
    BY Zenon DEF Inv, Types, Shapes
  <2>4. QED
    BY <2>1, <2>2, <2>3, Zenon DEF Inv, Types, Flags, Shapes, TypeOK
<1>2. QED
  BY <1>1, Invariance, PowerSafe, PTL

=============================================================================
