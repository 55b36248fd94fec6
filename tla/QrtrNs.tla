------------------------------- MODULE QrtrNs -------------------------------
(***************************************************************************)
(* The QRTR name service (net/qrtr/ns.c) of two neighbouring nodes and the *)
(* part of the router it stands on (net/qrtr/af_qrtr.c): the HELLO         *)
(* exchange, the control port, closing sockets, and endpoints that come    *)
(* and go.                                                                 *)
(*                                                                         *)
(* Every node keeps a table of servers.  A socket registers a server with  *)
(* the name server of its own node, which broadcasts it; a neighbour is    *)
(* told of all servers when its HELLO is handled.  A closing socket        *)
(* broadcasts DEL_CLIENT by itself, without the name server.  Observers    *)
(* (lookups) are told of every change of their node's table.               *)
(*                                                                         *)
(* The name server is one worker that handles one control message after    *)
(* the other.  A handler is one step, and so is closing a socket; only     *)
(* sending HELLO is two, because others may send between setting           *)
(* hello_sent and handing the packet over.  Messages between the nodes     *)
(* keep their order while the link is up and are lost with it; a transport *)
(* that is up may refuse a HELLO.  An endpoint is registered again when    *)
(* its old node has been released.  A socket registers one service, which  *)
(* its address stands for.  Failed allocations, and the copies of BYE and  *)
(* DEL_CLIENT sent to local servers, are left out.                         *)
(***************************************************************************)
EXTENDS Integers, Sequences, SequencesExt, FiniteSets

CONSTANTS
    Node,       \* the two nodes
    ServerPort, \* ServerPort[n]: ports of n that register a server
    LookupPort, \* LookupPort[n]: ports of n that look servers up
    Budgets     \* bounds of a behaviour, which begins by choosing one of them

ASSUME NsAssumption ==
    /\ Cardinality(Node) = 2
    /\ \A b \in Budgets : /\ b.ops \in Nat      \* calls of applications
                           /\ b.downs \in Nat    \* times the link goes down
                           /\ b.refusals \in Nat \* times a HELLO is refused
    /\ \A n \in Node : 0 \notin ServerPort[n] \cup LookupPort[n]

VARIABLES
    sock,     \* sock[n][p]: closed, init, or multi (QRTR_STATE_MULTI)
    reg,      \* reg[n]: ports whose socket has a server registered
    servers,  \* servers[n]: the table of n's name server
    lookups,  \* lookups[n]: ports with a lookup
    view,     \* view[n][p]: the servers the socket has been told of
    nsq,      \* nsq[n]: receive queue of the control port
    rxq,      \* rxq[n]: node->rx_queue
    wire,     \* wire[n]: messages on their way from n
    ep,       \* ep[n]: n's endpoint for the other node
    link,     \* the transport is up
    budget,   \* what may still happen of what is bounded
    excused   \* history: <<n, s>>, n may be wrong about the server s for good

apps == <<sock, reg>>
ns   == <<servers, lookups, view>>
vars == <<sock, reg, servers, lookups, view, nsq, rxq, wire, ep, link, budget,
          excused>>

Peer(n)  == CHOOSE m \in Node : m # n
CtrlPort == 0
Port(n)  == ServerPort[n] \cup LookupPort[n]
Server   == UNION {{n} \X ServerPort[n] : n \in Node}

\* A control packet: type, sender, and the server or client it is about.
Pkt(type, from, about) == [type |-> type, from |-> from, about |-> about]
Hello(n) == Pkt("HELLO", <<n, CtrlPort>>, <<n, CtrlPort>>)

\* An endpoint: sent is hello_sent, rcvd hello_rcvd; hello: say_hello is
\* queued; by: who has set hello_sent and not yet handed over the packet, the
\* node's own worker ("work") or the name server ("ns").
NoEp  == [st |-> "none", nid |-> FALSE, sent |-> FALSE, rcvd |-> FALSE,
          hello |-> FALSE, by |-> "no"]
NewEp == [NoEp EXCEPT !.st = "up", !.hello = TRUE]

-----------------------------------------------------------------------------
(* Sending: qrtr_node_enqueue, qrtr_bcast_enqueue, qrtr_local_enqueue *)

\* Before HELLO everything else is dropped, and so is what the transport
\* does not take.
Passes(n) == ep[n].sent /\ ep[n].st = "up" /\ link

\* To the other node, addressed (announce_servers) or broadcast.
Sent(n, pkts)  == IF Passes(n) THEN [wire EXCEPT ![n] = @ \o pkts] ELSE wire
Bcast(n, pkts) == IF ep[n].nid THEN Sent(n, pkts) ELSE wire

\* HELLO is sent once.  hello_sent is set first and the packet handed to the
\* transport later, which others may do meanwhile.
TakeHello(n, who) == [ep EXCEPT ![n].sent = TRUE, ![n].by = who]

\* The transport takes the HELLO or refuses it.
HelloOutcome(n) ==
    {ok \in BOOLEAN : /\ ok => ep[n].st = "up" /\ link
                      /\ ~ok /\ ep[n].st = "up" /\ link => budget.refusals > 0}

\* Mutant: a HELLO that was refused is forgotten.
ForgetRefused(n, ok) == [ep EXCEPT ![n].sent = ok, ![n].by = "no"]

\* If it was refused, hello_sent is taken back and say_hello queued again.
AfterHello(n, ok) ==
    [ep EXCEPT ![n].sent = ok, ![n].by = "no", ![n].hello = @ \/ ~ok]

\* Only a refusal by a transport that is up is limited in number.
HelloFault(n, ok) ==
    LET refused == ~ok /\ ep[n].st = "up" /\ link IN
    /\ budget' = IF refused THEN [budget EXCEPT !.refusals = @ - 1] ELSE budget
    /\ excused' = IF refused /\ ep[n].nid
                  THEN excused \cup ({Peer(n)} \X Server) ELSE excused

Local(n, pkt) == [nsq EXCEPT ![n] = Append(@, pkt)]

-----------------------------------------------------------------------------
(* Applications *)

\* One more call from an application.
Op == budget.ops > 0 /\ budget' = [budget EXCEPT !.ops = @ - 1]

\* bind
Open(n, p) ==
    /\ Op /\ sock[n][p] = "closed"
    /\ sock' = [sock EXCEPT ![n][p] = "init"]
    /\ view' = [view EXCEPT ![n][p] = {}]
    /\ UNCHANGED <<reg, servers, lookups, nsq, rxq, wire, ep, link,
                   excused>>

\* qrtr_sendmsg of NEW_SERVER or DEL_SERVER to the local control port.
NewServer(n, p) ==
    /\ Op /\ sock[n][p] # "closed" /\ p \notin reg[n]
    /\ sock' = [sock EXCEPT ![n][p] = "multi"]
    /\ reg' = [reg EXCEPT ![n] = @ \cup {p}]
    /\ nsq' = Local(n, Pkt("NEW_SERVER", <<n, p>>, <<n, p>>))
    /\ UNCHANGED <<ns, rxq, wire, ep, link, excused>>

DelServer(n, p) ==
    /\ Op /\ p \in reg[n]
    /\ reg' = [reg EXCEPT ![n] = @ \ {p}]
    /\ nsq' = Local(n, Pkt("DEL_SERVER", <<n, p>>, <<n, p>>))
    /\ UNCHANGED <<sock, ns, rxq, wire, ep, link, excused>>

\* qrtr_sendmsg of NEW_LOOKUP or DEL_LOOKUP.
Lookup(n, p, type) ==
    /\ Op /\ sock[n][p] # "closed"
    /\ type = "DEL_LOOKUP" => p \in lookups[n]
    /\ nsq' = Local(n, Pkt(type, <<n, p>>, <<n, p>>))
    /\ UNCHANGED <<apps, ns, rxq, wire, ep, link, excused>>

\* The name server of n still has to handle a packet that makes it announce
\* the server on port p to the neighbour.
AnnouncePending(n, p) ==
    \E i \in 1 .. Len(nsq[n]) : \/ nsq[n][i].type = "HELLO"
                                \/ /\ nsq[n][i].type = "NEW_SERVER"
                                   /\ nsq[n][i].from = <<n, p>>

\* Mutant: the neighbour is not told.
DelClientLocal(n, p) == wire

\* qrtr_send_del_client: broadcast if the socket may be known everywhere.
DelClientSent(n, p) ==
    IF sock[n][p] = "multi"
    THEN Bcast(n, <<Pkt("DEL_CLIENT", <<n, p>>, <<n, p>>)>>) ELSE wire

\* qrtr_release, qrtr_port_remove
Close(n, p) ==
    /\ Op /\ sock[n][p] # "closed"
    /\ sock' = [sock EXCEPT ![n][p] = "closed"]
    /\ reg' = [reg EXCEPT ![n] = @ \ {p}]
    /\ wire' = DelClientSent(n, p)
    /\ nsq' = Local(n, Pkt("DEL_CLIENT", <<n, p>>, <<n, p>>))
    /\ excused' = IF sock[n][p] = "multi" /\ AnnouncePending(n, p)
                  THEN excused \cup {<<Peer(n), <<n, p>>>>} ELSE excused
    /\ UNCHANGED <<ns, rxq, ep, link>>

-----------------------------------------------------------------------------
(* The name server: qrtr_ns_worker handles the packet at the head *)

Handles(n, type) ==
    /\ nsq[n] # <<>> /\ Head(nsq[n]).type = type
    /\ nsq' = [nsq EXCEPT ![n] = Tail(@)]
    /\ UNCHANGED <<apps, rxq, link>>

\* lookup_notify to every observer of n that still has its socket.
Told(n, S, new) ==
    [view EXCEPT ![n] = [p \in Port(n) |->
        IF p \notin lookups[n] \/ sock[n][p] = "closed" THEN @[p]
        ELSE IF new THEN @[p] \cup S ELSE @[p] \ S]]

\* Mutant: observers do not hear of servers that went with their node.
server_del_silently(n, S) ==
    /\ servers' = [servers EXCEPT ![n] = @ \ S]
    /\ view' = view

\* server_del for the servers S of n's table
server_del(n, S) ==
    /\ servers' = [servers EXCEPT ![n] = @ \ S]
    /\ view' = Told(n, S \cap servers[n], FALSE)

\* announce_servers: all servers but the neighbour's own.
announce_servers(n) ==
    SetToSeq({Pkt("NEW_SERVER", <<n, CtrlPort>>, s) :
                 s \in {s \in servers[n] : s[1] # Peer(n)}})

\* HELLO from the neighbour: answer it (say_hello) ...
BeginHello(n) ==
    /\ nsq[n] # <<>> /\ Head(nsq[n]).type = "HELLO"
    /\ ep[n].nid /\ ~ep[n].sent
    /\ ep' = TakeHello(n, "ns")
    /\ UNCHANGED <<apps, ns, nsq, rxq, wire, link, budget, excused>>

\* ... then announce all servers.  Nothing is announced if the answer fails,
\* because no endpoint is known to lead to the neighbour (qrtr_node_lookup) or
\* because the transport refuses it; an answer that is already being sent
\* counts as sent.
ctrl_cmd_hello(n) ==
    /\ Handles(n, "HELLO")
    /\ \/ /\ ~ep[n].nid
          /\ UNCHANGED <<ep, wire, budget, excused>>
       \/ /\ ep[n].nid /\ ep[n].sent /\ ep[n].by # "ns"
          /\ wire' = Sent(n, announce_servers(n))
          /\ UNCHANGED <<ep, budget, excused>>
       \/ /\ ep[n].by = "ns"
          /\ \E ok \in HelloOutcome(n) :
                /\ ep' = AfterHello(n, ok)
                /\ HelloFault(n, ok)
                /\ wire' = IF ok THEN Sent(n, <<Hello(n)>> \o announce_servers(n))
                           ELSE wire
    /\ UNCHANGED ns

ctrl_cmd_bye(n) ==
    /\ Handles(n, "BYE")
    /\ server_del(n, {s \in servers[n] : s[1] = Head(nsq[n]).from[1]})
    /\ UNCHANGED <<lookups, ep, wire, budget, excused>>

\* The sender must be the client itself.  DEL_SERVER is not broadcast: the
\* DEL_CLIENT of the socket has been.
ctrl_cmd_del_client(n) ==
    LET m == Head(nsq[n]) IN
    /\ Handles(n, "DEL_CLIENT")
    /\ IF m.from[1] = m.about[1] /\ (m.from[1] = n => m.from = m.about)
       THEN /\ lookups' = [lookups EXCEPT ![n] =
                             IF m.about[1] = n THEN @ \ {m.about[2]} ELSE @]
            /\ servers' = [servers EXCEPT ![n] = @ \ {m.about}]
            /\ view' = [view EXCEPT ![n] = [p \in Port(n) |->
                  IF m.about = <<n, p>> THEN @[p]
                  ELSE Told(n, {m.about} \cap servers[n], FALSE)[n][p]]]
       ELSE UNCHANGED ns
    /\ UNCHANGED <<ep, wire, budget, excused>>

\* The address given in the packet is ignored for local servers.
ServerAddr(n, m) == IF m.from[1] = n THEN m.from ELSE m.about

\* server_add, then broadcast a local server and notify the observers.
ctrl_cmd_new_server(n) ==
    LET s == ServerAddr(n, Head(nsq[n])) IN
    /\ Handles(n, "NEW_SERVER")
    /\ servers' = [servers EXCEPT ![n] = @ \cup {s}]
    /\ wire' = IF s[1] = n THEN Bcast(n, <<Pkt("NEW_SERVER", <<n, CtrlPort>>, s)>>)
               ELSE wire
    /\ view' = Told(n, {s}, TRUE)
    /\ UNCHANGED <<lookups, ep, budget, excused>>

ctrl_cmd_del_server(n) ==
    LET s == ServerAddr(n, Head(nsq[n])) IN
    /\ Handles(n, "DEL_SERVER")
    /\ server_del(n, {s})
    /\ wire' = IF s[1] = n /\ s \in servers[n]
               THEN Bcast(n, <<Pkt("DEL_SERVER", <<n, CtrlPort>>, s)>>) ELSE wire
    /\ UNCHANGED <<lookups, ep, budget, excused>>

\* The lookup is entered, and told of all servers there are.
ctrl_cmd_new_lookup(n) ==
    LET p == Head(nsq[n]).from[2] IN
    /\ Handles(n, "NEW_LOOKUP")
    /\ lookups' = [lookups EXCEPT ![n] = @ \cup {p}]
    /\ view' = [view EXCEPT ![n][p] =
                   IF sock[n][p] = "closed" THEN @ ELSE @ \cup servers[n]]
    /\ UNCHANGED <<servers, ep, wire, budget, excused>>

\* From here on the client no longer relies on what it was told.
ctrl_cmd_del_lookup(n) ==
    LET p == Head(nsq[n]).from[2] IN
    /\ Handles(n, "DEL_LOOKUP")
    /\ lookups' = [lookups EXCEPT ![n] = @ \ {p}]
    /\ view' = [view EXCEPT ![n][p] = {}]
    /\ UNCHANGED <<servers, ep, wire, budget, excused>>

-----------------------------------------------------------------------------
(* Endpoints *)

\* qrtr_endpoint_register
qrtr_endpoint_register(n) ==
    /\ link /\ ep[n].st = "none"
    /\ ep' = [ep EXCEPT ![n] = NewEp]
    /\ UNCHANGED <<apps, ns, nsq, rxq, wire, link, budget, excused>>

\* qrtr_hello_work, on the worker that also runs qrtr_node_rx_work: does
\* nothing if HELLO has been sent, or is being sent ...
qrtr_hello_work(n) ==
    /\ ep[n].st # "none" /\ ep[n].hello /\ ep[n].by # "work"
    /\ ep' = [(IF ep[n].sent THEN ep ELSE TakeHello(n, "work")) EXCEPT
                 ![n].hello = FALSE]
    /\ UNCHANGED <<apps, ns, nsq, rxq, wire, link, budget, excused>>

\* ... and otherwise hands it to the transport.
XmitHello(n) ==
    /\ ep[n].by = "work"
    /\ \E ok \in HelloOutcome(n) :
          /\ ep' = AfterHello(n, ok)
          /\ HelloFault(n, ok)
          /\ wire' = IF ok THEN [wire EXCEPT ![n] = Append(@, Hello(n))] ELSE wire
    /\ UNCHANGED <<apps, ns, nsq, rxq, link>>

\* qrtr_endpoint_post: the first packet tells who the neighbour is.
qrtr_endpoint_post(n) ==
    /\ ep[n].st = "up" /\ wire[Peer(n)] # <<>>
    /\ ep' = [ep EXCEPT ![n].nid = TRUE]
    /\ wire' = [wire EXCEPT ![Peer(n)] = Tail(@)]
    /\ rxq' = [rxq EXCEPT ![n] = Append(@, Head(wire[Peer(n)]))]
    /\ UNCHANGED <<apps, ns, nsq, link, budget, excused>>

\* qrtr_sock_queue_skb: HELLO counts once.
RepeatedHello(n) == Head(rxq[n]).type = "HELLO" /\ ep[n].rcvd

\* qrtr_node_rx_work: one packet to the control port.
qrtr_node_rx_work(n) ==
    LET m == Head(rxq[n]) IN
    /\ rxq[n] # <<>> /\ ep[n].by # "work"
    /\ rxq' = [rxq EXCEPT ![n] = Tail(@)]
    /\ nsq' = IF RepeatedHello(n) THEN nsq ELSE Local(n, m)
    /\ ep' = [ep EXCEPT ![n].rcvd = @ \/ m.type = "HELLO"]
    /\ excused' = IF ep[n].st = "closing" /\ m.type = "NEW_SERVER"
                  THEN excused \cup {<<n, m.about>>} ELSE excused
    /\ UNCHANGED <<apps, ns, wire, link, budget>>

\* The transport goes down, and with it what is on the way.
LinkDown ==
    /\ link /\ budget.downs > 0
    /\ \A n \in Node : ep[n].st = "up"
    /\ link' = FALSE
    /\ budget' = [budget EXCEPT !.downs = @ - 1]
    /\ wire' = [n \in Node |-> <<>>]
    /\ UNCHANGED <<apps, ns, nsq, rxq, ep, excused>>

\* qrtr_endpoint_unregister up to qrtr_node_release: the local name server is
\* told if the neighbour had made itself known.
qrtr_endpoint_unregister(n) ==
    /\ ~link /\ ep[n].st = "up"
    /\ ep' = [ep EXCEPT ![n].st = "closing"]
    /\ nsq' = IF ep[n].nid
              THEN Local(n, Pkt("BYE", <<Peer(n), CtrlPort>>, <<Peer(n), CtrlPort>>))
              ELSE nsq
    /\ UNCHANGED <<apps, ns, rxq, wire, link, budget, excused>>

\* __qrtr_node_release, when the name server has dropped its reference and
\* kthread_flush_worker has let the worker finish.
qrtr_node_release(n) ==
    /\ ep[n].st = "closing" /\ rxq[n] = <<>> /\ ep[n].by = "no"
    /\ ep' = [ep EXCEPT ![n] = NoEp]
    /\ UNCHANGED <<apps, ns, nsq, rxq, wire, link, budget, excused>>

LinkUp ==
    /\ ~link /\ \A n \in Node : ep[n].st = "none"
    /\ link' = TRUE
    /\ UNCHANGED <<apps, ns, nsq, rxq, wire, ep, budget, excused>>

-----------------------------------------------------------------------------
Init ==
    /\ sock = [n \in Node |-> [p \in Port(n) |-> "init"]]
    /\ reg = [n \in Node |-> {}]
    /\ servers = [n \in Node |-> {}]
    /\ lookups = [n \in Node |-> {}]
    /\ view = [n \in Node |-> [p \in Port(n) |-> {}]]
    /\ nsq = [n \in Node |-> <<>>]
    /\ rxq = [n \in Node |-> <<>>]
    /\ wire = [n \in Node |-> <<>>]
    /\ ep = [n \in Node |-> NoEp]
    /\ link = TRUE
    /\ budget \in Budgets
    /\ excused = {}

qrtr_ns_worker(n) ==
    \/ BeginHello(n) \/ ctrl_cmd_hello(n) \/ ctrl_cmd_bye(n)
    \/ ctrl_cmd_del_client(n)
    \/ ctrl_cmd_new_server(n) \/ ctrl_cmd_del_server(n)
    \/ ctrl_cmd_new_lookup(n) \/ ctrl_cmd_del_lookup(n)

Next ==
    \/ \E n \in Node :
          \/ \E p \in ServerPort[n] : NewServer(n, p) \/ DelServer(n, p)
          \/ \E p \in LookupPort[n] : \/ Lookup(n, p, "NEW_LOOKUP")
                                      \/ Lookup(n, p, "DEL_LOOKUP")
          \/ \E p \in Port(n) : Open(n, p) \/ Close(n, p)
          \/ qrtr_ns_worker(n)
          \/ qrtr_endpoint_register(n)
          \/ qrtr_hello_work(n)
          \/ XmitHello(n)
          \/ qrtr_endpoint_post(n)
          \/ qrtr_node_rx_work(n)
          \/ qrtr_endpoint_unregister(n)
          \/ qrtr_node_release(n)
    \/ LinkDown
    \/ LinkUp

Spec == Init /\ [][Next]_vars

-----------------------------------------------------------------------------
(* Properties *)

PktOK(m) == /\ m.type \in {"HELLO", "BYE", "NEW_SERVER", "DEL_SERVER",
                           "DEL_CLIENT", "NEW_LOOKUP", "DEL_LOOKUP"}
            /\ m.from[1] \in Node /\ m.about[1] \in Node

\* Every variable has its type; a table only ever holds addresses of sockets
\* that register servers (ctrl_cmd_new_server).
TypeOK ==
    /\ \A n \in Node :
          /\ sock[n] \in [Port(n) -> {"closed", "init", "multi"}]
          /\ reg[n] \subseteq ServerPort[n]
          /\ servers[n] \subseteq Server
          /\ lookups[n] \subseteq Port(n)
          /\ view[n] \in [Port(n) -> SUBSET Server]
          /\ \A q \in {nsq[n], rxq[n], wire[n]} :
                \A i \in 1 .. Len(q) : PktOK(q[i])
          /\ ep[n].st \in {"none", "up", "closing"}
          /\ ep[n].by \in {"no", "work", "ns"}
    /\ link \in BOOLEAN
    /\ \E b \in Budgets : budget.ops <= b.ops /\ budget.downs <= b.downs
    /\ excused \subseteq Node \X Server

Joined == link /\ \A n \in Node : ep[n].st = "up"
Parted == \A n \in Node : ep[n].st = "none"

\* Nothing is on its way or waiting to be handled.
Settled ==
    /\ Joined \/ Parted
    /\ \A n \in Node : /\ nsq[n] = <<>> /\ rxq[n] = <<>> /\ wire[n] = <<>>
                       /\ ~ep[n].hello /\ ep[n].by = "no"

Registered == UNION {{n} \X reg[n] : n \in Node}

\* What the table of n should hold.
Expected(n) == {s \in Registered : s[1] = n \/ Joined}

\* Once everything has been handled, the tables of both nodes hold exactly
\* the servers that are registered on the nodes that are connected: no order
\* of HELLO, announcements, registrations, closing sockets and reconnections
\* loses a server or leaves one behind, but for three cases.  A socket closed
\* while its name server still has its NEW_SERVER, or the neighbour's HELLO,
\* to handle; an announcement that the router still had queued when the
\* endpoint went away, which it hands to the name server after BYE; and a HELLO
\* that the transport refused when the neighbour was already known: what is
\* announced until it is repeated is lost (ctrl_cmd_hello, ctrl_cmd_bye,
\* ctrl_cmd_new_server, ctrl_cmd_del_client, qrtr_node_enqueue).
TablesAgree ==
    Settled => \A n \in Node, s \in Server :
        <<n, s>> \notin excused => (s \in servers[n] <=> s \in Expected(n))

\* The state is well typed, and an observer has been told of exactly the
\* servers in its node's table, whatever happened between its lookup and now:
\* server_del, BYE and DEL_CLIENT notify it as NEW_SERVER does
\* (lookup_notify).
ObserverSeesTable ==
    TypeOK /\ \A n \in Node : \A p \in lookups[n] :
        \/ sock[n][p] = "closed"
        \/ \E i \in 1 .. Len(nsq[n]) : nsq[n][i].from = <<n, p>>
        \/ view[n][p] = servers[n]

\* Once everything has been handled, two connected nodes have greeted each
\* other, whoever sent the HELLO, in whatever order both name servers and
\* both workers did, and also if a transport refused it.  (HELLO need not be
\* the first packet: hello_sent is set before it goes out, and a broadcast
\* may slip in between; qrtr_node_enqueue.)
HelloExchanged ==
    Settled /\ Joined => \A n \in Node : ep[n].nid /\ ep[n].sent /\ ep[n].rcvd

\* "Neighbours would've already removed the server belonging to this port due
\* to the DEL_CLIENT broadcast from qrtr_port_remove()" (ctrl_cmd_del_client):
\* once everything has been handled no table holds a server whose socket is
\* closed.
NoClosedServer ==
    Settled => \A n \in Node : \A s \in servers[n] : sock[s[1]][s[2]] # "closed"

=============================================================================
