------------------------ MODULE GlinkFifoRefinement ------------------------
(***************************************************************************)
(* The ring of GlinkFifo implements MessageQueue.  The queue is not a      *)
(* variable of the ring: it is read back from the bytes between tail and   *)
(* head, the way the reader will.                                          *)
(***************************************************************************)
EXTENDS GlinkFifo, Sequences

\* What the reader would find at t if the header there is overwritten, or
\* is followed by bytes of another message.
Corrupt == [id |-> 0, hlen |-> 0, dlen |-> 0]

Intact(t, m) ==
    \A i \in 0 .. Tlen(m) - 1 : fifo[(t + i) % Length] = Byte(m, i)

\* The messages in the n bytes from t on.
RECURSIVE Decode(_, _)
Decode(t, n) ==
    LET m == fifo[t].msg
        size == ALIGN(Tlen(m))
    IN  IF n <= 0 THEN <<>>
        ELSE IF n < size \/ ~Intact(t, m) THEN <<Corrupt>>
        ELSE <<m>> \o Decode((t + size) % Length, n - size)

Sendable ==
    {ReadNotif} \cup
    {[id |-> k + 1, hlen |-> q.hlen, dlen |-> q.dlen] :
        k \in 1 .. MaxSends, q \in Requests}

Queue == INSTANCE MessageQueue
            WITH queue <- Decode(tail, glink_smem_rx_avail),
                 Message <- Sendable

\* Every step of the driver sends one whole message at the end, receives
\* the oldest one, or leaves the messages in the ring as they are; and no
\* message stays in the ring for ever.
ImplementsMessageQueue == Queue!Spec
=============================================================================
