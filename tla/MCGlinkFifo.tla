---------------------------- MODULE MCGlinkFifo ----------------------------
(* A ring of 48 bytes: 32 can be filled.  The messages are a command, a    *)
(* data chunk whose end is not aligned and that wraps in every position,   *)
(* and one that needs the whole ring.                                      *)
EXTENDS GlinkFifoRefinement

MCRequests ==
    {[hlen |-> 8, dlen |-> 0, wait |-> TRUE],
     [hlen |-> 16, dlen |-> 5, wait |-> TRUE],
     [hlen |-> 16, dlen |-> 16, wait |-> TRUE],
     [hlen |-> 16, dlen |-> 5, wait |-> FALSE],
     [hlen |-> 16, dlen |-> 20, wait |-> FALSE],
     [hlen |-> 16, dlen |-> 32, wait |-> TRUE]}
=============================================================================
