---------------------------- MODULE MCRpmhCache -----------------------------
(* Bounded instances of RpmhCache for TLC. *)
EXTENDS RpmhCache

CONSTANTS a1, a2, a3

Cmd(a, v) == [addr |-> a, data |-> v]

\* One command for some addresses, and a value for all of them at once.
MCMessages == {<<Cmd(a1, 1)>>, <<Cmd(a1, 2)>>, <<Cmd(a2, 2)>>}
                  \cup {<<Cmd(a1, v), Cmd(a2, v), Cmd(a3, v)>> : v \in Val}

\* Batches that fit a TCS, one that is longer than a TCS, and an empty one,
\* which is refused.
MCBatches == {<< >>, <<Cmd(a2, 2), Cmd(a1, 2)>>,
              <<Cmd(a1, 1), Cmd(a2, 1), Cmd(a3, 1)>>}

=============================================================================
