------------------------------ MODULE MCQrtrNs ------------------------------
(***************************************************************************)
(* Instance of QrtrNs for TLC: node a has a server, node b an observer.    *)
(***************************************************************************)
EXTENDS QrtrNs, TLC

CONSTANTS a, b

MCNode       == {a, b}
MCServerPort == a :> {1} @@ b :> {}
MCLookupPort == a :> {} @@ b :> {2}

\* Many calls; calls and a refused HELLO; a loss of the link
\* with a few calls and a refused HELLO.
MCBudgets == {[ops |-> 4, downs |-> 0, refusals |-> 0],
              [ops |-> 3, downs |-> 0, refusals |-> 1],
              [ops |-> 2, downs |-> 1, refusals |-> 1]}
MCStale   == {[ops |-> 3, downs |-> 0, refusals |-> 0]}

=============================================================================
