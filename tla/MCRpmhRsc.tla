----------------------------- MODULE MCRpmhRsc ------------------------------
(***************************************************************************)
(* Instance of RpmhRsc for TLC.                                            *)
(***************************************************************************)
EXTENDS RpmhRsc, TLC

CONSTANTS c1, c2, a1, a2

MCClient    == {c1, c2}
MCAddr      == {a1, a2}
MCCalls     == c1 :> {"write", "async"} @@ c2 :> {"batch"}
MCAsync     == c1 :> {"write"} @@ c2 :> {"async"}
MCTwoAndOne == c1 :> 2 @@ c2 :> 1

=============================================================================
