------------------------------- MODULE MCQmi --------------------------------
(***************************************************************************)
(* Instance of Qmi for TLC.                                                *)
(***************************************************************************)
EXTENDS Qmi, TLC

CONSTANTS c1, c2, look, serv

MCClient  == {c1, c2}
MCLookup  == {look}
MCService == {serv}

\* Many transactions; a few with a reset; one that may take the error of a
\* reset from a handle with a lookup; resets while services are added and
\* remote servers come and go.
MCBudgets ==
    { [txns |-> 4, resets |-> 0, flaps |-> 0, added |-> {}],
      [txns |-> 2, resets |-> 1, flaps |-> 0, added |-> {}],
      [txns |-> 1, resets |-> 1, flaps |-> 0, added |-> {look}],
      [txns |-> 0, resets |-> 2, flaps |-> 1, added |-> {look, serv}] }

=============================================================================
