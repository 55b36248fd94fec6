--------------------------- MODULE MCGlinkIntent ---------------------------
(* Messages of one and of two chunks; one reusable intent, which takes only *)
(* the short ones.                                                          *)
EXTENDS GlinkIntent, TLC

MCBaseIntents == <<1>>

Symmetry == Permutations(Threads)
=============================================================================
