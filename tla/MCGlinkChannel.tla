--------------------------- MODULE MCGlinkChannel ---------------------------
(* The constants are given in the configurations: the remote end opens the *)
(* channel twice or three times, its driver is loaded as often, and a user *)
(* opens it once.                                                          *)
EXTENDS GlinkChannel
=============================================================================
