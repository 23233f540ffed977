--------------------------- MODULE MCScreenLayer ---------------------------
(* Screen layers of three processes.                                       *)
EXTENDS ScreenLayer, TLC

CONSTANTS p1, p2, p3

MCProcs == {p1, p2, p3}
MCFailures == {"ipu", "pan"}
=============================================================================
