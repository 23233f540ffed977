------------------------------- MODULE MCMdb -------------------------------
(* libmdb and a peripheral with a few events.                              *)
EXTENDS Mdb, TLC

(* Bytes that add up beyond 255, and none that the terminal converts.      *)
MCEvents == <<<<1, 2>>, <<200>>, <<128, 127, 3>>>>

(* Events with the bytes the terminal converts.                            *)
MCConverted == <<<<1>>, <<255, 1>>>>

MCSpoilt == 0 .. 255
=============================================================================
