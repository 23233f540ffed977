------------------------------ MODULE MCOkiTx -------------------------------
(* A small transmit ring: 3 transmit objects, one receive object (its      *)
(* interrupt is one of the causes that compete with the transmit ones) and *)
(* counters that wrap after two laps.                                      *)
EXTENDS OkiTx

MCWidth == 2 * TxNum

=============================================================================
