------------------------------ MODULE MCOkiCan ------------------------------
(* Two transmit objects and counters that wrap after two laps; one receive *)
(* object, for the cause that competes with the others.                    *)
EXTENDS OkiCan

MCWidth == 2 * TxNum

=============================================================================
