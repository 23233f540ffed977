------------------------------ MODULE MCOkiRx -------------------------------
(* Four receive objects: two in the low group, one above it, and the one   *)
(* with EOB; one transmit object, for its cause to compete.                *)
EXTENDS OkiRx

=============================================================================
