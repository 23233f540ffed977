--------------------------- MODULE MCCapKeyboard ----------------------------
(* Three registers: the two status bytes and the LEDs; one address past    *)
(* the map before the pointer wraps.                                       *)
EXTENDS CapKeyboard

=============================================================================
