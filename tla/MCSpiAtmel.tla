------------------------------ MODULE MCSpiAtmel -----------------------------
(* Two devices on the bus, two speeds, messages of up to two transfers.    *)
EXTENDS SpiAtmel
=============================================================================
