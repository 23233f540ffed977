----------------------------- MODULE MCGpioPwm ------------------------------
(* The model has no parameters: one chip, one user of it.                  *)
EXTENDS GpioPwm

=============================================================================
