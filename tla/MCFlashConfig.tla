---------------------------- MODULE MCFlashConfig ----------------------------
(* Two configurations and four updates; one session, or two at a time.     *)
EXTENDS FlashConfig

=============================================================================
