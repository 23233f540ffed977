---------------------------- MODULE MCVpuStream -----------------------------
(* One decoder and one encoder share the VPU; rings of 3 bytes go around   *)
(* again and again, and a frame buffer comes and goes on display.          *)
EXTENDS VpuStream

=============================================================================
