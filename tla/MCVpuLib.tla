------------------------------ MODULE MCVpuLib ------------------------------
(* Two processes and two codec instances, one of which a failed open or a  *)
(* crash may leave in use; one process may be killed.                      *)
EXTENDS VpuLib

=============================================================================
