-------------------------- MODULE MCClientRegistry --------------------------
(* Two clients are enough for one broadcast to fail with a client left over *)
(* and for one client to join while another is written to.                  *)
EXTENDS ClientRegistry

CONSTANTS c1, c2

=============================================================================
