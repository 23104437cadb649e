--------------------------- MODULE MCGatewayLogin ---------------------------
(***************************************************************************)
(* Small instances of GatewayLogin: two logins that share one loopback     *)
(* port, so that the second can only begin when the first has ended.       *)
(***************************************************************************)
EXTENDS GatewayLogin

=============================================================================
