---------------------------- MODULE MCPriceState ----------------------------
(***************************************************************************)
(* Two instruments, one consumer, a channel that keeps two points: a slow  *)
(* consumer is lapped within the four points published, and points pass    *)
(* between its handshake and its receiver.                                 *)
(***************************************************************************)
EXTENDS PriceState
=============================================================================
