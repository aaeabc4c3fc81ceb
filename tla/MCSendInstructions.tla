------------------------- MODULE MCSendInstructions -------------------------
(***************************************************************************)
(* send_instructions with two attempts.  MaxHeight leaves room for every   *)
(* attempt's blockhash to expire.                                          *)
(***************************************************************************)
EXTENDS SendInstructions

ASSUME RoomToExpire == MaxHeight >= (SendAttempts + 1) * (ValidFor + 1)
=============================================================================
