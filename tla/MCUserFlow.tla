----------------------------- MODULE MCUserFlow -----------------------------
(***************************************************************************)
(* Three users, the first in a pool that pays a reward.  UserLamports      *)
(* covers the four accounts a flow opens, with one unit to spare.          *)
(***************************************************************************)
EXTENDS UserFlow

MCRewardUsers == {1}
=============================================================================
