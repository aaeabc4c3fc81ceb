---------------------------- MODULE ChainClient ----------------------------
(***************************************************************************)
(* What the two senders of mtm-chain's ChainClient, submit and             *)
(* send_instructions, have in common: a call that signs a transaction,     *)
(* counts its attempts and is suspended in one await after the other, at a *)
(* cluster that goes its own way.                                          *)
(***************************************************************************)
EXTENDS Cluster

CONSTANT Commitment   \* config.commitment: the RPC client's as well

ASSUME CommitmentAssumption == Commitment \in Processed .. Finalized

\* Only a firm commitment outlives the forks: with "processed" the caller asks
\* for a status that an abandoned fork takes back.
Firm == Commitment \in {Confirmed, Finalized}

VARIABLES
    pc,        \* the await the call is suspended in
    signed,    \* blockhash of the signed transaction
    attempt,   \* the attempt being made
    result     \* Ok, the error, or Pending

Return(r) ==
    /\ pc' = "done"
    /\ result' = r

GoTo(next) ==
    /\ pc' = next
    /\ UNCHANGED result
=============================================================================
