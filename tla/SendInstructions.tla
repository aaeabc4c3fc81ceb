-------------------------- MODULE SendInstructions --------------------------
(***************************************************************************)
(* ChainClient::send_instructions of crates/mtm-chain/src/tx.rs: the older *)
(* sender, which signs again with a fresh blockhash for each attempt.  The *)
(* RPC client's send_and_confirm_transaction, which it calls, is external: *)
(* send once, then poll until the signature has the client's commitment or *)
(* the blockhash is no longer valid.                                       *)
(***************************************************************************)
EXTENDS ChainClient, FiniteSets

CONSTANT MaxAttempts   \* opts.max_attempts

ASSUME SendAssumption == MaxAttempts \in Nat

senderVars == <<pc, signed, attempt, result>>
sendVars == <<height, pool, level, ok, pc, signed, attempt, result>>

SendAttempts == IF MaxAttempts = 0 THEN 1 ELSE MaxAttempts

SendTypeOK ==
    /\ ClusterTypeOK
    /\ pc \in {"blockhash", "send", "status", "valid", "done"}
    /\ signed \in Blockhash
    /\ attempt \in 1 .. SendAttempts
    /\ result \in {"Pending", "Ok", "Blockhash", "Failed"}

SendInit ==
    /\ ClusterInit
    /\ pc = "blockhash"
    /\ signed = 0
    /\ attempt = 1
    /\ result = "Pending"

\* Mutant: the loop runs once more than max_attempts.
MaySendOnceMore == attempt <= SendAttempts

MaySendAgain == attempt < SendAttempts

\* Mutant: a retry that is not counted.
UncountedRetry == GoTo("blockhash") /\ UNCHANGED attempt

\* Err(e): try again with a fresh blockhash, or give up.
AttemptFails ==
    \/ /\ MaySendAgain
       /\ attempt' = attempt + 1
       /\ GoTo("blockhash")
    \/ /\ ~MaySendAgain
       /\ Return("Failed")
       /\ UNCHANGED attempt

\* get_latest_blockhash().await? returns at once on an error, also when an
\* earlier attempt is still on its way.
RefreshBlockhash ==
    /\ pc = "blockhash"
    /\ \/ Return("Blockhash") /\ UNCHANGED signed
       \/ signed' = height /\ GoTo("send")
    /\ UNCHANGED <<clusterVars, attempt>>

\* send_transaction inside send_and_confirm_transaction.
SendTransaction ==
    /\ pc = "send"
    /\ \/ Deliver(signed) /\ GoTo("status") /\ UNCHANGED attempt
       \/ MayDeliver(signed) /\ AttemptFails
    /\ UNCHANGED <<height, level, ok, signed>>

\* Mutant: a status of any fork is taken for a confirmation.
ReachedAny(b) == level[b] >= Processed

\* get_signature_status keeps only a status at the client's commitment.
Reached(b) == level[b] >= Commitment

\* One poll: an RPC error, no status at that commitment yet, or the outcome.
PollStatus ==
    /\ pc = "status"
    /\ \/ AttemptFails
       \/ ~Reached(signed) /\ GoTo("valid") /\ UNCHANGED attempt
       \/ Reached(signed) /\ ok[signed] /\ Return("Ok") /\ UNCHANGED attempt
       \/ Reached(signed) /\ ~ok[signed] /\ AttemptFails
    /\ UNCHANGED <<clusterVars, signed>>

\* Mutant: polling never looks at the validity of the blockhash.
NeverExpires(b) == FALSE

\* is_blockhash_valid(blockhash, processed) answered false.
Expired(b) == height > LastValid(b)

\* The client polls while the blockhash is valid; when it no longer is, or the
\* request fails, the attempt is over, whatever became of the transaction.
PollValidity ==
    /\ pc = "valid"
    /\ \/ AttemptFails
       \/ ~Expired(signed) /\ GoTo("status") /\ UNCHANGED attempt
    /\ UNCHANGED <<clusterVars, signed>>

SendingCall == RefreshBlockhash \/ SendTransaction \/ PollStatus \/ PollValidity

\* Heights past the expiry of the current blockhash tell nothing apart; the
\* cluster stops there until the next attempt takes a fresh one.
BoundedBlock == height <= LastValid(signed) /\ Block

SendNext ==
    \/ SendingCall
    \/ BoundedBlock /\ UNCHANGED senderVars
    \/ \E b \in Blockhash :
         (Land(b) \/ Promote(b) \/ Abandon(b)) /\ UNCHANGED senderVars

SendSpec == SendInit /\ [][SendNext]_sendVars

\* Requests are answered or time out.  Unlike submit, this call has no timeout
\* of its own: it returns only because the cluster goes on making blocks.
SendFairSpec ==
    SendSpec /\ WF_sendVars(SendingCall) /\ WF_sendVars(BoundedBlock /\ UNCHANGED senderVars)

-----------------------------------------------------------------------------
(***************************************************************************)
(* Properties                                                              *)
(***************************************************************************)

\* Transactions that some fork has executed.
Landed == {b \in Blockhash : level[b] # Absent}

\* Retrying with fresh blockhashes can execute the instructions repeatedly,
\* but never more often than attempts were made.
OneExecutionPerAttempt == Cardinality(Landed) <= attempt

\* Ok is returned for the last signature only, and only once it has executed
\* at the client's commitment.
OkIsExecuted == result = "Ok" => signed \in Executed(Commitment)

\* The call returns, provided that blocks are made.
SendingReturns == <>(pc = "done")
=============================================================================
